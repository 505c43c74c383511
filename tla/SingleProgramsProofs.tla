------------------------ MODULE SingleProgramsProofs ------------------------
(***************************************************************************)
(* Proofs about the programs of SinglePrograms, for all constants: the     *)
(* frame loop of drm_gl_test3 (FlipOwnership), the one of drm_gl_test1b    *)
(* (DrawnBehind), the searches of drm_utils.c (ConfRight) and the ladders  *)
(* of the single programs (CleanupSafe), each about its own specification, *)
(* then the GStreamer elements (SinkSafe), the relays (Carried) and the    *)
(* clients of the echo servers (InOrder).                                  *)
(***************************************************************************)
EXTENDS SinglePrograms, SequenceTheorems, FiniteSetTheorems, TLAPS

-----------------------------------------------------------------------------
(* drm_gl_test3: buffers that are locked, shown and released, for every     *)
(* number of buffers and of frames, whatever program, device and command    *)
(* line.                                                                    *)

\* What of the types of FlipTypeOK the ownership rests on.
OwnTypeOK == current \in Buffers \cup {None} /\ next \in Buffers \cup {None}

\* Flips whose event has not been read.  A turn reads all events before it queues
\* the next flip, so that there are never more than two.
Unread == IF queued = None THEN events ELSE events + 1

EventInv ==
  /\ events \in Nat
  /\ Unread <= 2
  /\ stage \in {"swap", "setcrtc", "flip"} => Unread <= 1

FlipInv == OwnTypeOK /\ FlipOwnership /\ EventInv

\* What the program itself owns.
Own == [current |-> current, next |-> next, locked |-> locked]

\* Ownership as a predicate of the record the handler works on.
Owns(own) ==
  /\ own.current \in Buffers \cup {None} /\ own.next \in Buffers \cup {None}
  /\ own.locked = {own.current, own.next} \ {None}
  /\ own.current = own.next => own.current = None

\* One event: the handler releases the buffer it replaces and no other, also when
\* there is none to release or none to follow it.
LEMMA HandlerOwns ==
  ASSUME NEW own, Owns(own)
  PROVE  Owns(pageFlipHandler(own))
BY DEF Owns, pageFlipHandler

\* The number of events that wait is of no importance.
LEMMA HandledOwns ==
  ASSUME Owns(Own), events \in 0..2
  PROVE  Owns(Handled)
<1>1. Handled \in {Own, pageFlipHandler(Own), pageFlipHandler(pageFlipHandler(Own))}
  BY DEF Handled, Own
<1>2. Owns(pageFlipHandler(Own)) BY HandlerOwns
<1>3. Owns(pageFlipHandler(pageFlipHandler(Own))) BY <1>2, HandlerOwns
<1> QED BY <1>1, <1>2, <1>3

LEMMA FlipInit_Inv == FlipInit => FlipInv
BY DEF FlipInit, FlipInv, OwnTypeOK, FlipOwnership, EventInv, Unread

\* A turn of the loop, read as the four parts of the code.
LEMMA SelectInv == FlipInv /\ Select => FlipInv'
<1> SUFFICES ASSUME FlipInv, Select PROVE FlipInv'
  OBVIOUS
<1> USE DEF FlipInv, OwnTypeOK, FlipOwnership, EventInv, Unread
<1>1. CASE stage' # "swap"
  <2>1. UNCHANGED <<current, next, locked, queued, events>> BY <1>1 DEF Select, ownVars
  <2>2. stage' \in {"select", "over"} BY <1>1 DEF Select, Break
  <2> QED BY <2>1, <2>2
<1>2. CASE /\ stage' = "swap" /\ events' = 0 /\ UNCHANGED queued
           /\ current' = Handled.current /\ next' = Handled.next /\ locked' = Handled.locked
  <2>1. events \in 0..2 BY SMT
  <2>2. Owns(Own) BY FlipAssumption DEF Owns, Own
  <2>3. Owns(Handled) BY <2>1, <2>2, HandledOwns
  <2>4. OwnTypeOK' /\ FlipOwnership' BY <1>2, <2>3 DEF Owns
  <2>5. EventInv' BY <1>2
  <2> QED BY <2>4, <2>5
<1> QED BY <1>1, <1>2 DEF Select, ownVars, Break

LEMMA SwapInv == FlipInv /\ Swap => FlipInv'
<1> SUFFICES ASSUME FlipInv, Swap PROVE FlipInv'
  OBVIOUS
<1> USE FlipAssumption DEF FlipInv, OwnTypeOK, FlipOwnership, EventInv, Unread
<1>1. EventInv' BY DEF Swap, Break
<1>2. CASE next # None \/ stage' = "over"
  <2>1. UNCHANGED <<current, next, locked>> BY <1>2 DEF Swap, ownVars
  <2> QED BY <1>1, <1>2, <2>1
<1>3. CASE \E b \in Buffers \ locked : next = None /\ next' = b /\ locked' = locked \cup {b}
                                        /\ UNCHANGED current
  <2>1. PICK b \in Buffers \ locked : next = None /\ next' = b /\ locked' = locked \cup {b}
                                        /\ UNCHANGED current
    BY <1>3
  <2>2. b # None /\ b # current BY <2>1
  <2> QED BY <1>1, <2>1, <2>2
<1> QED BY <1>2, <1>3 DEF Swap, Break

LEMMA SetInv == FlipInv /\ (SetFirst \/ HasCurrent) => FlipInv'
BY DEF FlipInv, OwnTypeOK, FlipOwnership, EventInv, Unread, SetFirst, HasCurrent, Break, ownVars

LEMMA PageFlipInv == FlipInv /\ PageFlip => FlipInv'
BY DEF FlipInv, OwnTypeOK, FlipOwnership, EventInv, Unread, PageFlip, Break, ownVars

LEMMA VBlankInv == FlipInv /\ VBlank => FlipInv'
BY DEF FlipInv, OwnTypeOK, FlipOwnership, EventInv, Unread, VBlank, ownVars

LEMMA FlipStutter == FlipInv /\ UNCHANGED flipVars => FlipInv'
BY DEF FlipInv, OwnTypeOK, FlipOwnership, EventInv, Unread, flipVars, ownVars

LEMMA FlipInvNext == FlipInv /\ [Next]_vars => FlipInv'
<1> SUFFICES ASSUME FlipInv, [Next]_vars PROVE FlipInv'
  OBVIOUS
<1>1. CASE FramesBegin
  BY <1>1 DEF FramesBegin, FlipInv, OwnTypeOK, FlipOwnership, EventInv, Unread, ownVars
<1>2. CASE FramesGoOn
  BY <1>2, SelectInv, SwapInv, SetInv, PageFlipInv DEF FramesGoOn, FlipStep
<1>3. CASE Blank
  BY <1>3, VBlankInv DEF Blank
<1>4. CASE UNCHANGED flipVars
  BY <1>4, FlipStutter
<1>5. CASE \/ Succeed \/ CallFails \/ Configure \/ LookUp \/ Configured
           \/ FramesEnd \/ Undo \/ RestoreCrtc \/ PlaneOff
  <2>1. UNCHANGED flipVars
    BY <1>5 DEF Succeed, CallFails, Configure, LookUp, Configured, FramesEnd, Undo,
               RestoreCrtc, PlaneOff
  <2> QED BY <2>1, FlipStutter
<1>6. CASE UNCHANGED vars
  BY <1>6, <1>4 DEF vars
<1> QED BY <1>1, <1>2, <1>3, <1>5, <1>6 DEF Next

\* Every buffer locked by drm_gl_test3 is the current or the next one, and is given
\* back exactly once: for any number of buffers and frames, whenever flips complete
\* and however often select() reports nothing or is interrupted.
THEOREM BuffersOwned == Spec => []FlipOwnership
<1>1. Init => FlipInv
  BY FlipInit_Inv DEF Init
<1>2. FlipInv => FlipOwnership
  BY DEF FlipInv
<1> QED BY <1>1, <1>2, FlipInvNext, PTL DEF Spec

-----------------------------------------------------------------------------
(* drm_gl_test1b: two framebuffers by turns, for every number of turns, and *)
(* however many flips fail or come late.                                    *)

\* How often a turn has drawn, a flip failed or come late, by the turn of the loop.
Drawn == IF at = "flip" THEN turn + 1 ELSE turn

CountersTypeOK ==
  /\ at \in {"draw", "flip", "over"}
  /\ turn \in Nat /\ seen \in Nat /\ refused \in Nat /\ late \in Nat
  /\ drawing \in 0..1 /\ onScreen \in 0..1 /\ flipping \in {0, 1, NoneQueued}
  /\ at # "over" => turn < TURNS
  /\ turn <= TURNS /\ seen <= Drawn /\ late <= Drawn /\ refused <= turn

\* The next turn will draw into the framebuffer that is shown, or that will be
\* once the flip under way is done.
OutOfStep ==
  /\ at = "draw"
  /\ flipping = drawing \/ (flipping = NoneQueued /\ drawing = onScreen)

\* What the faults allow beyond what was seen pays for a turn out of step.
StepInv == seen + (IF OutOfStep THEN 1 ELSE 0) <= 1 + refused + late

FramesInv == CountersTypeOK /\ StepInv

LEMMA GInit_Inv == GInit => FramesInv
BY FramesAssumption DEF GInit, FramesInv, CountersTypeOK, Drawn, StepInv, OutOfStep

\* Drawing while a flip is under way pays for itself; otherwise it uses up what
\* the turn before has left for it.
LEMMA DrawInv == FramesInv /\ Draw => FramesInv'
<1> SUFFICES ASSUME FramesInv, Draw PROVE FramesInv'
  OBVIOUS
<1> USE DEF FramesInv, CountersTypeOK, Drawn, StepInv, OutOfStep
<1>1. CountersTypeOK' BY DEF Draw
<1>2. StepInv'
  <2>1. CASE flipping = NoneQueued BY <2>1 DEF Draw
  <2>2. CASE flipping # NoneQueued BY <2>2 DEF Draw
  <2> QED BY <2>1, <2>2
<1> QED BY <1>1, <1>2

\* A flip that is queued leaves the program in step, one that fails pays for the
\* next turn.
LEMMA FlipFrameInv == FramesInv /\ FlipFrame => FramesInv'
<1> SUFFICES ASSUME FramesInv, FlipFrame PROVE FramesInv'
  OBVIOUS
<1> USE FramesAssumption DEF FramesInv, CountersTypeOK, Drawn, StepInv, OutOfStep, Toggle
<1>1. CountersTypeOK' BY DEF FlipFrame
<1>2. StepInv'
  <2>1. CASE flipping = NoneQueued /\ flipping' = drawing /\ UNCHANGED refused
    BY <2>1 DEF FlipFrame
  <2>2. CASE refused' = refused + 1 /\ UNCHANGED flipping BY <2>2 DEF FlipFrame
  <2> QED BY <2>1, <2>2 DEF FlipFrame
<1> QED BY <1>1, <1>2

\* The end of a flip does not change whether the program is in step.
LEMMA FlipDoneInv == FramesInv /\ FlipDone => FramesInv'
<1> SUFFICES ASSUME FramesInv, FlipDone PROVE FramesInv'
  OBVIOUS
<1> USE FramesAssumption DEF FramesInv, CountersTypeOK, Drawn, StepInv, OutOfStep
<1>1. CountersTypeOK' BY DEF FlipDone
<1>2. StepInv' BY DEF FlipDone
<1> QED BY <1>1, <1>2

LEMMA FramesInv_Bounds == FramesInv => DrawnBehind
BY FramesAssumption DEF FramesInv, CountersTypeOK, Drawn, StepInv, OutOfStep, DrawnBehind, FramesTypeOK

\* drm_gl_test1b draws on the screen once, and otherwise no more often than flips
\* have failed or come late, for every number of turns.
THEOREM FallsBackIntoStep == GSpec => []DrawnBehind
<1>1. FramesInv /\ [GNext]_gvars => FramesInv'
  <2> SUFFICES ASSUME FramesInv, [GNext]_gvars PROVE FramesInv'
    OBVIOUS
  <2>1. CASE Draw BY <2>1, DrawInv
  <2>2. CASE FlipFrame BY <2>2, FlipFrameInv
  <2>3. CASE FlipDone BY <2>3, FlipDoneInv
  <2>4. CASE UNCHANGED gvars
    BY <2>4 DEF gvars, FramesInv, CountersTypeOK, Drawn, StepInv, OutOfStep
  <2> QED BY <2>1, <2>2, <2>3, <2>4 DEF GNext
<1> QED BY GInit_Inv, <1>1, FramesInv_Bounds, PTL DEF GSpec

-----------------------------------------------------------------------------
(* drm_utils.c: what the searches find, for every device and command line   *)

\* A list is a sequence.
LEMMA Lists ==
  ASSUME NEW list, IsList(list)
  PROVE  /\ Len(list) \in Nat /\ DOMAIN list = 1..Len(list)
         /\ list # <<>> => Len(list) # 0 /\ Head(list) = list[1]
BY DEF IsList

\* What has been found in the order of the searches, and how far each has come.
ConnectorFound ==
  /\ kms.connector # NULL /\ \E k \in DOMAIN hw.connectors : hw.connectors[k] = kms.connector
  /\ IF Autoconf THEN FirstOf(hw.connectors, kms.connector, RightConnector)
                 ELSE kms.connector.id = want.connector

EncoderFound ==
  IF Autoconf THEN kms.encoder.id \in {kms.connector.encoder, Head(kms.connector.encoders)}
              ELSE kms.encoder.id = want.encoder

ModeFound ==
  IF Autoconf
    THEN \/ kms.mode = "preferred"
         \/ /\ kms.mode = Head(kms.connector.modes)
            /\ \A k \in DOMAIN kms.connector.modes : kms.connector.modes[k] # "preferred"
    ELSE kms.mode = want.mode

\* The CRTCs the encoder could use.
Usable == {k \in kms.encoder.possible \cap DOMAIN hw.crtcs : hw.crtcs[k] # NULL}

FirstUsable(x) == \E k \in Usable : x = hw.crtcs[k] /\ \A m \in Usable : k <= m

CrtcFound ==
  IF Autoconf
    THEN \/ kms.crtc # NULL /\ kms.crtc.id = kms.encoder.crtc
         \/ /\ \A k \in DOMAIN hw.crtcs : ~RightCrtc(hw.crtcs[k])
            /\ IF Usable = {} THEN kms.crtc = NULL ELSE FirstUsable(kms.crtc)
    ELSE kms.crtc.id = want.crtc

\* c is the first usable CRTC before the i-th.
Remembered ==
  IF Autoconf /\ \E k \in Usable : k < i THEN FirstUsable(c) ELSE c = NULL

Searching ==
  /\ find = "connector" =>
       /\ i <= Len(hw.connectors) + 1
       /\ \A k \in 1..(i - 1) : ~RightConnector(hw.connectors[k])
  /\ find = "mode" =>
       /\ i <= Len(kms.connector.modes) + 1
       /\ \A k \in 1..(i - 1) : ~RightMode(kms.connector.modes[k])
  /\ find = "crtc" =>
       /\ i <= Len(hw.crtcs) + 1
       /\ \A k \in 1..(i - 1) : ~RightCrtc(hw.crtcs[k])
       /\ Remembered
  /\ find \in {"idle", "start", "connector", "encoder", "mode"} => c = NULL

Found ==
  /\ find \in {"encoder", "mode", "crtc", "found"} => ConnectorFound
  /\ find \in {"mode", "crtc", "found"} /\ how # "name" => EncoderFound
  /\ find \in {"crtc", "found"} => ModeFound
  /\ find = "found" /\ how # "name" => CrtcFound
  /\ find \in {"encoder", "crtc"} => how # "name"

ConfInv ==
  /\ Device(hw) /\ how \in {"auto", "cmdline", "name"} /\ i \in Nat \ {0}
  /\ find \in {"idle", "start", "connector", "encoder", "mode", "crtc", "found", "failed"}
  /\ kms = [connector |-> kms.connector, encoder |-> kms.encoder, mode |-> kms.mode,
            crtc |-> kms.crtc]
  /\ Searching /\ Found

LEMMA FoundIsRight == ConfInv => ConfRight
BY Lists DEF ConfInv, Found, ConfRight, ConnectorFound, EncoderFound, ModeFound, CrtcFound,
  Usable, FirstUsable, Autoconf

LEMMA FindConnectorInv == ConfInv /\ FindConnector => ConfInv'
<1> SUFFICES ASSUME ConfInv, FindConnector PROVE ConfInv'
  OBVIOUS
<1> USE DEF FindConnector, confInput
<1>1. /\ Device(hw) /\ find = "connector" /\ i \in Nat \ {0} /\ i <= Len(hw.connectors) + 1
      /\ \A k \in 1..(i - 1) : ~RightConnector(hw.connectors[k])
      /\ UNCHANGED <<how, want, hw, c>> /\ c = NULL
      /\ Len(hw.connectors) \in Nat /\ DOMAIN hw.connectors = 1..Len(hw.connectors)
  BY Lists DEF ConfInv, Searching, Device
<1>2. CASE find' = "failed" /\ i' = 1 /\ kms' = kms
  BY <1>1, <1>2 DEF ConfInv, Searching, Found, Device
<1>3. CASE /\ i <= Len(hw.connectors) /\ ~RightConnector(hw.connectors[i])
           /\ i' = i + 1 /\ UNCHANGED <<find, kms>>
  <2>1. \A k \in 1..(i' - 1) : ~RightConnector(hw.connectors[k])
    BY <1>1, <1>3
  <2>2. \A x : RightConnector(x)' = RightConnector(x)
    BY <1>1 DEF RightConnector, Autoconf
  <2> QED BY <1>1, <1>3, <2>1, <2>2 DEF ConfInv, Searching, Found, Device
<1>4. CASE /\ i <= Len(hw.connectors) /\ RightConnector(hw.connectors[i])
           /\ kms' = [kms EXCEPT !.connector = hw.connectors[i]]
           /\ find' = (IF how = "name" THEN "mode" ELSE "encoder") /\ i' = 1
  <2>1. kms'.connector = hw.connectors[i] /\ kms'.encoder = kms.encoder
        /\ kms'.mode = kms.mode /\ kms'.crtc = kms.crtc
        /\ kms' = [connector |-> kms'.connector, encoder |-> kms'.encoder,
                   mode |-> kms'.mode, crtc |-> kms'.crtc]
    BY <1>4 DEF ConfInv
  <2>2. \A x : RightConnector(x)' = RightConnector(x)
    BY <1>1 DEF RightConnector, Autoconf
  <2>3. ConnectorFound'
    BY <1>1, <1>4, <2>1, <2>2 DEF ConnectorFound, FirstOf, RightConnector, Autoconf
  <2>4. Len(kms'.connector.modes) \in Nat
    BY <1>1, <1>4, <2>1, Lists DEF Device, RightConnector
  <2> QED BY <1>1, <1>4, <2>1, <2>3, <2>4 DEF ConfInv, Searching, Found, Device
<1> QED BY <1>2, <1>3, <1>4, <1>1 DEF Loop, LookFor, Fail, Set

LEMMA FindEncoderInv == ConfInv /\ FindEncoder => ConfInv'
<1> SUFFICES ASSUME ConfInv, FindEncoder PROVE ConfInv'
  OBVIOUS
<1> USE DEF FindEncoder, confInput
<1>1. /\ Device(hw) /\ find = "encoder" /\ i \in Nat \ {0} /\ how \in {"auto", "cmdline"}
      /\ ConnectorFound /\ UNCHANGED <<how, want, hw, c>> /\ c = NULL
      /\ Len(kms.connector.modes) \in Nat
  BY Lists DEF ConfInv, Searching, Found, Device, ConnectorFound
<1>2. CASE find' = "failed" /\ i' = 1 /\ kms' = kms
  BY <1>1, <1>2 DEF ConfInv, Searching, Found, Device
<1>3. CASE i' = i + 1 /\ UNCHANGED <<find, kms>>
  <2>1. ConnectorFound'
    BY <1>1, <1>3 DEF ConnectorFound, FirstOf, RightConnector, Autoconf
  <2> QED BY <1>1, <1>3, <2>1 DEF ConfInv, Searching, Found, Device
<1>4. ASSUME NEW x, kms' = [kms EXCEPT !.encoder = x], find' = "mode", i' = 1,
             RightEncoder(x) \/ (Autoconf /\ x = FirstEncoder /\ x # NULL)
      PROVE  ConfInv'
  <2>1. kms'.encoder = x /\ kms'.connector = kms.connector
        /\ kms'.mode = kms.mode /\ kms'.crtc = kms.crtc
        /\ kms' = [connector |-> kms'.connector, encoder |-> kms'.encoder,
                   mode |-> kms'.mode, crtc |-> kms'.crtc]
    BY <1>4 DEF ConfInv
  <2>2. ConnectorFound'
    BY <1>1, <2>1 DEF ConnectorFound, FirstOf, RightConnector, Autoconf
  <2>3. EncoderFound'
    <3>1. CASE RightEncoder(x) BY <1>1, <2>1, <3>1 DEF EncoderFound, RightEncoder, Autoconf
    <3>2. CASE Autoconf /\ x = FirstEncoder /\ x # NULL
      <4>1. x.id = Head(kms.connector.encoders) BY <3>2 DEF FirstEncoder, GetEncoder
      <4> QED BY <1>1, <2>1, <3>2, <4>1 DEF EncoderFound, Autoconf
    <3> QED BY <1>4, <3>1, <3>2
  <2> QED BY <1>1, <1>4, <2>1, <2>2, <2>3 DEF ConfInv, Searching, Found, Device
<1> QED BY <1>2, <1>3, <1>4, <1>1 DEF Loop, LookFor, Fail, Set

LEMMA FindModeInv == ConfInv /\ FindMode => ConfInv'
<1> SUFFICES ASSUME ConfInv, FindMode PROVE ConfInv'
  OBVIOUS
<1> USE DEF FindMode, confInput
<1> DEFINE modes == kms.connector.modes
<1>1. /\ Device(hw) /\ find = "mode" /\ i \in Nat \ {0} /\ how \in {"auto", "cmdline", "name"}
      /\ ConnectorFound /\ (how # "name" => EncoderFound)
      /\ UNCHANGED <<how, want, hw, c>> /\ c = NULL
      /\ i <= Len(modes) + 1 /\ \A k \in 1..(i - 1) : ~RightMode(modes[k])
      /\ Len(modes) \in Nat /\ DOMAIN modes = 1..Len(modes)
      /\ Len(hw.crtcs) \in Nat
  BY Lists DEF ConfInv, Searching, Found, Device, ConnectorFound
<1>2. CASE find' = "failed" /\ i' = 1 /\ kms' = kms
  BY <1>1, <1>2 DEF ConfInv, Searching, Found, Device
<1>3. CASE i <= Len(modes) /\ ~RightMode(modes[i]) /\ i' = i + 1 /\ UNCHANGED <<find, kms>>
  <2>1. ConnectorFound'
    BY <1>1, <1>3 DEF ConnectorFound, FirstOf, RightConnector, Autoconf
  <2>2. how' # "name" => EncoderFound'
    BY <1>1, <1>3 DEF EncoderFound, Autoconf
  <2>3. \A k \in 1..(i' - 1) : ~RightMode(modes[k])'
    BY <1>1, <1>3 DEF RightMode, Autoconf
  <2> QED BY <1>1, <1>3, <2>1, <2>2, <2>3 DEF ConfInv, Searching, Found, Device
<1>4. ASSUME NEW x, kms' = [kms EXCEPT !.mode = x], i' = 1,
             find' = IF how = "name" THEN "found" ELSE "crtc",
             \/ RightMode(x)
             \/ Autoconf /\ i > Len(modes) /\ x = Head(modes)
      PROVE  ConfInv'
  <2>1. kms'.encoder = kms.encoder /\ kms'.connector = kms.connector
        /\ kms'.mode = x /\ kms'.crtc = kms.crtc
        /\ kms' = [connector |-> kms'.connector, encoder |-> kms'.encoder,
                   mode |-> kms'.mode, crtc |-> kms'.crtc]
    BY <1>4 DEF ConfInv
  <2>2. ConnectorFound'
    BY <1>1, <2>1 DEF ConnectorFound, FirstOf, RightConnector, Autoconf
  <2>3. how' # "name" => EncoderFound'
    BY <1>1, <2>1 DEF EncoderFound, Autoconf
  <2>4. ModeFound'
    BY <1>1, <1>4, <2>1 DEF ModeFound, RightMode, Autoconf
  <2>5. find' = "crtc" => Remembered'
    <3>1. Usable' \subseteq DOMAIN hw.crtcs BY <1>1 DEF Usable
    <3>2. DOMAIN hw.crtcs = 1..Len(hw.crtcs) BY <1>1, Lists DEF Device
    <3> QED BY <1>1, <1>4, <3>1, <3>2 DEF Remembered
  <2> QED BY <1>1, <1>4, <2>1, <2>2, <2>3, <2>4, <2>5 DEF ConfInv, Searching, Found, Device
<1> QED BY <1>2, <1>3, <1>4, <1>1 DEF Loop, LookFor, Fail, Set, Autoconf

LEMMA FindCrtcInv == ConfInv /\ FindCrtc => ConfInv'
<1> SUFFICES ASSUME ConfInv, FindCrtc PROVE ConfInv'
  OBVIOUS
<1> USE DEF FindCrtc, confInput
<1>1. /\ Device(hw) /\ find = "crtc" /\ i \in Nat \ {0} /\ how \in {"auto", "cmdline"}
      /\ ConnectorFound /\ EncoderFound /\ ModeFound /\ Remembered
      /\ UNCHANGED <<how, want, hw>>
      /\ i <= Len(hw.crtcs) + 1 /\ \A k \in 1..(i - 1) : ~RightCrtc(hw.crtcs[k])
      /\ Len(hw.crtcs) \in Nat /\ DOMAIN hw.crtcs = 1..Len(hw.crtcs)
  BY Lists DEF ConfInv, Searching, Found, Device
<1>2. CASE find' = "failed" /\ i' = 1 /\ kms' = kms
  BY <1>1, <1>2 DEF ConfInv, Searching, Found, Device
<1>3. CASE i <= Len(hw.crtcs) /\ ~RightCrtc(hw.crtcs[i]) /\ i' = i + 1 /\ UNCHANGED <<find, kms>>
  <2>1. ConnectorFound'
    BY <1>1, <1>3 DEF ConnectorFound, FirstOf, RightConnector, Autoconf
  <2>2. EncoderFound' /\ ModeFound' /\ Usable' = Usable
    BY <1>1, <1>3 DEF EncoderFound, ModeFound, Usable, Autoconf
  <2>3. \A k \in 1..(i' - 1) : ~RightCrtc(hw.crtcs[k])'
    BY <1>1, <1>3 DEF RightCrtc, Autoconf
  <2>4. Remembered'
    <3>1. c' = IF Autoconf /\ c = NULL /\ i \in Usable THEN hw.crtcs[i] ELSE c
      BY <1>1, <1>3 DEF Remember, Usable
    <3>2. Usable \subseteq 1..Len(hw.crtcs) /\ \A k \in Usable : hw.crtcs[k] # NULL
      BY <1>1 DEF Usable
    <3>3. CASE Autoconf /\ c = NULL /\ i \in Usable
      <4>1. \A k \in Usable : i <= k
        BY <1>1, <3>2, <3>3 DEF Remembered, FirstUsable
      <4>2. FirstUsable(c)' BY <1>1, <2>2, <3>1, <3>3, <4>1 DEF FirstUsable
      <4> QED BY <3>1, <3>2, <3>3, <1>1, <1>3, <2>2, <4>2 DEF Remembered, Autoconf
    <3>4. CASE ~(Autoconf /\ c = NULL /\ i \in Usable)
      <4>1. c' = c /\ Autoconf' = Autoconf /\ FirstUsable(c)' = FirstUsable(c)
        BY <1>1, <2>2, <3>1, <3>4 DEF Autoconf, FirstUsable
      <4>2. Autoconf /\ (\E k \in Usable : k < i') => \E k \in Usable : k < i
        <5> SUFFICES ASSUME Autoconf, NEW k \in Usable, k < i', ~ \E m \in Usable : m < i
                     PROVE  FALSE
          OBVIOUS
        <5>1. k = i BY <1>1, <1>3, <3>2
        <5>2. c = NULL BY <1>1 DEF Remembered
        <5> QED BY <3>4, <5>1, <5>2
      <4>3. \A k \in Usable : k < i => k < i' BY <1>1, <1>3, <3>2
      <4> QED BY <1>1, <2>2, <4>1, <4>2, <4>3 DEF Remembered
    <3> QED BY <3>3, <3>4
  <2> QED BY <1>1, <1>3, <2>1, <2>2, <2>3, <2>4 DEF ConfInv, Searching, Found, Device
<1>4. ASSUME NEW x, kms' = [kms EXCEPT !.crtc = x], find' = "found", i' = 1,
             \/ RightCrtc(x)
             \/ Autoconf /\ i > Len(hw.crtcs) /\ x = c
      PROVE  ConfInv'
  <2>1. kms'.encoder = kms.encoder /\ kms'.connector = kms.connector
        /\ kms'.mode = kms.mode /\ kms'.crtc = x
        /\ kms' = [connector |-> kms'.connector, encoder |-> kms'.encoder,
                   mode |-> kms'.mode, crtc |-> kms'.crtc]
    BY <1>4 DEF ConfInv
  <2>2. ConnectorFound'
    BY <1>1, <2>1 DEF ConnectorFound, FirstOf, RightConnector, Autoconf
  <2>3. EncoderFound' /\ ModeFound'
    BY <1>1, <2>1 DEF EncoderFound, ModeFound, Autoconf
  <2>4. CrtcFound'
    <3>1. Usable' = Usable /\ Autoconf' = Autoconf /\ \A k : RightCrtc(k)' = RightCrtc(k)
      BY <1>1, <2>1 DEF Usable, Autoconf, RightCrtc
    <3>2. CASE RightCrtc(x)
      BY <1>1, <2>1, <3>1, <3>2 DEF CrtcFound, RightCrtc, Autoconf
    <3>3. CASE Autoconf /\ i > Len(hw.crtcs) /\ x = c
      <4>1. \A k \in DOMAIN hw.crtcs : ~RightCrtc(hw.crtcs[k]) BY <1>1, <3>3
      <4>2. Usable # {} => \E k \in Usable : k < i BY <1>1, <3>3 DEF Usable
      <4>3. IF Usable = {} THEN x = NULL ELSE FirstUsable(x)
        BY <1>1, <3>3, <4>2 DEF Remembered
      <4>4. FirstUsable(x)' = FirstUsable(x) BY <1>1, <3>1 DEF FirstUsable
      <4> QED BY <1>1, <2>1, <3>1, <3>3, <4>1, <4>3, <4>4 DEF CrtcFound
    <3> QED BY <1>4, <3>2, <3>3
  <2> QED BY <1>1, <1>4, <2>1, <2>2, <2>3, <2>4 DEF ConfInv, Searching, Found, Device
<1> QED BY <1>2, <1>3, <1>4, <1>1 DEF Loop, LookFor, Fail, Set

\* A search that is not under way stays as it is.
LEMMA ConfStays == ConfInv /\ UNCHANGED confVars => ConfInv'
<1> SUFFICES ASSUME ConfInv, UNCHANGED <<how, want, hw, find, i, c, kms>> PROVE ConfInv'
  BY DEF confVars, confInput
<1>1. ConnectorFound' = ConnectorFound
  BY DEF ConnectorFound, FirstOf, RightConnector, Autoconf
<1>2. EncoderFound' = EncoderFound /\ ModeFound' = ModeFound /\ Usable' = Usable
  BY DEF EncoderFound, ModeFound, Usable, Autoconf
<1>3. CrtcFound' = CrtcFound /\ Remembered' = Remembered
  BY <1>2 DEF CrtcFound, Remembered, FirstUsable, RightCrtc, Autoconf
<1>4. Searching' = Searching
  BY <1>3 DEF Searching, RightConnector, RightMode, RightCrtc, Autoconf
<1>5. Found' = Found BY <1>1, <1>2, <1>3 DEF Found
<1> QED BY <1>4, <1>5 DEF ConfInv, Device

-----------------------------------------------------------------------------
(* Each program looks for its configuration once                            *)

Confs(ladder) == {k \in 1..Len(ladder) : ladder[k].call = "conf"}

\* The searches are as main leaves them: idle until the rung is reached, and never
\* begun again.
OnceInv ==
  /\ prog \in Progs
  /\ phase = "conf" => n \in Confs(Ladder)
  /\ phase \in {"get", "frames"} =>
       n \in Nat \ {0} /\ \A k \in Confs(Ladder) : k >= n => find = "idle"

\* Every sequence is a list, also one made of two.
LEMMA SequenceIsList ==
  ASSUME NEW S, NEW s \in Seq(S)
  PROVE  IsList(s)
<1>1. s \in [1..Len(s) -> {s[k] : k \in DOMAIN s}] /\ Len(s) \in Nat
  OBVIOUS
<1> QED BY <1>1 DEF IsList

LEMMA ListOfTwo ==
  ASSUME NEW s, NEW t, IsList(s), IsList(t)
  PROVE  /\ IsList(s \o t) /\ Len(s \o t) = Len(s) + Len(t)
         /\ Len(s) \in Nat /\ Len(t) \in Nat
         /\ \A k \in 1..(Len(s) + Len(t)) : (s \o t)[k] = IF k <= Len(s) THEN s[k] ELSE t[k - Len(s)]
<1> DEFINE S == {s[k] : k \in DOMAIN s} \cup {t[k] : k \in DOMAIN t}
<1>1. s \in Seq(S) /\ t \in Seq(S)
  <2>1. s \in [1..Len(s) -> S] /\ t \in [1..Len(t) -> S] /\ Len(s) \in Nat /\ Len(t) \in Nat
    BY DEF IsList
  <2> HIDE DEF S
  <2> QED BY <2>1
<1> HIDE DEF S
<1>2. /\ s \o t \in Seq(S) /\ Len(s \o t) = Len(s) + Len(t)
      /\ \A k \in 1..(Len(s) + Len(t)) : (s \o t)[k] = IF k <= Len(s) THEN s[k] ELSE t[k - Len(s)]
  BY <1>1, ConcatProperties
<1>3. IsList(s \o t) BY <1>2, SequenceIsList
<1> QED BY <1>1, <1>2, <1>3

\* A part of a ladder that looks for nothing adds none of these rungs.
LEMMA ConfsOfPart ==
  ASSUME NEW s, NEW t, IsList(s), IsList(t), Confs(t) = {}
  PROVE  IsList(s \o t) /\ Confs(s \o t) = Confs(s)
<1>1. \A k \in 1..Len(t) : t[k].call # "conf" BY DEF Confs
<1>2. \A k \in 1..(Len(s) + Len(t)) : k > Len(s) => k - Len(s) \in 1..Len(t)
  BY ListOfTwo
<1> QED BY <1>1, <1>2, ListOfTwo DEF Confs

\* No ladder has two of these rungs.
LEMMA OneConf ==
  ASSUME prog \in Progs
  PROVE  \A k, m \in Confs(Ladder) : k = m
<1>1. Confs(DumbBo) = {2}
  <2>1. Len(DumbBo) = 10 BY DEF DumbBo
  <2>2. \A k \in 1..10 : DumbBo[k].call = "conf" <=> k = 2 BY DEF DumbBo, Try
  <2> QED BY <2>1, <2>2 DEF Confs
<1>2. Confs(LibKms) = {2}
  <2>1. Len(LibKms) = 11 BY DEF LibKms
  <2>2. \A k \in 1..11 : LibKms[k].call = "conf" <=> k = 2 BY DEF LibKms, Try
  <2> QED BY <2>1, <2>2 DEF Confs
<1>3. Confs(Plane) = {}
  <2>1. Len(Plane) = 9 BY DEF Plane
  <2>2. \A k \in 1..9 : Plane[k].call # "conf" BY DEF Plane, Try
  <2> QED BY <2>1, <2>2 DEF Confs
<1>4. Confs(Mult \o MultPlane) = {3}
  <2> DEFINE both == Mult \o MultPlane
  <2>1. Len(both) = 19 BY DEF Mult, MultPlane
  <2>2. \A k \in 1..19 : both[k].call = "conf" <=> k = 3
    BY DEF Mult, MultPlane, Try
  <2> HIDE DEF both
  <2>3. Confs(both) = {3} BY <2>1, <2>2 DEF Confs
  <2> QED BY <2>3 DEF both
<1>5. Confs(Egl) = {2} /\ IsList(Egl)
  <2>1. Len(Egl) = 6 BY DEF Egl
  <2>2. \A k \in 1..6 : Egl[k].call = "conf" <=> k = 2 BY DEF Egl, Try
  <2>3. Egl \in Seq({Try("fd", "exit"), Try("conf", "close_fd"), Try("gbm", "close_fd"),
                     Try("dpy", "destroy_gbm_device"), Try("init", "egl_terminate"),
                     Try("extension", "egl_terminate")})
    BY DEF Egl
  <2>4. IsList(Egl) BY <2>3, SequenceIsList
  <2> QED BY <2>1, <2>2, <2>4 DEF Confs
<1>11. ASSUME NEW t, IsList(t), Confs(t) = {}
      PROVE  Confs(Egl \o << Try("config", "egl_terminate") >> \o EglContext \o t) = {2}
  <2> DEFINE config == << Try("config", "egl_terminate") >>
  <2>1. Confs(config) = {} /\ IsList(config)
    <3>1. Len(config) = 1 /\ config[1].call # "conf" BY DEF Try
    <3>2. config \in Seq({Try("config", "egl_terminate")}) OBVIOUS
    <3>3. IsList(config) BY <3>2, SequenceIsList
    <3> QED BY <3>1, <3>3 DEF Confs
  <2>2. Confs(EglContext) = {} /\ IsList(EglContext)
    <3>1. Len(EglContext) = 2 /\ \A k \in 1..2 : EglContext[k].call # "conf"
      BY DEF EglContext, Try
    <3>2. EglContext \in Seq({Try("ctx", "egl_terminate"), Try("current", "destroy_context")})
      BY DEF EglContext
    <3>3. IsList(EglContext) BY <3>2, SequenceIsList
    <3> QED BY <3>1, <3>3 DEF Confs
  <2> HIDE DEF config
  <2>3. Confs(Egl \o config) = {2} /\ IsList(Egl \o config) BY <1>5, <2>1, ConfsOfPart
  <2>4. Confs(Egl \o config \o EglContext) = {2} /\ IsList(Egl \o config \o EglContext)
    BY <2>2, <2>3, ConfsOfPart
  <2>5. Confs(Egl \o config \o EglContext \o t) = {2} BY <1>11, <2>4, ConfsOfPart
  <2> QED BY <2>5 DEF config
<1>6. Confs(Gl1a) = {2}
  <2>1. Len(Gl1a) = 15 BY DEF Gl1a, Egl, EglContext
  <2>2. \A k \in 1..15 : Gl1a[k].call = "conf" <=> k = 2 BY DEF Gl1a, Egl, EglContext, Try
  <2> QED BY <2>1, <2>2 DEF Confs
<1>7. Confs(Gl1b) = {2}
  <2>1. Len(Gl1b) = 18 BY DEF Gl1b, Egl, EglContext
  <2>2. \A k \in 1..18 : Gl1b[k].call = "conf" <=> k = 2 BY DEF Gl1b, Egl, EglContext, Try
  <2> QED BY <2>1, <2>2 DEF Confs
<1>8. Confs(Gl2) = {2}
  <2> DEFINE t == << Try("surface", "unmake_current"), Try("window", "unmake_current"),
     Try("both", "unmake_current"), Try("lock", "unmake_current"),
     Try("fb", "unmake_current"), Try("saved", "rm_fb"), Try("crtc", "free_saved_crtc"),
     Try("keys", "-") >>
  <2>1. t \in Seq({Try("surface", "unmake_current"), Try("window", "unmake_current"),
     Try("both", "unmake_current"), Try("lock", "unmake_current"),
     Try("fb", "unmake_current"), Try("saved", "rm_fb"), Try("crtc", "free_saved_crtc"),
     Try("keys", "-")})
    OBVIOUS
  <2>2. Len(t) = 8 /\ \A k \in 1..8 : t[k].call # "conf" BY DEF Try
  <2>3. Gl2 = Egl \o << Try("config", "egl_terminate") >> \o EglContext \o t BY DEF Gl2
  <2> HIDE DEF t
  <2>4. IsList(t) /\ Confs(t) = {} BY <2>1, <2>2, SequenceIsList DEF Confs
  <2> QED BY <1>11, <2>3, <2>4
<1>9. Confs(Gl3) = {2}
  <2> DEFINE t == << Try("surface", "unmake_current"), Try("window", "destroy_gbm_surface"),
     Try("both", "destroy_egl_surface"), Try("saved", "destroy_egl_surface"),
     Try("frames", "-") >>
  <2>1. t \in Seq({Try("surface", "unmake_current"), Try("window", "destroy_gbm_surface"),
     Try("both", "destroy_egl_surface"), Try("saved", "destroy_egl_surface"),
     Try("frames", "-")})
    OBVIOUS
  <2>2. Len(t) = 5 /\ \A k \in 1..5 : t[k].call # "conf" BY DEF Try
  <2>3. Gl3 = Egl \o << Try("config", "egl_terminate") >> \o EglContext \o t BY DEF Gl3
  <2> HIDE DEF t
  <2>4. IsList(t) /\ Confs(t) = {} BY <2>1, <2>2, SequenceIsList DEF Confs
  <2> QED BY <1>11, <2>3, <2>4
<1>10. Confs(Ladder) \in {{2}, {3}, {}}
  <2>1. CASE prog = "drm_dumb_bo" BY <1>1, <2>1 DEF Ladder
  <2>2. CASE prog = "drm_dumb_bo_libkms" BY <1>2, <2>2 DEF Ladder
  <2>3. CASE prog = "drm_dumb_bo_mult" BY <1>4, <2>3 DEF Ladder
  <2>4. CASE prog = "drm_dumb_bo_plane" BY <1>3, <2>4 DEF Ladder
  <2>5. CASE prog = "drm_gl_test1a" BY <1>6, <2>5 DEF Ladder
  <2>6. CASE prog = "drm_gl_test1b" BY <1>7, <2>6 DEF Ladder
  <2>7. CASE prog = "drm_gl_test2" BY <1>8, <2>7 DEF Ladder
  <2>8. CASE prog = "drm_gl_test3" BY <1>9, <2>8 DEF Ladder
  <2> QED BY <2>1, <2>2, <2>3, <2>4, <2>5, <2>6, <2>7, <2>8 DEF Progs
<1> QED BY <1>10

LEMMA ConfsStay == prog' = prog => Confs(Ladder)' = Confs(Ladder) /\ Ladder' = Ladder
BY DEF Confs, Ladder

\* The next rung is one further on; past the one that looks up there is no other.
LEMMA NextRungOnce ==
  ASSUME OnceInv, NextRung, prog' = prog,
         \/ phase \in {"get", "frames"} /\ find' = find
         \/ phase = "conf"
  PROVE  OnceInv'
<1>1. Confs(Ladder)' = Confs(Ladder) BY ConfsStay
<1>2. CASE phase' = "undo" BY <1>2 DEF OnceInv
<1>3. CASE phase' = "get" /\ n' = n + 1 /\ phase \in {"get", "frames"} /\ find' = find
  <2>1. n \in Nat \ {0} /\ \A k \in Confs(Ladder) : k >= n => find = "idle"
    BY <1>3 DEF OnceInv
  <2>2. Confs(Ladder) \subseteq Nat BY SMT DEF Confs
  <2>3. \A k \in Confs(Ladder) : k >= n' => find' = "idle" BY <1>3, <2>1, <2>2
  <2> QED BY <1>1, <1>3, <2>1, <2>3 DEF OnceInv
<1>4. CASE phase' = "get" /\ n' = n + 1 /\ phase = "conf"
  <2>1. n \in Confs(Ladder) /\ prog \in Progs BY <1>4 DEF OnceInv
  <2>2. Confs(Ladder) \subseteq Nat \ {0} BY SMT DEF Confs
  <2>3. \A k \in Confs(Ladder) : k = n BY <2>1, OneConf
  <2>4. \A k \in Confs(Ladder) : ~(k >= n') BY <1>4, <2>1, <2>2, <2>3
  <2> QED BY <1>1, <1>4, <2>1, <2>2, <2>4 DEF OnceInv
<1> QED BY <1>2, <1>3, <1>4 DEF NextRung

\* Whoever goes to a label never climbs again.
LEMMA FailedOnce == OnceInv /\ prog' = prog /\ Failed => OnceInv'
BY DEF OnceInv, Failed, GoTo

LEMMA ConfigureInv == ConfInv /\ OnceInv /\ Configure => ConfInv' /\ OnceInv'
<1> SUFFICES ASSUME ConfInv, OnceInv, Configure PROVE ConfInv' /\ OnceInv'
  OBVIOUS
<1>1. n \in Confs(Ladder) /\ n \in Nat \ {0}
  BY DEF Configure, Climbing, Call, OnceInv, Confs
<1>2. find = "idle" BY <1>1 DEF Configure, Climbing, OnceInv
<1>3. ConfInv' BY <1>2 DEF ConfInv, Searching, Found, Configure, confInput, LookFor, Device
<1>4. OnceInv' BY <1>1, ConfsStay DEF OnceInv, Configure
<1> QED BY <1>3, <1>4

LEMMA GetResourcesInv == ConfInv /\ GetResources => ConfInv'
<1> SUFFICES ASSUME ConfInv, GetResources PROVE ConfInv'
  OBVIOUS
<1>1. Device(hw) /\ Len(hw.connectors) \in Nat BY Lists DEF ConfInv, Device
<1> QED BY <1>1 DEF ConfInv, Searching, Found, GetResources, Fail, LookFor, confInput, Device

LEMMA LookUpInv == ConfInv /\ OnceInv /\ LookUp => ConfInv' /\ OnceInv'
<1> SUFFICES ASSUME ConfInv, OnceInv, LookUp PROVE ConfInv' /\ OnceInv'
  OBVIOUS
<1>1. ConfInv'
  BY GetResourcesInv, FindConnectorInv, FindEncoderInv, FindModeInv, FindCrtcInv
  DEF LookUp, ConfStep
<1>2. OnceInv' BY ConfsStay DEF OnceInv, LookUp, ladderVars
<1> QED BY <1>1, <1>2

LEMMA Init_ConfInv == Init => ConfInv /\ OnceInv
<1> SUFFICES ASSUME Init PROVE ConfInv /\ OnceInv
  OBVIOUS
<1>1. prog \in Progs /\ how \in {"auto", "cmdline", "name"} /\ Device(hw)
  BY SetupsAssumption DEF Init
<1> QED BY <1>1 DEF Init, ConfInit, ConfInv, OnceInv, Searching, Found, Device

LEMMA ConfInvNext == ConfInv /\ OnceInv /\ [Next]_vars => ConfInv' /\ OnceInv'
<1> SUFFICES ASSUME ConfInv, OnceInv, [Next]_vars PROVE ConfInv' /\ OnceInv'
  OBVIOUS
<1>1. CASE Succeed
  BY <1>1, ConfStays, NextRungOnce DEF Succeed, confVars
<1>2. CASE CallFails
  BY <1>2, ConfStays, NextRungOnce, FailedOnce DEF CallFails, confVars
<1>3. CASE Configure BY <1>3, ConfigureInv
<1>4. CASE LookUp BY <1>4, LookUpInv
<1>5. CASE Configured
  <2>1. ConfInv' /\ prog' = prog BY <1>5, ConfStays DEF Configured
  <2>2. CASE NextRung BY <1>5, <2>1, <2>2, NextRungOnce DEF Configured
  <2>3. CASE Failed BY <2>1, <2>3, FailedOnce
  <2>4. CASE phase' = "crash" BY <2>1, <2>4 DEF OnceInv
  <2> QED BY <1>5, <2>1, <2>2, <2>3, <2>4 DEF Configured
<1>6. CASE FramesBegin
  BY <1>6, ConfStays, ConfsStay DEF FramesBegin, OnceInv, confVars, Climbing
<1>7. CASE FramesGoOn \/ Blank \/ UNCHANGED vars
  BY <1>7, ConfStays, ConfsStay DEF FramesGoOn, Blank, vars, ladderVars, OnceInv, confVars
<1>8. CASE FramesEnd
  BY <1>8, ConfStays, NextRungOnce DEF FramesEnd, confVars
<1>9. CASE Undo \/ RestoreCrtc \/ PlaneOff
  <2>1. UNCHANGED <<confVars, prog>> /\ phase = "undo" /\ phase' \in {"undo", "done", "crash"}
    BY <1>9 DEF Undo, RestoreCrtc, PlaneOff, Descend
  <2> QED BY <2>1, ConfStays DEF OnceInv
<1> QED BY <1>1, <1>2, <1>3, <1>4, <1>5, <1>6, <1>7, <1>8, <1>9 DEF Next

\* What drm_autoconf finds fits together, and what the other searches find is what
\* was asked for: for every device libdrm can describe and every command line,
\* whichever of the programs searches.
THEOREM FoundFitsTogether == Spec => []ConfRight
<1> QED BY Init_ConfInv, ConfInvNext, FoundIsRight, PTL DEF Spec

-----------------------------------------------------------------------------
(* drm-tests: what the ladders have in common, and why they clean up         *)

\* What is released by an id: one that was never set does no harm.
Ids == Frames \cup {"fd", "rb", "image", "image0", "image1"}

\* What the call of such a rung acquires is held once the rung is passed.
Noticed(rung) == rung.label # "unseen" /\ rung.call \notin {"conf", "frames"}

Acquired(ladder, k, x) == \E m \in 1..(k - 1) : ladder[m].call = x /\ Noticed(ladder[m])

\* At the k-th rung the program may have set the CRTC.
MayShow(ladder, k) ==
  \E m \in 1..Len(ladder) : \/ m < k /\ ladder[m].call = "crtc"
                            \/ m <= k /\ ladder[m].call = "frames"

\* From the m-th label on these are released; and the CRTC is restored.
Frees(labels, m, x) == \E j \in m..Len(labels) : x \in labels[j].frees
Restores(labels, m) == \E j \in m..Len(labels) : labels[j].label = "restore"

\* Every ladder begins with the file; no two labels have a name or release a thing
\* in common, and the two buffers of drm_gl_test1b are released together.
Shaped(ladder, labels, leave) ==
  /\ Len(ladder) \in Nat \ {0, 1} /\ DOMAIN ladder = 1..Len(ladder)
  /\ Len(labels) \in Nat \ {0} /\ DOMAIN labels = 1..Len(labels)
  /\ ladder[1].call = "fd"
  /\ \A k \in 1..Len(ladder) :
       ladder[k].call \in {"fd", "conf"} => ladder[k].label \notin {"-", "unseen"}
  /\ \A m \in 1..Len(labels), j \in 1..Len(labels) :
       /\ m # j => labels[m].label # labels[j].label /\ labels[m].frees \cap labels[j].frees = {}
       /\ "bo0" \in labels[m].frees => "bo1" \in labels[m].frees
  /\ \A k \in 1..Len(ladder) : ladder[k].call = "fb0" =>
       /\ "bo0" \in leave /\ Acquired(ladder, k, "bo0")
       /\ \A m \in 1..(k - 1) : ladder[m].call \notin {"fb0", "bo1"}

\* Where a call goes that fails: what is released from there on was acquired, but
\* for one buffer of drm_gl_test1b, and what was acquired is released, but for
\* what is known to be left.
Targets(ladder, labels, leave) ==
  \A k \in 1..Len(ladder), m \in 1..Len(labels) : labels[m].label = ladder[k].label =>
    /\ \A j \in m..Len(labels) : \A x \in labels[j].frees \ Ids :
         Acquired(ladder, k, x) \/ (x = "bo1" /\ ladder[k].call = "fb0")
    /\ \A j \in 1..(m - 1) : \A x \in labels[j].frees \ leave :
         \A h \in 1..(k - 1) : ladder[h].call # x
    /\ Frees(labels, m, "fd") <=> k # 1
    /\ MayShow(ladder, k) => Restores(labels, m)
    /\ Restores(labels, m) => leave = {}

\* Only a program without the file goes to no label.
Leads(ladder, labels) ==
  \A k \in 2..Len(ladder) :
    ladder[k].label \in {"-", "unseen"} \cup {labels[m].label : m \in 1..Len(labels)}

\* A whole session has acquired all that the labels release.
Whole(ladder, labels) ==
  /\ \A j \in 1..Len(labels) : \A x \in labels[j].frees \ Ids : Acquired(ladder, Len(ladder) + 1, x)
  /\ Frees(labels, 1, "fd")
  /\ MayShow(ladder, Len(ladder) + 1) => Restores(labels, 1)

\* Where the screen is cared for, nothing is released.
Bare(labels) ==
  \A m \in 1..Len(labels) : labels[m].label \in {"restore", "plane_off"} => labels[m].frees = {}

Fits(ladder, labels, leave) ==
  /\ Shaped(ladder, labels, leave) /\ Targets(ladder, labels, leave)
  /\ Leads(ladder, labels) /\ Whole(ladder, labels) /\ Bare(labels)

\* Each of the eight, rung by rung and label by label.
LEMMA DumbBoFits == Fits(DumbBo, DumbBoLabels, {"map"})
<1> DEFINE ladder == DumbBo
           labels == DumbBoLabels
           leave == {"map"}
<1>1. /\ Len(ladder) = 10 /\ DOMAIN ladder = 1..10
      /\ Len(labels) = 5 /\ DOMAIN labels = 1..5
  BY DEF DumbBo, DumbBoLabels, Try, At
<1>2. Shaped(ladder, labels, leave)
  <2>1. /\ ladder[1].call = "fd"
        /\ \A k \in 1..10 :
             ladder[k].call \in {"fd", "conf"} => ladder[k].label \notin {"-", "unseen"}
    BY DEF DumbBo, DumbBoLabels, Try, At
  <2>2. \A m \in 1..5, j \in 1..5 :
          /\ m # j => labels[m].label # labels[j].label /\ labels[m].frees \cap labels[j].frees = {}
          /\ "bo0" \in labels[m].frees => "bo1" \in labels[m].frees
    BY DEF DumbBo, DumbBoLabels, Try, At
  <2>3. \A k \in 1..10 : ladder[k].call = "fb0" =>
          /\ "bo0" \in leave /\ Acquired(ladder, k, "bo0")
          /\ \A m \in 1..(k - 1) : ladder[m].call \notin {"fb0", "bo1"}
    BY DEF DumbBo, DumbBoLabels, Try, At, Acquired, Noticed
  <2>4. Len(ladder) \in Nat \ {0, 1} /\ Len(labels) \in Nat \ {0} BY <1>1
  <2> HIDE DEF ladder, labels, leave
  <2> QED BY <1>1, <2>1, <2>2, <2>3, <2>4 DEF Shaped
<1>3. ASSUME NEW k \in 1..10, NEW m \in 1..5, labels[m].label = ladder[k].label
      PROVE  /\ \A j \in m..5 : \A x \in labels[j].frees \ Ids :
                  Acquired(ladder, k, x) \/ (x = "bo1" /\ ladder[k].call = "fb0")
             /\ \A j \in 1..(m - 1) : \A x \in labels[j].frees \ leave :
                  \A h \in 1..(k - 1) : ladder[h].call # x
             /\ Frees(labels, m, "fd") <=> k # 1
             /\ MayShow(ladder, k) => Restores(labels, m)
             /\ Restores(labels, m) => leave = {}
  <2>1. ASSUME NEW j \in m..5, NEW x \in labels[j].frees \ Ids
        PROVE  Acquired(ladder, k, x) \/ (x = "bo1" /\ ladder[k].call = "fb0")
    BY <1>3, SMTT(90) DEF DumbBo, DumbBoLabels, Try, At, Ids, Frames, Acquired, Noticed
  <2>2. ASSUME NEW j \in 1..(m - 1), NEW x \in labels[j].frees \ leave, NEW h \in 1..(k - 1)
        PROVE  ladder[h].call # x
    BY <1>3, SMTT(90) DEF DumbBo, DumbBoLabels, Try, At
  <2>3. Frees(labels, m, "fd") <=> k # 1
    BY <1>1, <1>3, SMTT(60) DEF DumbBo, DumbBoLabels, Try, At, Frees
  <2>4. MayShow(ladder, k) => Restores(labels, m)
    BY <1>1, <1>3, SMTT(60) DEF DumbBo, DumbBoLabels, Try, At, MayShow, Restores
  <2>5. Restores(labels, m) => leave = {}
    BY <1>1, <1>3, SMTT(60) DEF DumbBo, DumbBoLabels, Try, At, Restores
  <2> HIDE DEF ladder, labels, leave
  <2> QED BY <2>1, <2>2, <2>3, <2>4, <2>5
<1>4. \A k \in 2..10 : ladder[k].label \in {"-", "unseen"} \cup {labels[m].label : m \in 1..5}
  BY DEF DumbBo, DumbBoLabels, Try, At
<1>5. \A j \in 1..5 : \A x \in labels[j].frees \ Ids : Acquired(ladder, 11, x)
  BY DEF DumbBo, DumbBoLabels, Try, At, Ids, Frames, Acquired, Noticed
<1>6. Frees(labels, 1, "fd") /\ (MayShow(ladder, 11) => Restores(labels, 1))
  BY <1>1 DEF DumbBo, DumbBoLabels, Try, At, Frees, MayShow, Restores
<1>7. \A m \in 1..5 : labels[m].label \in {"restore", "plane_off"} => labels[m].frees = {}
  BY DEF DumbBo, DumbBoLabels, Try, At
<1> HIDE DEF ladder, labels, leave
<1>8. Targets(ladder, labels, leave) BY <1>1, <1>3 DEF Targets
<1>9. Leads(ladder, labels) /\ Whole(ladder, labels) /\ Bare(labels)
  BY <1>1, <1>4, <1>5, <1>6, <1>7 DEF Leads, Whole, Bare
<1>10. Fits(ladder, labels, leave) BY <1>2, <1>8, <1>9 DEF Fits
<1> QED BY <1>10 DEF ladder, labels, leave

LEMMA LibKmsFits == Fits(LibKms, LibKmsLabels, {"fb"})
<1> DEFINE ladder == LibKms
           labels == LibKmsLabels
           leave == {"fb"}
<1>1. /\ Len(ladder) = 11 /\ DOMAIN ladder = 1..11
      /\ Len(labels) = 6 /\ DOMAIN labels = 1..6
  BY DEF LibKms, LibKmsLabels, Try, At
<1>2. Shaped(ladder, labels, leave)
  <2>1. /\ ladder[1].call = "fd"
        /\ \A k \in 1..11 :
             ladder[k].call \in {"fd", "conf"} => ladder[k].label \notin {"-", "unseen"}
    BY DEF LibKms, LibKmsLabels, Try, At
  <2>2. \A m \in 1..6, j \in 1..6 :
          /\ m # j => labels[m].label # labels[j].label /\ labels[m].frees \cap labels[j].frees = {}
          /\ "bo0" \in labels[m].frees => "bo1" \in labels[m].frees
    BY DEF LibKms, LibKmsLabels, Try, At
  <2>3. \A k \in 1..11 : ladder[k].call = "fb0" =>
          /\ "bo0" \in leave /\ Acquired(ladder, k, "bo0")
          /\ \A m \in 1..(k - 1) : ladder[m].call \notin {"fb0", "bo1"}
    BY DEF LibKms, LibKmsLabels, Try, At, Acquired, Noticed
  <2>4. Len(ladder) \in Nat \ {0, 1} /\ Len(labels) \in Nat \ {0} BY <1>1
  <2> HIDE DEF ladder, labels, leave
  <2> QED BY <1>1, <2>1, <2>2, <2>3, <2>4 DEF Shaped
<1>3. ASSUME NEW k \in 1..11, NEW m \in 1..6, labels[m].label = ladder[k].label
      PROVE  /\ \A j \in m..6 : \A x \in labels[j].frees \ Ids :
                  Acquired(ladder, k, x) \/ (x = "bo1" /\ ladder[k].call = "fb0")
             /\ \A j \in 1..(m - 1) : \A x \in labels[j].frees \ leave :
                  \A h \in 1..(k - 1) : ladder[h].call # x
             /\ Frees(labels, m, "fd") <=> k # 1
             /\ MayShow(ladder, k) => Restores(labels, m)
             /\ Restores(labels, m) => leave = {}
  <2>1. ASSUME NEW j \in m..6, NEW x \in labels[j].frees \ Ids
        PROVE  Acquired(ladder, k, x) \/ (x = "bo1" /\ ladder[k].call = "fb0")
    BY <1>3, SMTT(90) DEF LibKms, LibKmsLabels, Try, At, Ids, Frames, Acquired, Noticed
  <2>2. ASSUME NEW j \in 1..(m - 1), NEW x \in labels[j].frees \ leave, NEW h \in 1..(k - 1)
        PROVE  ladder[h].call # x
    BY <1>3, SMTT(90) DEF LibKms, LibKmsLabels, Try, At
  <2>3. Frees(labels, m, "fd") <=> k # 1
    BY <1>1, <1>3, SMTT(60) DEF LibKms, LibKmsLabels, Try, At, Frees
  <2>4. MayShow(ladder, k) => Restores(labels, m)
    BY <1>1, <1>3, SMTT(60) DEF LibKms, LibKmsLabels, Try, At, MayShow, Restores
  <2>5. Restores(labels, m) => leave = {}
    BY <1>1, <1>3, SMTT(60) DEF LibKms, LibKmsLabels, Try, At, Restores
  <2> HIDE DEF ladder, labels, leave
  <2> QED BY <2>1, <2>2, <2>3, <2>4, <2>5
<1>4. \A k \in 2..11 : ladder[k].label \in {"-", "unseen"} \cup {labels[m].label : m \in 1..6}
  BY DEF LibKms, LibKmsLabels, Try, At
<1>5. \A j \in 1..6 : \A x \in labels[j].frees \ Ids : Acquired(ladder, 12, x)
  BY DEF LibKms, LibKmsLabels, Try, At, Ids, Frames, Acquired, Noticed
<1>6. Frees(labels, 1, "fd") /\ (MayShow(ladder, 12) => Restores(labels, 1))
  BY <1>1 DEF LibKms, LibKmsLabels, Try, At, Frees, MayShow, Restores
<1>7. \A m \in 1..6 : labels[m].label \in {"restore", "plane_off"} => labels[m].frees = {}
  BY DEF LibKms, LibKmsLabels, Try, At
<1> HIDE DEF ladder, labels, leave
<1>8. Targets(ladder, labels, leave) BY <1>1, <1>3 DEF Targets
<1>9. Leads(ladder, labels) /\ Whole(ladder, labels) /\ Bare(labels)
  BY <1>1, <1>4, <1>5, <1>6, <1>7 DEF Leads, Whole, Bare
<1>10. Fits(ladder, labels, leave) BY <1>2, <1>8, <1>9 DEF Fits
<1> QED BY <1>10 DEF ladder, labels, leave

LEMMA MultFits == Fits(Mult \o MultPlane, MultLabels, {})
<1> DEFINE ladder == Mult \o MultPlane
           labels == MultLabels
           leave == {}
<1>1. /\ Len(ladder) = 19 /\ DOMAIN ladder = 1..19
      /\ Len(labels) = 11 /\ DOMAIN labels = 1..11
  BY DEF MultLabels, Mult, MultPlane, Try, At
<1>2. Shaped(ladder, labels, leave)
  <2>1. /\ ladder[1].call = "fd"
        /\ \A k \in 1..19 :
             ladder[k].call \in {"fd", "conf"} => ladder[k].label \notin {"-", "unseen"}
    BY DEF MultLabels, Mult, MultPlane, Try, At
  <2>2. \A m \in 1..11, j \in 1..11 :
          /\ m # j => labels[m].label # labels[j].label /\ labels[m].frees \cap labels[j].frees = {}
          /\ "bo0" \in labels[m].frees => "bo1" \in labels[m].frees
    BY DEF MultLabels, Mult, MultPlane, Try, At
  <2>3. \A k \in 1..19 : ladder[k].call = "fb0" =>
          /\ "bo0" \in leave /\ Acquired(ladder, k, "bo0")
          /\ \A m \in 1..(k - 1) : ladder[m].call \notin {"fb0", "bo1"}
    BY DEF MultLabels, Mult, MultPlane, Try, At, Acquired, Noticed
  <2>4. Len(ladder) \in Nat \ {0, 1} /\ Len(labels) \in Nat \ {0} BY <1>1
  <2> HIDE DEF ladder, labels, leave
  <2> QED BY <1>1, <2>1, <2>2, <2>3, <2>4 DEF Shaped
<1>3. ASSUME NEW k \in 1..19, NEW m \in 1..11, labels[m].label = ladder[k].label
      PROVE  /\ \A j \in m..11 : \A x \in labels[j].frees \ Ids :
                  Acquired(ladder, k, x) \/ (x = "bo1" /\ ladder[k].call = "fb0")
             /\ \A j \in 1..(m - 1) : \A x \in labels[j].frees \ leave :
                  \A h \in 1..(k - 1) : ladder[h].call # x
             /\ Frees(labels, m, "fd") <=> k # 1
             /\ MayShow(ladder, k) => Restores(labels, m)
             /\ Restores(labels, m) => leave = {}
  <2>1. ASSUME NEW j \in m..11, NEW x \in labels[j].frees \ Ids
        PROVE  Acquired(ladder, k, x) \/ (x = "bo1" /\ ladder[k].call = "fb0")
    BY <1>3, SMTT(90) DEF MultLabels, Mult, MultPlane, Try, At, Ids, Frames, Acquired, Noticed
  <2>2. ASSUME NEW j \in 1..(m - 1), NEW x \in labels[j].frees \ leave, NEW h \in 1..(k - 1)
        PROVE  ladder[h].call # x
    BY <1>3, SMTT(90) DEF MultLabels, Mult, MultPlane, Try, At
  <2>3. Frees(labels, m, "fd") <=> k # 1
    BY <1>1, <1>3, SMTT(60) DEF MultLabels, Mult, MultPlane, Try, At, Frees
  <2>4. MayShow(ladder, k) => Restores(labels, m)
    BY <1>1, <1>3, SMTT(60) DEF MultLabels, Mult, MultPlane, Try, At, MayShow, Restores
  <2>5. Restores(labels, m) => leave = {}
    BY <1>1, <1>3, SMTT(60) DEF MultLabels, Mult, MultPlane, Try, At, Restores
  <2> HIDE DEF ladder, labels, leave
  <2> QED BY <2>1, <2>2, <2>3, <2>4, <2>5
<1>4. \A k \in 2..19 : ladder[k].label \in {"-", "unseen"} \cup {labels[m].label : m \in 1..11}
  BY DEF MultLabels, Mult, MultPlane, Try, At
<1>5. \A j \in 1..11 : \A x \in labels[j].frees \ Ids : Acquired(ladder, 20, x)
  BY DEF MultLabels, Mult, MultPlane, Try, At, Ids, Frames, Acquired, Noticed
<1>6. Frees(labels, 1, "fd") /\ (MayShow(ladder, 20) => Restores(labels, 1))
  BY <1>1 DEF MultLabels, Mult, MultPlane, Try, At, Frees, MayShow, Restores
<1>7. \A m \in 1..11 : labels[m].label \in {"restore", "plane_off"} => labels[m].frees = {}
  BY DEF MultLabels, Mult, MultPlane, Try, At
<1> HIDE DEF ladder, labels, leave
<1>8. Targets(ladder, labels, leave) BY <1>1, <1>3 DEF Targets
<1>9. Leads(ladder, labels) /\ Whole(ladder, labels) /\ Bare(labels)
  BY <1>1, <1>4, <1>5, <1>6, <1>7 DEF Leads, Whole, Bare
<1>10. Fits(ladder, labels, leave) BY <1>2, <1>8, <1>9 DEF Fits
<1> QED BY <1>10 DEF ladder, labels, leave

LEMMA PlaneFits == Fits(Plane, PlaneLabels, {})
<1> DEFINE ladder == Plane
           labels == PlaneLabels
           leave == {}
<1>1. /\ Len(ladder) = 9 /\ DOMAIN ladder = 1..9
      /\ Len(labels) = 5 /\ DOMAIN labels = 1..5
  BY DEF Plane, PlaneLabels, Try, At
<1>2. Shaped(ladder, labels, leave)
  <2>1. /\ ladder[1].call = "fd"
        /\ \A k \in 1..9 :
             ladder[k].call \in {"fd", "conf"} => ladder[k].label \notin {"-", "unseen"}
    BY DEF Plane, PlaneLabels, Try, At
  <2>2. \A m \in 1..5, j \in 1..5 :
          /\ m # j => labels[m].label # labels[j].label /\ labels[m].frees \cap labels[j].frees = {}
          /\ "bo0" \in labels[m].frees => "bo1" \in labels[m].frees
    BY DEF Plane, PlaneLabels, Try, At
  <2>3. \A k \in 1..9 : ladder[k].call = "fb0" =>
          /\ "bo0" \in leave /\ Acquired(ladder, k, "bo0")
          /\ \A m \in 1..(k - 1) : ladder[m].call \notin {"fb0", "bo1"}
    BY DEF Plane, PlaneLabels, Try, At, Acquired, Noticed
  <2>4. Len(ladder) \in Nat \ {0, 1} /\ Len(labels) \in Nat \ {0} BY <1>1
  <2> HIDE DEF ladder, labels, leave
  <2> QED BY <1>1, <2>1, <2>2, <2>3, <2>4 DEF Shaped
<1>3. ASSUME NEW k \in 1..9, NEW m \in 1..5, labels[m].label = ladder[k].label
      PROVE  /\ \A j \in m..5 : \A x \in labels[j].frees \ Ids :
                  Acquired(ladder, k, x) \/ (x = "bo1" /\ ladder[k].call = "fb0")
             /\ \A j \in 1..(m - 1) : \A x \in labels[j].frees \ leave :
                  \A h \in 1..(k - 1) : ladder[h].call # x
             /\ Frees(labels, m, "fd") <=> k # 1
             /\ MayShow(ladder, k) => Restores(labels, m)
             /\ Restores(labels, m) => leave = {}
  <2>1. ASSUME NEW j \in m..5, NEW x \in labels[j].frees \ Ids
        PROVE  Acquired(ladder, k, x) \/ (x = "bo1" /\ ladder[k].call = "fb0")
    BY <1>3, SMTT(90) DEF Plane, PlaneLabels, Try, At, Ids, Frames, Acquired, Noticed
  <2>2. ASSUME NEW j \in 1..(m - 1), NEW x \in labels[j].frees \ leave, NEW h \in 1..(k - 1)
        PROVE  ladder[h].call # x
    BY <1>3, SMTT(90) DEF Plane, PlaneLabels, Try, At
  <2>3. Frees(labels, m, "fd") <=> k # 1
    BY <1>1, <1>3, SMTT(60) DEF Plane, PlaneLabels, Try, At, Frees
  <2>4. MayShow(ladder, k) => Restores(labels, m)
    BY <1>1, <1>3, SMTT(60) DEF Plane, PlaneLabels, Try, At, MayShow, Restores
  <2>5. Restores(labels, m) => leave = {}
    BY <1>1, <1>3, SMTT(60) DEF Plane, PlaneLabels, Try, At, Restores
  <2> HIDE DEF ladder, labels, leave
  <2> QED BY <2>1, <2>2, <2>3, <2>4, <2>5
<1>4. \A k \in 2..9 : ladder[k].label \in {"-", "unseen"} \cup {labels[m].label : m \in 1..5}
  BY DEF Plane, PlaneLabels, Try, At
<1>5. \A j \in 1..5 : \A x \in labels[j].frees \ Ids : Acquired(ladder, 10, x)
  BY DEF Plane, PlaneLabels, Try, At, Ids, Frames, Acquired, Noticed
<1>6. Frees(labels, 1, "fd") /\ (MayShow(ladder, 10) => Restores(labels, 1))
  BY <1>1 DEF Plane, PlaneLabels, Try, At, Frees, MayShow, Restores
<1>7. \A m \in 1..5 : labels[m].label \in {"restore", "plane_off"} => labels[m].frees = {}
  BY DEF Plane, PlaneLabels, Try, At
<1> HIDE DEF ladder, labels, leave
<1>8. Targets(ladder, labels, leave) BY <1>1, <1>3 DEF Targets
<1>9. Leads(ladder, labels) /\ Whole(ladder, labels) /\ Bare(labels)
  BY <1>1, <1>4, <1>5, <1>6, <1>7 DEF Leads, Whole, Bare
<1>10. Fits(ladder, labels, leave) BY <1>2, <1>8, <1>9 DEF Fits
<1> QED BY <1>10 DEF ladder, labels, leave

LEMMA Gl1aFits == Fits(Gl1a, Gl1aLabels, {"rb"})
<1> DEFINE ladder == Gl1a
           labels == Gl1aLabels
           leave == {"rb"}
<1>1. /\ Len(ladder) = 15 /\ DOMAIN ladder = 1..15
      /\ Len(labels) = 10 /\ DOMAIN labels = 1..10
  BY DEF Gl1a, Gl1aLabels, Egl, EglContext, EglLabels, Try, At
<1>2. Shaped(ladder, labels, leave)
  <2>1. /\ ladder[1].call = "fd"
        /\ \A k \in 1..15 :
             ladder[k].call \in {"fd", "conf"} => ladder[k].label \notin {"-", "unseen"}
    BY DEF Gl1a, Gl1aLabels, Egl, EglContext, EglLabels, Try, At
  <2>2. \A m \in 1..10, j \in 1..10 :
          /\ m # j => labels[m].label # labels[j].label /\ labels[m].frees \cap labels[j].frees = {}
          /\ "bo0" \in labels[m].frees => "bo1" \in labels[m].frees
    BY DEF Gl1a, Gl1aLabels, Egl, EglContext, EglLabels, Try, At
  <2>3. \A k \in 1..15 : ladder[k].call = "fb0" =>
          /\ "bo0" \in leave /\ Acquired(ladder, k, "bo0")
          /\ \A m \in 1..(k - 1) : ladder[m].call \notin {"fb0", "bo1"}
    BY DEF Gl1a, Gl1aLabels, Egl, EglContext, EglLabels, Try, At, Acquired, Noticed
  <2>4. Len(ladder) \in Nat \ {0, 1} /\ Len(labels) \in Nat \ {0} BY <1>1
  <2> HIDE DEF ladder, labels, leave
  <2> QED BY <1>1, <2>1, <2>2, <2>3, <2>4 DEF Shaped
<1>3. ASSUME NEW k \in 1..15, NEW m \in 1..10, labels[m].label = ladder[k].label
      PROVE  /\ \A j \in m..10 : \A x \in labels[j].frees \ Ids :
                  Acquired(ladder, k, x) \/ (x = "bo1" /\ ladder[k].call = "fb0")
             /\ \A j \in 1..(m - 1) : \A x \in labels[j].frees \ leave :
                  \A h \in 1..(k - 1) : ladder[h].call # x
             /\ Frees(labels, m, "fd") <=> k # 1
             /\ MayShow(ladder, k) => Restores(labels, m)
             /\ Restores(labels, m) => leave = {}
  <2>1. ASSUME NEW j \in m..10, NEW x \in labels[j].frees \ Ids
        PROVE  Acquired(ladder, k, x) \/ (x = "bo1" /\ ladder[k].call = "fb0")
    BY <1>3, SMTT(90) DEF Gl1a, Gl1aLabels, Egl, EglContext, EglLabels, Try, At,
              Ids, Frames, Acquired, Noticed
  <2>2. ASSUME NEW j \in 1..(m - 1), NEW x \in labels[j].frees \ leave, NEW h \in 1..(k - 1)
        PROVE  ladder[h].call # x
    BY <1>3, SMTT(90) DEF Gl1a, Gl1aLabels, Egl, EglContext, EglLabels, Try, At
  <2>3. Frees(labels, m, "fd") <=> k # 1
    BY <1>1, <1>3, SMTT(60) DEF Gl1a, Gl1aLabels, Egl, EglContext, EglLabels, Try, At,
              Frees
  <2>4. MayShow(ladder, k) => Restores(labels, m)
    BY <1>1, <1>3, SMTT(60) DEF Gl1a, Gl1aLabels, Egl, EglContext, EglLabels, Try, At,
              MayShow, Restores
  <2>5. Restores(labels, m) => leave = {}
    BY <1>1, <1>3, SMTT(60) DEF Gl1a, Gl1aLabels, Egl, EglContext, EglLabels, Try, At,
              Restores
  <2> HIDE DEF ladder, labels, leave
  <2> QED BY <2>1, <2>2, <2>3, <2>4, <2>5
<1>4. \A k \in 2..15 : ladder[k].label \in {"-", "unseen"} \cup {labels[m].label : m \in 1..10}
  BY DEF Gl1a, Gl1aLabels, Egl, EglContext, EglLabels, Try, At
<1>5. \A j \in 1..10 : \A x \in labels[j].frees \ Ids : Acquired(ladder, 16, x)
  BY DEF Gl1a, Gl1aLabels, Egl, EglContext, EglLabels, Try, At, Ids, Frames, Acquired, Noticed
<1>6. Frees(labels, 1, "fd") /\ (MayShow(ladder, 16) => Restores(labels, 1))
  BY <1>1 DEF Gl1a, Gl1aLabels, Egl, EglContext, EglLabels, Try, At, Frees, MayShow, Restores
<1>7. \A m \in 1..10 : labels[m].label \in {"restore", "plane_off"} => labels[m].frees = {}
  BY DEF Gl1a, Gl1aLabels, Egl, EglContext, EglLabels, Try, At
<1> HIDE DEF ladder, labels, leave
<1>8. Targets(ladder, labels, leave) BY <1>1, <1>3 DEF Targets
<1>9. Leads(ladder, labels) /\ Whole(ladder, labels) /\ Bare(labels)
  BY <1>1, <1>4, <1>5, <1>6, <1>7 DEF Leads, Whole, Bare
<1>10. Fits(ladder, labels, leave) BY <1>2, <1>8, <1>9 DEF Fits
<1> QED BY <1>10 DEF ladder, labels, leave

LEMMA Gl1bFits == Fits(Gl1b, Gl1bLabels, {"rb", "bo0", "image0", "fb0"})
<1> DEFINE ladder == Gl1b
           labels == Gl1bLabels
           leave == {"rb", "bo0", "image0", "fb0"}
<1>1. /\ Len(ladder) = 18 /\ DOMAIN ladder = 1..18
      /\ Len(labels) = 10 /\ DOMAIN labels = 1..10
  BY DEF Gl1b, Gl1bLabels, Egl, EglContext, EglLabels, Try, At
<1>2. Shaped(ladder, labels, leave)
  <2>1. /\ ladder[1].call = "fd"
        /\ \A k \in 1..18 :
             ladder[k].call \in {"fd", "conf"} => ladder[k].label \notin {"-", "unseen"}
    BY DEF Gl1b, Gl1bLabels, Egl, EglContext, EglLabels, Try, At
  <2>2. \A m \in 1..10, j \in 1..10 :
          /\ m # j => labels[m].label # labels[j].label /\ labels[m].frees \cap labels[j].frees = {}
          /\ "bo0" \in labels[m].frees => "bo1" \in labels[m].frees
    BY DEF Gl1b, Gl1bLabels, Egl, EglContext, EglLabels, Try, At
  <2>3. \A k \in 1..18 : ladder[k].call = "fb0" =>
          /\ "bo0" \in leave /\ Acquired(ladder, k, "bo0")
          /\ \A m \in 1..(k - 1) : ladder[m].call \notin {"fb0", "bo1"}
    BY DEF Gl1b, Gl1bLabels, Egl, EglContext, EglLabels, Try, At, Acquired, Noticed
  <2>4. Len(ladder) \in Nat \ {0, 1} /\ Len(labels) \in Nat \ {0} BY <1>1
  <2> HIDE DEF ladder, labels, leave
  <2> QED BY <1>1, <2>1, <2>2, <2>3, <2>4 DEF Shaped
<1>3. ASSUME NEW k \in 1..18, NEW m \in 1..10, labels[m].label = ladder[k].label
      PROVE  /\ \A j \in m..10 : \A x \in labels[j].frees \ Ids :
                  Acquired(ladder, k, x) \/ (x = "bo1" /\ ladder[k].call = "fb0")
             /\ \A j \in 1..(m - 1) : \A x \in labels[j].frees \ leave :
                  \A h \in 1..(k - 1) : ladder[h].call # x
             /\ Frees(labels, m, "fd") <=> k # 1
             /\ MayShow(ladder, k) => Restores(labels, m)
             /\ Restores(labels, m) => leave = {}
  <2>1. ASSUME NEW j \in m..10, NEW x \in labels[j].frees \ Ids
        PROVE  Acquired(ladder, k, x) \/ (x = "bo1" /\ ladder[k].call = "fb0")
    BY <1>3, SMTT(90) DEF Gl1b, Gl1bLabels, Egl, EglContext, EglLabels, Try, At,
              Ids, Frames, Acquired, Noticed
  <2>2. ASSUME NEW j \in 1..(m - 1), NEW x \in labels[j].frees \ leave, NEW h \in 1..(k - 1)
        PROVE  ladder[h].call # x
    BY <1>3, SMTT(90) DEF Gl1b, Gl1bLabels, Egl, EglContext, EglLabels, Try, At
  <2>3. Frees(labels, m, "fd") <=> k # 1
    BY <1>1, <1>3, SMTT(60) DEF Gl1b, Gl1bLabels, Egl, EglContext, EglLabels, Try, At,
              Frees
  <2>4. MayShow(ladder, k) => Restores(labels, m)
    BY <1>1, <1>3, SMTT(60) DEF Gl1b, Gl1bLabels, Egl, EglContext, EglLabels, Try, At,
              MayShow, Restores
  <2>5. Restores(labels, m) => leave = {}
    BY <1>1, <1>3, SMTT(60) DEF Gl1b, Gl1bLabels, Egl, EglContext, EglLabels, Try, At,
              Restores
  <2> HIDE DEF ladder, labels, leave
  <2> QED BY <2>1, <2>2, <2>3, <2>4, <2>5
<1>4. \A k \in 2..18 : ladder[k].label \in {"-", "unseen"} \cup {labels[m].label : m \in 1..10}
  BY DEF Gl1b, Gl1bLabels, Egl, EglContext, EglLabels, Try, At
<1>5. \A j \in 1..10 : \A x \in labels[j].frees \ Ids : Acquired(ladder, 19, x)
  BY DEF Gl1b, Gl1bLabels, Egl, EglContext, EglLabels, Try, At, Ids, Frames, Acquired, Noticed
<1>6. Frees(labels, 1, "fd") /\ (MayShow(ladder, 19) => Restores(labels, 1))
  BY <1>1 DEF Gl1b, Gl1bLabels, Egl, EglContext, EglLabels, Try, At, Frees, MayShow, Restores
<1>7. \A m \in 1..10 : labels[m].label \in {"restore", "plane_off"} => labels[m].frees = {}
  BY DEF Gl1b, Gl1bLabels, Egl, EglContext, EglLabels, Try, At
<1> HIDE DEF ladder, labels, leave
<1>8. Targets(ladder, labels, leave) BY <1>1, <1>3 DEF Targets
<1>9. Leads(ladder, labels) /\ Whole(ladder, labels) /\ Bare(labels)
  BY <1>1, <1>4, <1>5, <1>6, <1>7 DEF Leads, Whole, Bare
<1>10. Fits(ladder, labels, leave) BY <1>2, <1>8, <1>9 DEF Fits
<1> QED BY <1>10 DEF ladder, labels, leave

LEMMA Gl2Fits == Fits(Gl2, Gl2Labels, {})
<1> DEFINE ladder == Gl2
           labels == Gl2Labels
           leave == {}
<1>1. /\ Len(ladder) = 17 /\ DOMAIN ladder = 1..17
      /\ Len(labels) = 8 /\ DOMAIN labels = 1..8
  BY DEF Gl2, Gl2Labels, Egl, EglContext, EglLabels, Try, At
<1>2. Shaped(ladder, labels, leave)
  <2>1. /\ ladder[1].call = "fd"
        /\ \A k \in 1..17 :
             ladder[k].call \in {"fd", "conf"} => ladder[k].label \notin {"-", "unseen"}
    BY DEF Gl2, Gl2Labels, Egl, EglContext, EglLabels, Try, At
  <2>2. \A m \in 1..8, j \in 1..8 :
          /\ m # j => labels[m].label # labels[j].label /\ labels[m].frees \cap labels[j].frees = {}
          /\ "bo0" \in labels[m].frees => "bo1" \in labels[m].frees
    BY DEF Gl2, Gl2Labels, Egl, EglContext, EglLabels, Try, At
  <2>3. \A k \in 1..17 : ladder[k].call = "fb0" =>
          /\ "bo0" \in leave /\ Acquired(ladder, k, "bo0")
          /\ \A m \in 1..(k - 1) : ladder[m].call \notin {"fb0", "bo1"}
    BY DEF Gl2, Gl2Labels, Egl, EglContext, EglLabels, Try, At, Acquired, Noticed
  <2>4. Len(ladder) \in Nat \ {0, 1} /\ Len(labels) \in Nat \ {0} BY <1>1
  <2> HIDE DEF ladder, labels, leave
  <2> QED BY <1>1, <2>1, <2>2, <2>3, <2>4 DEF Shaped
<1>3. ASSUME NEW k \in 1..17, NEW m \in 1..8, labels[m].label = ladder[k].label
      PROVE  /\ \A j \in m..8 : \A x \in labels[j].frees \ Ids :
                  Acquired(ladder, k, x) \/ (x = "bo1" /\ ladder[k].call = "fb0")
             /\ \A j \in 1..(m - 1) : \A x \in labels[j].frees \ leave :
                  \A h \in 1..(k - 1) : ladder[h].call # x
             /\ Frees(labels, m, "fd") <=> k # 1
             /\ MayShow(ladder, k) => Restores(labels, m)
             /\ Restores(labels, m) => leave = {}
  <2>1. ASSUME NEW j \in m..8, NEW x \in labels[j].frees \ Ids
        PROVE  Acquired(ladder, k, x) \/ (x = "bo1" /\ ladder[k].call = "fb0")
    BY <1>3, SMTT(90) DEF Gl2, Gl2Labels, Egl, EglContext, EglLabels, Try, At,
              Ids, Frames, Acquired, Noticed
  <2>2. ASSUME NEW j \in 1..(m - 1), NEW x \in labels[j].frees \ leave, NEW h \in 1..(k - 1)
        PROVE  ladder[h].call # x
    BY <1>3, SMTT(90) DEF Gl2, Gl2Labels, Egl, EglContext, EglLabels, Try, At
  <2>3. Frees(labels, m, "fd") <=> k # 1
    BY <1>1, <1>3, SMTT(60) DEF Gl2, Gl2Labels, Egl, EglContext, EglLabels, Try, At,
              Frees
  <2>4. MayShow(ladder, k) => Restores(labels, m)
    BY <1>1, <1>3, SMTT(60) DEF Gl2, Gl2Labels, Egl, EglContext, EglLabels, Try, At,
              MayShow, Restores
  <2>5. Restores(labels, m) => leave = {}
    BY <1>1, <1>3, SMTT(60) DEF Gl2, Gl2Labels, Egl, EglContext, EglLabels, Try, At,
              Restores
  <2> HIDE DEF ladder, labels, leave
  <2> QED BY <2>1, <2>2, <2>3, <2>4, <2>5
<1>4. \A k \in 2..17 : ladder[k].label \in {"-", "unseen"} \cup {labels[m].label : m \in 1..8}
  BY DEF Gl2, Gl2Labels, Egl, EglContext, EglLabels, Try, At
<1>5. \A j \in 1..8 : \A x \in labels[j].frees \ Ids : Acquired(ladder, 18, x)
  BY DEF Gl2, Gl2Labels, Egl, EglContext, EglLabels, Try, At, Ids, Frames, Acquired, Noticed
<1>6. Frees(labels, 1, "fd") /\ (MayShow(ladder, 18) => Restores(labels, 1))
  BY <1>1 DEF Gl2, Gl2Labels, Egl, EglContext, EglLabels, Try, At, Frees, MayShow, Restores
<1>7. \A m \in 1..8 : labels[m].label \in {"restore", "plane_off"} => labels[m].frees = {}
  BY DEF Gl2, Gl2Labels, Egl, EglContext, EglLabels, Try, At
<1> HIDE DEF ladder, labels, leave
<1>8. Targets(ladder, labels, leave) BY <1>1, <1>3 DEF Targets
<1>9. Leads(ladder, labels) /\ Whole(ladder, labels) /\ Bare(labels)
  BY <1>1, <1>4, <1>5, <1>6, <1>7 DEF Leads, Whole, Bare
<1>10. Fits(ladder, labels, leave) BY <1>2, <1>8, <1>9 DEF Fits
<1> QED BY <1>10 DEF ladder, labels, leave

LEMMA Gl3Fits == Fits(Gl3, Gl3Labels, {})
<1> DEFINE ladder == Gl3
           labels == Gl3Labels
           leave == {}
<1>1. /\ Len(ladder) = 14 /\ DOMAIN ladder = 1..14
      /\ Len(labels) = 9 /\ DOMAIN labels = 1..9
  BY DEF Gl3, Gl3Labels, Egl, EglContext, EglLabels, Try, At
<1>2. Shaped(ladder, labels, leave)
  <2>1. /\ ladder[1].call = "fd"
        /\ \A k \in 1..14 :
             ladder[k].call \in {"fd", "conf"} => ladder[k].label \notin {"-", "unseen"}
    BY DEF Gl3, Gl3Labels, Egl, EglContext, EglLabels, Try, At
  <2>2. \A m \in 1..9, j \in 1..9 :
          /\ m # j => labels[m].label # labels[j].label /\ labels[m].frees \cap labels[j].frees = {}
          /\ "bo0" \in labels[m].frees => "bo1" \in labels[m].frees
    BY DEF Gl3, Gl3Labels, Egl, EglContext, EglLabels, Try, At
  <2>3. \A k \in 1..14 : ladder[k].call = "fb0" =>
          /\ "bo0" \in leave /\ Acquired(ladder, k, "bo0")
          /\ \A m \in 1..(k - 1) : ladder[m].call \notin {"fb0", "bo1"}
    BY DEF Gl3, Gl3Labels, Egl, EglContext, EglLabels, Try, At, Acquired, Noticed
  <2>4. Len(ladder) \in Nat \ {0, 1} /\ Len(labels) \in Nat \ {0} BY <1>1
  <2> HIDE DEF ladder, labels, leave
  <2> QED BY <1>1, <2>1, <2>2, <2>3, <2>4 DEF Shaped
<1>3. ASSUME NEW k \in 1..14, NEW m \in 1..9, labels[m].label = ladder[k].label
      PROVE  /\ \A j \in m..9 : \A x \in labels[j].frees \ Ids :
                  Acquired(ladder, k, x) \/ (x = "bo1" /\ ladder[k].call = "fb0")
             /\ \A j \in 1..(m - 1) : \A x \in labels[j].frees \ leave :
                  \A h \in 1..(k - 1) : ladder[h].call # x
             /\ Frees(labels, m, "fd") <=> k # 1
             /\ MayShow(ladder, k) => Restores(labels, m)
             /\ Restores(labels, m) => leave = {}
  <2>1. ASSUME NEW j \in m..9, NEW x \in labels[j].frees \ Ids
        PROVE  Acquired(ladder, k, x) \/ (x = "bo1" /\ ladder[k].call = "fb0")
    BY <1>3, SMTT(90) DEF Gl3, Gl3Labels, Egl, EglContext, EglLabels, Try, At,
              Ids, Frames, Acquired, Noticed
  <2>2. ASSUME NEW j \in 1..(m - 1), NEW x \in labels[j].frees \ leave, NEW h \in 1..(k - 1)
        PROVE  ladder[h].call # x
    BY <1>3, SMTT(90) DEF Gl3, Gl3Labels, Egl, EglContext, EglLabels, Try, At
  <2>3. Frees(labels, m, "fd") <=> k # 1
    BY <1>1, <1>3, SMTT(60) DEF Gl3, Gl3Labels, Egl, EglContext, EglLabels, Try, At,
              Frees
  <2>4. MayShow(ladder, k) => Restores(labels, m)
    BY <1>1, <1>3, SMTT(60) DEF Gl3, Gl3Labels, Egl, EglContext, EglLabels, Try, At,
              MayShow, Restores
  <2>5. Restores(labels, m) => leave = {}
    BY <1>1, <1>3, SMTT(60) DEF Gl3, Gl3Labels, Egl, EglContext, EglLabels, Try, At,
              Restores
  <2> HIDE DEF ladder, labels, leave
  <2> QED BY <2>1, <2>2, <2>3, <2>4, <2>5
<1>4. \A k \in 2..14 : ladder[k].label \in {"-", "unseen"} \cup {labels[m].label : m \in 1..9}
  BY DEF Gl3, Gl3Labels, Egl, EglContext, EglLabels, Try, At
<1>5. \A j \in 1..9 : \A x \in labels[j].frees \ Ids : Acquired(ladder, 15, x)
  BY DEF Gl3, Gl3Labels, Egl, EglContext, EglLabels, Try, At, Ids, Frames, Acquired, Noticed
<1>6. Frees(labels, 1, "fd") /\ (MayShow(ladder, 15) => Restores(labels, 1))
  BY <1>1 DEF Gl3, Gl3Labels, Egl, EglContext, EglLabels, Try, At, Frees, MayShow, Restores
<1>7. \A m \in 1..9 : labels[m].label \in {"restore", "plane_off"} => labels[m].frees = {}
  BY DEF Gl3, Gl3Labels, Egl, EglContext, EglLabels, Try, At
<1> HIDE DEF ladder, labels, leave
<1>8. Targets(ladder, labels, leave) BY <1>1, <1>3 DEF Targets
<1>9. Leads(ladder, labels) /\ Whole(ladder, labels) /\ Bare(labels)
  BY <1>1, <1>4, <1>5, <1>6, <1>7 DEF Leads, Whole, Bare
<1>10. Fits(ladder, labels, leave) BY <1>2, <1>8, <1>9 DEF Fits
<1> QED BY <1>10 DEF ladder, labels, leave

\* Whichever program it is.
LEMMA LadderFits == prog \in Progs => Fits(Ladder, Labels, MayLeave)
<1>1. CASE prog = "drm_dumb_bo" BY <1>1, DumbBoFits DEF Ladder, Labels, MayLeave
<1>2. CASE prog = "drm_dumb_bo_libkms" BY <1>2, LibKmsFits DEF Ladder, Labels, MayLeave
<1>3. CASE prog = "drm_dumb_bo_mult" BY <1>3, MultFits DEF Ladder, Labels, MayLeave
<1>4. CASE prog = "drm_dumb_bo_plane" BY <1>4, PlaneFits DEF Ladder, Labels, MayLeave
<1>5. CASE prog = "drm_gl_test1a" BY <1>5, Gl1aFits DEF Ladder, Labels, MayLeave
<1>6. CASE prog = "drm_gl_test1b" BY <1>6, Gl1bFits DEF Ladder, Labels, MayLeave
<1>7. CASE prog = "drm_gl_test2" BY <1>7, Gl2Fits DEF Ladder, Labels, MayLeave
<1>8. CASE prog = "drm_gl_test3" BY <1>8, Gl3Fits DEF Ladder, Labels, MayLeave
<1> QED BY <1>1, <1>2, <1>3, <1>4, <1>5, <1>6, <1>7, <1>8 DEF Progs

\* The ladder stays as it is.
LEMMA SameLadder ==
  prog' = prog => /\ Ladder' = Ladder /\ Labels' = Labels /\ MayLeave' = MayLeave
                  /\ Calls' = Calls /\ Owned' = Owned /\ Pointers' = Pointers
BY DEF Ladder, Labels, MayLeave, Calls, Owned, Pointers, Frames

\* What holds before the k-th rung: what was acquired, and what is shown.
Climbed(k, own, shows, covers) ==
  /\ \A m \in 1..(k - 1) : Noticed(Ladder[m]) => Ladder[m].call \in own
  /\ \A x \in own : \E m \in 1..(k - 1) : Ladder[m].call = x
  /\ shows # "before" => MayShow(Ladder, k)
  /\ covers => k > 1

\* The image that drm_gl_test1b does not miss, although it is not there.
Missing(x, own) == x = "bo1" /\ "bo1" \notin own /\ "bo0" \in own /\ "fb0" \notin own
                     /\ prog = "drm_gl_test1b"

\* What holds before the m-th label: what is there for the labels to release, and
\* that nothing else is left than what may be.
Owing(m, own, shows, covers, end) ==
  /\ \A j \in m..Len(Labels) : \A x \in Labels[j].frees \ Ids : x \in own \/ Missing(x, own)
  /\ \A x \in own \cap Owned : Frees(Labels, m, x) \/ (end = "failed" /\ x \in MayLeave)
  /\ IF Frees(Labels, m, "fd") THEN "fd" \in own ELSE ~covers
  /\ end = "dark" \/ shows = "before" \/ ~valid \/ Restores(Labels, m)
  /\ end = "failed" /\ Restores(Labels, m) => MayLeave = {}

CleanInv ==
  /\ prog \in Progs /\ plane \in BOOLEAN /\ held \subseteq Calls
  /\ phase \in {"get", "conf", "frames", "undo", "done", "crash"}
  /\ screen \in {"before", "mine", "off"} /\ result \in {"none", "ok", "failed", "dark"}
  /\ n \in 1..(Len(Ladder) + Len(Labels))
  /\ phase \in {"get", "conf", "frames"} =>
       /\ n \in 1..Len(Ladder) /\ Climbed(n, held, screen, plane)
       /\ phase = "conf" => Ladder[n].call = "conf"
       /\ phase = "frames" => Ladder[n].call = "frames"
  /\ phase = "undo" => n \in 1..Len(Labels) /\ Owing(n, held, screen, plane, result)
  /\ phase = "done" => Owing(Len(Labels) + 1, held, screen, plane, result)
  /\ phase = "crash" => \/ prog = "drm_gl_test1b" /\ "fb0" \notin held /\ "bo0" \in held
                        \/ find = "found" /\ kms.crtc = NULL

\* What is known of the ladder and the labels, as the steps need it.
LEMMA LadderFacts ==
  ASSUME prog \in Progs
  PROVE  /\ Len(Ladder) \in Nat \ {0, 1} /\ DOMAIN Ladder = 1..Len(Ladder)
         /\ Len(Labels) \in Nat \ {0} /\ DOMAIN Labels = 1..Len(Labels)
         /\ Calls = {Ladder[k].call : k \in 1..Len(Ladder)}
         /\ \A x : x \in Owned <=> \E k \in 1..Len(Labels) : x \in Labels[k].frees
         /\ Ids \cap Pointers = {} /\ Owned \subseteq Pointers \cup Ids
<1>1. Shaped(Ladder, Labels, MayLeave) BY LadderFits DEF Fits
<1>2. /\ Len(Ladder) \in Nat \ {0, 1} /\ DOMAIN Ladder = 1..Len(Ladder)
      /\ Len(Labels) \in Nat \ {0} /\ DOMAIN Labels = 1..Len(Labels)
  BY <1>1 DEF Shaped
<1>3. Calls = {Ladder[k].call : k \in 1..Len(Ladder)} BY <1>2 DEF Calls
<1>4. Owned = UNION {Labels[k].frees : k \in 1..Len(Labels)} BY <1>2 DEF Owned
<1>5. Ids \cap Pointers = {} /\ Owned \subseteq Pointers \cup Ids BY DEF Pointers, Ids
<1> QED BY <1>2, <1>3, <1>4, <1>5

\* The first call was the one that opened the file, once there was a second.
LEMMA FileHeld ==
  ASSUME prog \in Progs, NEW k \in Nat, k > 1, NEW own, NEW shows, NEW covers,
         Climbed(k, own, shows, covers)
  PROVE  "fd" \in own
<1>1. Ladder[1].call = "fd" /\ Ladder[1].label # "unseen"
  BY LadderFits, LadderFacts DEF Fits, Shaped
<1>2. Noticed(Ladder[1]) BY <1>1 DEF Noticed
<1>3. 1 \in 1..(k - 1) OBVIOUS
<1> QED BY <1>1, <1>2, <1>3 DEF Climbed

\* The whole ladder has been climbed.
LEMMA SessionEnds ==
  ASSUME prog \in Progs, NEW own, NEW shows, NEW covers,
         Climbed(Len(Ladder) + 1, own, shows, covers)
  PROVE  Owing(1, own, shows, covers, "ok")
<1>1. Whole(Ladder, Labels) BY LadderFits DEF Fits
<1>2. Len(Ladder) \in Nat \ {0, 1} /\ Len(Labels) \in Nat \ {0}
      /\ \A x : x \in Owned <=> \E k \in 1..Len(Labels) : x \in Labels[k].frees
  BY LadderFacts
<1>3. \A j \in 1..Len(Labels) : \A x \in Labels[j].frees \ Ids : x \in own
  BY <1>1 DEF Whole, Acquired, Climbed
<1>4. \A x \in own \cap Owned : Frees(Labels, 1, x) BY <1>2 DEF Frees
<1>5. "fd" \in own BY <1>2, FileHeld
<1>6. Frees(Labels, 1, "fd") BY <1>1 DEF Whole
<1>7. shows = "before" \/ Restores(Labels, 1) BY <1>1 DEF Whole, Climbed
<1> QED BY <1>3, <1>4, <1>5, <1>6, <1>7 DEF Owing

\* A call has failed at rung k, and the program goes to label m.
LEMMA FailureEnds ==
  ASSUME prog \in Progs, NEW k \in 1..Len(Ladder), NEW m \in 1..Len(Labels),
         Labels[m].label = Ladder[k].label,
         NEW own, NEW shows, NEW covers, Climbed(k, own, shows, covers)
  PROVE  Owing(m, own, shows, covers, "failed")
<1>1. /\ \A j \in m..Len(Labels) : \A x \in Labels[j].frees \ Ids :
           Acquired(Ladder, k, x) \/ (x = "bo1" /\ Ladder[k].call = "fb0")
      /\ \A j \in 1..(m - 1) : \A x \in Labels[j].frees \ MayLeave :
           \A h \in 1..(k - 1) : Ladder[h].call # x
      /\ Frees(Labels, m, "fd") <=> k # 1
      /\ MayShow(Ladder, k) => Restores(Labels, m)
      /\ Restores(Labels, m) => MayLeave = {}
  BY LadderFits DEF Fits, Targets
<1>2. Len(Ladder) \in Nat \ {0, 1} /\ Len(Labels) \in Nat \ {0}
      /\ \A x : x \in Owned <=> \E j \in 1..Len(Labels) : x \in Labels[j].frees
  BY LadderFacts
<1>3. ASSUME NEW j \in m..Len(Labels), NEW x \in Labels[j].frees \ Ids
      PROVE  x \in own \/ Missing(x, own)
  <2>1. CASE Acquired(Ladder, k, x) BY <2>1 DEF Acquired, Climbed
  <2>2. CASE x = "bo1" /\ Ladder[k].call = "fb0"
    <3>1. /\ "bo0" \in MayLeave /\ Acquired(Ladder, k, "bo0")
          /\ \A h \in 1..(k - 1) : Ladder[h].call \notin {"fb0", "bo1"}
      BY <2>2, LadderFits DEF Fits, Shaped
    <3>2. "bo0" \in own BY <3>1 DEF Acquired, Climbed
    <3>3. "fb0" \notin own /\ "bo1" \notin own BY <3>1 DEF Climbed
    <3>4. prog = "drm_gl_test1b" BY <3>1 DEF MayLeave, Progs
    <3> QED BY <2>2, <3>2, <3>3, <3>4 DEF Missing
  <2> QED BY <1>1, <2>1, <2>2
<1>4. ASSUME NEW x \in own \cap Owned PROVE Frees(Labels, m, x) \/ x \in MayLeave
  <2>1. PICK j \in 1..Len(Labels) : x \in Labels[j].frees BY <1>2
  <2>2. PICK h \in 1..(k - 1) : Ladder[h].call = x BY DEF Climbed
  <2>3. j \in 1..(m - 1) => x \in MayLeave BY <1>1, <2>1, <2>2
  <2>4. j \in 1..(m - 1) \/ j \in m..Len(Labels) BY <1>2
  <2> QED BY <2>1, <2>3, <2>4 DEF Frees
<1>5. IF Frees(Labels, m, "fd") THEN "fd" \in own ELSE ~covers
  <2>1. CASE k = 1 BY <1>1, <2>1 DEF Climbed
  <2>2. CASE k > 1 BY <1>1, <2>2, FileHeld
  <2> QED BY <2>1, <2>2, <1>2
<1>6. shows = "before" \/ Restores(Labels, m) BY <1>1 DEF Climbed
<1> QED BY <1>1, <1>3, <1>4, <1>5, <1>6 DEF Owing

\* The file could not be opened, and there is no label to go to.
LEMMA NothingOpened ==
  ASSUME prog \in Progs, NEW own, NEW shows, NEW covers, Climbed(1, own, shows, covers),
         Ladder[1].call = "fd"
  PROVE  Owing(Len(Labels) + 1, own, shows, covers, "failed")
<1>1. Len(Labels) \in Nat /\ \A j : j \notin (Len(Labels) + 1)..Len(Labels)
  BY LadderFacts, SMT
<1>2. \A h : h \notin 1..(1 - 1) BY SMT
<1>3. own = {} BY <1>2 DEF Climbed
<1>4. ~covers BY DEF Climbed
<1>5. shows = "before"
  <2>1. ~MayShow(Ladder, 1)
    BY LadderFacts DEF MayShow
  <2> QED BY <2>1 DEF Climbed
<1> QED BY <1>1, <1>3, <1>4, <1>5 DEF Owing, Frees, Restores

\* The next rung, or the labels after a whole session.
LEMMA NextRungClean ==
  ASSUME CleanInv, phase \in {"get", "conf", "frames"}, NextRung, prog' = prog, valid' = valid,
         Climbed(n + 1, held', screen', plane'), held' \subseteq Calls, plane' \in BOOLEAN,
         screen' \in {"before", "mine", "off"}
  PROVE  CleanInv'
<1>1. /\ prog \in Progs /\ n \in 1..Len(Ladder) /\ Len(Ladder) \in Nat /\ Len(Labels) \in Nat \ {0}
      /\ result \in {"none", "ok", "failed", "dark"}
      /\ Ladder' = Ladder /\ Labels' = Labels /\ MayLeave' = MayLeave /\ Calls' = Calls
      /\ Owned' = Owned
  BY LadderFacts, SameLadder DEF CleanInv
<1>2. CASE n < Len(Ladder)
  <2>1. phase' = "get" /\ n' = n + 1 /\ result' = result BY <1>2 DEF NextRung
  <2>2. n' \in 1..Len(Ladder)' /\ n' \in 1..(Len(Ladder) + Len(Labels))' BY <1>1, <1>2, <2>1
  <2>3. Climbed(n, held, screen, plane)' BY <2>1, <1>1 DEF Climbed
  <2> QED BY <1>1, <2>1, <2>2, <2>3 DEF CleanInv
<1>3. CASE ~(n < Len(Ladder))
  <2>1. phase' = "undo" /\ n' = 1 /\ result' = "ok" BY <1>3 DEF NextRung
  <2>2. n = Len(Ladder) BY <1>1, <1>3
  <2>3. Owing(1, held', screen', plane', "ok") BY <1>1, <2>2, SessionEnds
  <2>4. Owing(n, held, screen, plane, result)' BY <1>1, <2>1, <2>3 DEF Owing, Missing
  <2>5. n' \in 1..Len(Labels)' /\ n' \in 1..(Len(Ladder) + Len(Labels))' BY <1>1, <2>1
  <2> QED BY <1>1, <2>1, <2>4, <2>5 DEF CleanInv
<1> QED BY <1>2, <1>3

\* A call that has failed is noticed: to its label, or to the end.
LEMMA FailedClean ==
  ASSUME CleanInv, phase \in {"get", "conf"}, Failed, Ladder[n].label \notin {"-", "unseen"},
         UNCHANGED <<prog, valid, held, screen, plane>>
  PROVE  CleanInv'
<1>1. /\ prog \in Progs /\ n \in 1..Len(Ladder) /\ Len(Ladder) \in Nat /\ Len(Labels) \in Nat \ {0}
      /\ Climbed(n, held, screen, plane)
      /\ Ladder' = Ladder /\ Labels' = Labels /\ MayLeave' = MayLeave /\ Calls' = Calls
      /\ Owned' = Owned /\ DOMAIN Labels = 1..Len(Labels)
      /\ held \subseteq Calls /\ plane \in BOOLEAN /\ screen \in {"before", "mine", "off"}
  BY LadderFacts, SameLadder DEF CleanInv
<1>2. CASE \E k \in DOMAIN Labels : Labels[k].label = Ladder[n].label
  <2> DEFINE m == CHOOSE k \in DOMAIN Labels : Labels[k].label = Ladder[n].label
  <2>1. m \in 1..Len(Labels) /\ Labels[m].label = Ladder[n].label BY <1>1, <1>2
  <2>2. phase' = "undo" /\ n' = m /\ result' = "failed" BY <1>2 DEF Failed, GoTo
  <2> HIDE DEF m
  <2>3. Owing(m, held, screen, plane, "failed") BY <1>1, <2>1, FailureEnds
  <2>4. Owing(n, held, screen, plane, result)' BY <1>1, <2>2, <2>3 DEF Owing, Missing
  <2>5. n' \in 1..Len(Labels)' /\ n' \in 1..(Len(Ladder) + Len(Labels))' BY <1>1, <2>1, <2>2
  <2> QED BY <1>1, <2>2, <2>4, <2>5 DEF CleanInv
<1>3. CASE ~\E k \in DOMAIN Labels : Labels[k].label = Ladder[n].label
  <2>1. phase' = "done" /\ n' = n /\ result' = "failed" BY <1>3 DEF Failed, GoTo
  <2>2. Leads(Ladder, Labels) /\ Ladder[1].call = "fd" BY <1>1, LadderFits DEF Fits, Shaped
  <2>3. n = 1
    <3>1. n \in 2..Len(Ladder) => \E k \in 1..Len(Labels) : Labels[k].label = Ladder[n].label
      BY <2>2 DEF Leads
    <3>2. n = 1 \/ n \in 2..Len(Ladder) BY <1>1
    <3> QED BY <1>1, <1>3, <3>1, <3>2
  <2>4. Owing(Len(Labels) + 1, held, screen, plane, "failed") BY <1>1, <2>2, <2>3, NothingOpened
  <2>5. Owing(Len(Labels) + 1, held, screen, plane, result)'
    BY <1>1, <2>1, <2>4 DEF Owing, Missing
  <2>6. n' \in 1..(Len(Ladder) + Len(Labels))' BY <1>1, <2>1
  <2> QED BY <1>1, <2>1, <2>5, <2>6 DEF CleanInv
<1> QED BY <1>2, <1>3

LEMMA SucceedClean == CleanInv /\ Succeed => CleanInv'
<1> SUFFICES ASSUME CleanInv, Succeed PROVE CleanInv'
  OBVIOUS
<1>1. /\ prog \in Progs /\ phase = "get" /\ n \in 1..Len(Ladder) /\ Len(Ladder) \in Nat
      /\ Climbed(n, held, screen, plane) /\ held \subseteq Calls /\ plane \in BOOLEAN
      /\ screen \in {"before", "mine", "off"}
      /\ held' = held \cup {Ladder[n].call} /\ NextRung /\ prog' = prog /\ valid' = valid
      /\ screen' = (IF Ladder[n].call = "crtc" THEN "mine" ELSE screen)
      /\ plane' = (plane \/ Ladder[n].call = "plane")
  BY LadderFacts DEF CleanInv, Succeed, Call
<1>2. Ladder[n].call \in Calls BY <1>1, LadderFacts
<1> DEFINE k == n + 1
<1>3. k = n + 1 OBVIOUS
<1> HIDE DEF k
<1>4. k \in Nat /\ k > 1 /\ \A m : m \in 1..(k - 1) <=> m \in 1..(n - 1) \/ m = n BY <1>1, <1>3
<1>5. (MayShow(Ladder, n) \/ Ladder[n].call = "crtc") => MayShow(Ladder, k)
  BY <1>1, <1>3 DEF MayShow
<1>6. Climbed(k, held', screen', plane')
  <2>1. \A m \in 1..(k - 1) : Noticed(Ladder[m]) => Ladder[m].call \in held'
    BY <1>1, <1>4 DEF Climbed
  <2>2. \A x \in held' : \E m \in 1..(k - 1) : Ladder[m].call = x
    BY <1>1, <1>4 DEF Climbed
  <2>3. screen' # "before" => MayShow(Ladder, k) BY <1>1, <1>5 DEF Climbed
  <2> QED BY <1>4, <2>1, <2>2, <2>3, Zenon DEF Climbed
<1>7. held' \subseteq Calls /\ plane' \in BOOLEAN /\ screen' \in {"before", "mine", "off"}
  BY <1>1, <1>2
<1> QED BY <1>1, <1>3, <1>6, <1>7, NextRungClean

\* Past a rung that leaves everything as it is.
LEMMA ClimbedOn ==
  ASSUME CleanInv, phase \in {"get", "conf", "frames"}, ~Noticed(Ladder[n]),
         phase = "frames" \/ screen' = screen, held' = held, plane' = plane,
         screen' # "before" => MayShow(Ladder, n)
  PROVE  Climbed(n + 1, held', screen', plane')
<1>1. n \in 1..Len(Ladder) /\ Climbed(n, held, screen, plane) /\ Len(Ladder) \in Nat
  BY LadderFacts DEF CleanInv
<1>2. \A m : m \in 1..(n + 1 - 1) <=> m \in 1..(n - 1) \/ m = n BY <1>1
<1>3. MayShow(Ladder, n) => MayShow(Ladder, n + 1) BY <1>1 DEF MayShow
<1>4. n + 1 > 1 BY <1>1
<1> QED BY <1>1, <1>2, <1>3, <1>4 DEF Climbed

LEMMA CallFailsClean == CleanInv /\ CallFails => CleanInv'
<1> SUFFICES ASSUME CleanInv, CallFails PROVE CleanInv'
  OBVIOUS
<1>1. /\ phase = "get" /\ prog' = prog /\ valid' = valid /\ UNCHANGED <<held, screen, plane>>
      /\ Ladder[n].label # "-"
      /\ IF Ladder[n].label = "unseen" THEN NextRung ELSE Failed
  BY DEF CallFails
<1>2. CASE Ladder[n].label = "unseen"
  <2>1. ~Noticed(Ladder[n]) BY <1>2 DEF Noticed
  <2>2. screen' # "before" => MayShow(Ladder, n) BY <1>1 DEF CleanInv, Climbed
  <2>3. Climbed(n + 1, held', screen', plane') BY <1>1, <2>1, <2>2, ClimbedOn
  <2>4. held' \subseteq Calls /\ plane' \in BOOLEAN /\ screen' \in {"before", "mine", "off"}
    BY <1>1 DEF CleanInv
  <2> QED BY <1>1, <1>2, <2>3, <2>4, NextRungClean
<1>3. CASE Ladder[n].label # "unseen"
  BY <1>1, <1>3, FailedClean
<1> QED BY <1>2, <1>3

LEMMA ConfiguredClean == CleanInv /\ Configured => CleanInv'
<1> SUFFICES ASSUME CleanInv, Configured PROVE CleanInv'
  OBVIOUS
<1>1. /\ phase = "conf" /\ prog' = prog /\ valid' = valid /\ UNCHANGED <<held, screen, plane>>
      /\ find' = find /\ kms' = kms
  BY DEF Configured, confVars
<1>2. Ladder[n].call = "conf" /\ n \in 1..Len(Ladder) /\ prog \in Progs BY <1>1 DEF CleanInv
<1>3. CASE NextRung
  <2>1. ~Noticed(Ladder[n]) BY <1>2 DEF Noticed
  <2>2. screen' # "before" => MayShow(Ladder, n) BY <1>1 DEF CleanInv, Climbed
  <2>3. Climbed(n + 1, held', screen', plane') BY <1>1, <2>1, <2>2, ClimbedOn
  <2>4. held' \subseteq Calls /\ plane' \in BOOLEAN /\ screen' \in {"before", "mine", "off"}
    BY <1>1 DEF CleanInv
  <2> QED BY <1>1, <1>3, <2>3, <2>4, NextRungClean
<1>4. CASE Failed
  <2>1. Shaped(Ladder, Labels, MayLeave) BY <1>2, LadderFits DEF Fits
  <2>2. Ladder[n].label \notin {"-", "unseen"} BY <1>2, <2>1 DEF Shaped
  <2> QED BY <1>1, <1>4, <2>2, FailedClean
<1>5. CASE find = "found" /\ kms.crtc = NULL /\ phase' = "crash" /\ UNCHANGED <<n, result>>
  BY <1>1, <1>5, SameLadder DEF CleanInv
<1> QED BY <1>3, <1>4, <1>5 DEF Configured

\* What does not move on the ladder and leaves everything as it is.
LEMMA ClimbingStays ==
  ASSUME CleanInv, phase \in {"get", "conf", "frames"},
         UNCHANGED <<prog, valid, n, held, plane, result>>,
         screen' \in {"before", "mine", "off"}, screen' # "before" => MayShow(Ladder, n),
         \/ phase' = phase
         \/ phase' \in {"conf", "frames"} /\ Ladder[n].call = phase'
  PROVE  CleanInv'
<1>1. Climbed(n, held, screen, plane)'
  BY SameLadder DEF CleanInv, Climbed
<1>2. n \in 1..Len(Ladder) BY DEF CleanInv
<1>3. phase' \in {"get", "conf", "frames"} /\ (phase' = "conf" => Ladder'[n'].call = "conf")
      /\ (phase' = "frames" => Ladder'[n'].call = "frames")
  BY SameLadder DEF CleanInv
<1> QED BY <1>1, <1>2, <1>3, SameLadder DEF CleanInv

\* Nothing on the ladder changes.
LEMMA LadderStays ==
  ASSUME CleanInv, UNCHANGED <<prog, valid, ladderVars>>, phase = "crash" => UNCHANGED <<find, kms>>
  PROVE  CleanInv'
<1>1. UNCHANGED <<prog, valid, phase, n, held, screen, plane, result>> BY DEF ladderVars
<1>2. Ladder' = Ladder /\ Labels' = Labels /\ MayLeave' = MayLeave /\ Calls' = Calls
      /\ Owned' = Owned
  BY <1>1, SameLadder
<1>3. Climbed(n, held, screen, plane)' = Climbed(n, held, screen, plane)
  BY <1>1, <1>2 DEF Climbed
<1>4. Owing(n, held, screen, plane, result)' = Owing(n, held, screen, plane, result)
  BY <1>1, <1>2 DEF Owing, Missing
<1>5. Owing(Len(Labels) + 1, held, screen, plane, result)'
        = Owing(Len(Labels) + 1, held, screen, plane, result)
  BY <1>1, <1>2 DEF Owing, Missing
<1>6. phase = "crash" => UNCHANGED <<find, kms>> OBVIOUS
<1> QED BY <1>1, <1>2, <1>3, <1>4, <1>5, <1>6 DEF CleanInv

LEMMA FramesClean == CleanInv /\ (Configure \/ FramesBegin \/ FramesGoOn \/ FramesEnd) => CleanInv'
<1> SUFFICES ASSUME CleanInv, Configure \/ FramesBegin \/ FramesGoOn \/ FramesEnd PROVE CleanInv'
  OBVIOUS
<1>1. phase \in {"get", "conf", "frames"} /\ screen # "before" => MayShow(Ladder, n)
  BY DEF CleanInv, Climbed
<1>2. CASE Configure
  BY <1>1, <1>2, ClimbingStays DEF Configure, Climbing, Call, CleanInv
<1>3. CASE FramesBegin
  BY <1>1, <1>3, ClimbingStays DEF FramesBegin, Climbing, Call, CleanInv
<1>4. CASE FramesGoOn
  <2>1. n \in 1..Len(Ladder) /\ Ladder[n].call = "frames" BY <1>4 DEF FramesGoOn, CleanInv
  <2>2. MayShow(Ladder, n) BY <2>1, LadderFacts DEF MayShow, CleanInv
  <2>3. screen' \in {"before", "mine", "off"} BY <1>4 DEF FramesGoOn, CleanInv
  <2> QED BY <1>4, <2>2, <2>3, ClimbingStays DEF FramesGoOn
<1>5. CASE FramesEnd
  <2>1. /\ phase = "frames" /\ NextRung /\ prog' = prog /\ valid' = valid
        /\ UNCHANGED <<held, screen, plane>>
    BY <1>5 DEF FramesEnd
  <2>2. ~Noticed(Ladder[n]) BY <2>1 DEF Noticed, CleanInv
  <2>3. Climbed(n + 1, held', screen', plane') BY <1>1, <2>1, <2>2, ClimbedOn
  <2>4. held' \subseteq Calls /\ plane' \in BOOLEAN /\ screen' \in {"before", "mine", "off"}
    BY <2>1 DEF CleanInv
  <2> QED BY <2>1, <2>3, <2>4, NextRungClean
<1> QED BY <1>2, <1>3, <1>4, <1>5

\* The next label, or the end.
LEMMA Descended ==
  ASSUME CleanInv, phase = "undo", UNCHANGED <<prog, valid>>, Descend, held' \subseteq held,
         Owing(n + 1, held', screen', plane', result'), plane' \in BOOLEAN,
         screen' \in {"before", "mine", "off"}, result' \in {"none", "ok", "failed", "dark"}
  PROVE  CleanInv'
<1>1. /\ prog \in Progs /\ n \in 1..Len(Labels) /\ Len(Labels) \in Nat /\ Len(Ladder) \in Nat
      /\ Ladder' = Ladder /\ Labels' = Labels /\ MayLeave' = MayLeave /\ Calls' = Calls
      /\ Owned' = Owned /\ held' \subseteq Calls' /\ prog' = prog
  BY LadderFacts, SameLadder DEF CleanInv
<1>2. CASE n < Len(Labels)
  <2>1. n' = n + 1 /\ phase' = "undo" BY <1>2 DEF Descend
  <2>2. n' \in 1..Len(Labels)' /\ n' \in 1..(Len(Ladder) + Len(Labels))' BY <1>1, <1>2, <2>1
  <2>3. Owing(n, held, screen, plane, result)' BY <1>1, <2>1 DEF Owing, Missing
  <2> QED BY <1>1, <2>1, <2>2, <2>3 DEF CleanInv
<1>3. CASE ~(n < Len(Labels))
  <2>1. n' = n /\ phase' = "done" BY <1>3 DEF Descend
  <2>2. n + 1 = Len(Labels) + 1 BY <1>1, <1>3
  <2>3. Owing(Len(Labels) + 1, held, screen, plane, result)' BY <1>1, <2>2 DEF Owing, Missing
  <2>4. n' \in 1..(Len(Ladder) + Len(Labels))' BY <1>1, <2>1
  <2> QED BY <1>1, <2>1, <2>3, <2>4 DEF CleanInv
<1> QED BY <1>2, <1>3

\* What is released at a label was to be released, and is not released again.
LEMMA UndoClean == CleanInv /\ Undo => CleanInv'
<1> SUFFICES ASSUME CleanInv, Undo PROVE CleanInv'
  OBVIOUS
<1> DEFINE frees == Labels[n].frees
           count == Len(Labels)
<1>1. /\ prog \in Progs /\ phase = "undo" /\ n \in 1..count /\ count \in Nat
      /\ Owing(n, held, screen, plane, result) /\ Labels[n].label \notin {"restore", "plane_off"}
      /\ prog' = prog /\ valid' = valid /\ result' = result /\ held \subseteq Calls
      /\ Ladder' = Ladder /\ Labels' = Labels /\ MayLeave' = MayLeave /\ Calls' = Calls
      /\ Owned' = Owned /\ Len(Ladder) \in Nat
      /\ \A x : x \in Owned <=> \E k \in 1..count : x \in Labels[k].frees
  BY LadderFacts, SameLadder DEF CleanInv, Undo
<1>2. CASE ~(frees \cap Pointers \subseteq held)
  <2>1. PICK x \in frees \cap Pointers : x \notin held BY <1>2
  <2>2. x \notin Ids BY LadderFacts, <1>1
  <2>3. Missing(x, held) BY <1>1, <2>1, <2>2 DEF Owing
  <2>4. phase' = "crash" /\ UNCHANGED <<n, held, screen, plane>> BY <1>2 DEF Undo
  <2>5. n' \in 1..(Len(Ladder) + Len(Labels))' /\ screen \in {"before", "mine", "off"}
        /\ plane \in BOOLEAN /\ result \in {"none", "ok", "failed", "dark"}
    BY <1>1, <2>4 DEF CleanInv
  <2> QED BY <1>1, <2>3, <2>4, <2>5 DEF CleanInv, Missing
<1>3. CASE frees \cap Pointers \subseteq held
  <2>1. held' = held \ frees /\ Shows(frees \cap held) /\ Descend BY <1>3 DEF Undo
  <2>2. screen' \in {"before", "mine", "off"} /\ (screen = "before" => screen' = "before")
    BY <2>1 DEF Shows, CleanInv
  <2>3. plane' \in BOOLEAN /\ (plane' => plane /\ "fd" \notin frees \cap held)
    BY <2>1 DEF Shows, CleanInv
  <2>4. Shaped(Ladder, Labels, MayLeave) BY <1>1, LadderFits DEF Fits
  <2>5. \A j \in 1..count : j # n => Labels[j].frees \cap frees = {}
    BY <1>1, <2>4 DEF Shaped
  <2>6. "bo0" \in frees => "bo1" \in frees BY <1>1, <2>4 DEF Shaped
  <2> DEFINE after == n + 1
  <2>7. /\ after = n + 1 /\ after \in Nat /\ \A j : j \in n..count <=> j = n \/ j \in after..count
        /\ \A j \in after..count : j \in 1..count /\ j # n
    BY <1>1
  <2> HIDE DEF frees, count, after
  <2>8. Owing(after, held', screen', plane', result)
    <3>1. ASSUME NEW j \in after..count, NEW x \in Labels[j].frees \ Ids
          PROVE  x \in held' \/ Missing(x, held')
      <4>1. x \in held \/ Missing(x, held) BY <1>1, <2>7 DEF Owing, count
      <4>2. x \notin frees BY <2>5, <2>7
      <4> QED BY <2>1, <2>6, <4>1, <4>2 DEF Missing
    <3>2. ASSUME NEW x \in held' \cap Owned
          PROVE  Frees(Labels, after, x) \/ (result = "failed" /\ x \in MayLeave)
      <4>1. x \in held \cap Owned /\ x \notin frees BY <2>1
      <4>2. Frees(Labels, n, x) \/ (result = "failed" /\ x \in MayLeave) BY <1>1, <4>1 DEF Owing
      <4>3. Frees(Labels, n, x) => Frees(Labels, after, x)
        BY <2>7, <4>1 DEF Frees, frees, count
      <4> QED BY <4>2, <4>3
    <3>3. IF Frees(Labels, after, "fd") THEN "fd" \in held' ELSE ~plane'
      <4>1. CASE Frees(Labels, after, "fd")
        <5>1. PICK j \in after..count : "fd" \in Labels[j].frees BY <4>1 DEF Frees, count
        <5>2. "fd" \notin frees BY <2>5, <2>7, <5>1
        <5>3. "fd" \in held BY <1>1, <2>7, <5>1 DEF Owing, Frees, count
        <5> QED BY <2>1, <4>1, <5>2, <5>3
      <4>2. CASE ~Frees(Labels, after, "fd") /\ "fd" \in frees
        <5>1. "fd" \in held BY <1>1, <2>7, <4>2 DEF Owing, Frees, frees, count
        <5> QED BY <2>3, <4>2, <5>1
      <4>3. CASE ~Frees(Labels, after, "fd") /\ "fd" \notin frees
        <5>1. ~Frees(Labels, n, "fd") BY <2>7, <4>3 DEF Frees, frees, count
        <5> QED BY <1>1, <2>3, <4>3, <5>1 DEF Owing
      <4> QED BY <4>1, <4>2, <4>3
    <3>4. Restores(Labels, after) <=> Restores(Labels, n)
      BY <1>1, <2>7 DEF Restores, count
    <3> QED BY <1>1, <2>2, <3>1, <3>2, <3>3, <3>4 DEF Owing, count
  <2>9. held' \subseteq held /\ result' \in {"none", "ok", "failed", "dark"}
    BY <1>1, <2>1 DEF CleanInv
  <2>10. Owing(n + 1, held', screen', plane', result') BY <1>1, <2>8 DEF after
  <2> QED BY <1>1, <2>1, <2>2, <2>3, <2>9, <2>10, Descended
<1> QED BY <1>2, <1>3

\* At the labels that release nothing: to restore the CRTC, or to switch the plane off.
LEMMA ShownAgain == CleanInv /\ (RestoreCrtc \/ PlaneOff) => CleanInv'
<1> SUFFICES ASSUME CleanInv, RestoreCrtc \/ PlaneOff PROVE CleanInv'
  OBVIOUS
<1> DEFINE count == Len(Labels)
<1>1. /\ prog \in Progs /\ phase = "undo" /\ n \in 1..count /\ count \in Nat
      /\ Owing(n, held, screen, plane, result) /\ UNCHANGED <<prog, valid, held>> /\ Descend
      /\ Labels[n].label \in {"restore", "plane_off"}
  BY LadderFacts DEF CleanInv, RestoreCrtc, PlaneOff
<1>2. Bare(Labels) BY <1>1, LadderFits DEF Fits
<1>3. Labels[n].frees = {} BY <1>1, <1>2 DEF Bare
<1> DEFINE after == n + 1
<1>4. /\ after = n + 1 /\ \A j : j \in n..count <=> j = n \/ j \in after..count
  BY <1>1
<1> HIDE DEF count, after
<1>5. \A x : Frees(Labels, n, x) <=> Frees(Labels, after, x) BY <1>3, <1>4 DEF Frees, count
<1>6. Restores(Labels, after) => Restores(Labels, n) BY <1>4 DEF Restores, count
<1>7. /\ plane' \in BOOLEAN /\ (plane' => plane)
      /\ screen' \in {"before", "mine", "off"} /\ result' \in {"none", "ok", "failed", "dark"}
      /\ result' \in {result, "dark"}
  <2>1. plane \in BOOLEAN /\ screen \in {"before", "mine", "off"}
        /\ result \in {"none", "ok", "failed", "dark"}
    BY DEF CleanInv
  <2>2. CASE RestoreCrtc BY <2>1, <2>2 DEF RestoreCrtc, Restore
  <2>3. CASE PlaneOff
    <3>1. plane' \in {plane, FALSE} /\ UNCHANGED <<screen, result>> BY <2>3 DEF PlaneOff
    <3>2. plane' = plane \/ plane' = FALSE BY <3>1
    <3>3. plane' \in BOOLEAN /\ (plane' => plane)
      <4>1. CASE plane' = plane BY <2>1, <4>1
      <4>2. CASE plane' = FALSE BY <4>2
      <4> QED BY <3>2, <4>1, <4>2
    <3> QED BY <2>1, <3>1, <3>3
  <2> QED BY <2>2, <2>3
<1>8. result' = "dark" \/ screen' = "before" \/ ~valid \/ Restores(Labels, after)
  <2>1. CASE RestoreCrtc BY <2>1 DEF RestoreCrtc, Restore
  <2>2. CASE PlaneOff
    <3>1. Labels[n].label # "restore" /\ UNCHANGED <<screen, result>> BY <2>2 DEF PlaneOff
    <3>2. Restores(Labels, n) => Restores(Labels, after) BY <1>4, <3>1 DEF Restores, count
    <3> QED BY <1>1, <3>1, <3>2 DEF Owing
  <2> QED BY <2>1, <2>2
<1>9. result' # result => Restores(Labels, n)
  <2>1. result' # result => Labels[n].label = "restore" BY DEF RestoreCrtc, PlaneOff
  <2> QED BY <1>4, <2>1 DEF Restores, count
<1>10. Owing(after, held', screen', plane', result')
  <2>1. \A j \in after..count : \A x \in Labels[j].frees \ Ids : x \in held \/ Missing(x, held)
    BY <1>1, <1>4 DEF Owing, count
  <2>2. ASSUME NEW x \in held \cap Owned
        PROVE  Frees(Labels, after, x) \/ (result' = "failed" /\ x \in MayLeave)
    <3>1. Frees(Labels, n, x) \/ (result = "failed" /\ x \in MayLeave) BY <1>1 DEF Owing
    <3>2. result = "failed" /\ x \in MayLeave => result' = result
      BY <1>1, <1>9 DEF Owing
    <3> QED BY <1>5, <3>1, <3>2
  <2>3. IF Frees(Labels, after, "fd") THEN "fd" \in held ELSE ~plane'
    BY <1>1, <1>5, <1>7 DEF Owing
  <2>4. result' = "failed" /\ Restores(Labels, after) => MayLeave = {}
    BY <1>1, <1>6, <1>7 DEF Owing
  <2> QED BY <1>1, <1>8, <2>1, <2>2, <2>3, <2>4 DEF Owing, count
<1>11. Owing(n + 1, held', screen', plane', result') /\ held' \subseteq held BY <1>1, <1>4, <1>10
<1> QED BY <1>1, <1>7, <1>11, Descended

LEMMA CleanInvInit == Init => CleanInv
<1> SUFFICES ASSUME Init PROVE CleanInv
  OBVIOUS
<1>1. prog \in Progs BY SetupsAssumption DEF Init
<1>2. 1 \in 1..Len(Ladder) /\ 1 \in 1..(Len(Ladder) + Len(Labels)) BY <1>1, LadderFacts
<1>3. \A m : m \notin 1..(1 - 1) BY SMT
<1>4. Climbed(1, {}, "before", FALSE) BY <1>3 DEF Climbed
<1> QED BY <1>1, <1>2, <1>4 DEF Init, CleanInv

LEMMA CleanInvNext == CleanInv /\ [Next]_vars => CleanInv'
<1> SUFFICES ASSUME CleanInv, [Next]_vars PROVE CleanInv'
  OBVIOUS
<1>1. CASE Succeed BY <1>1, SucceedClean
<1>2. CASE CallFails BY <1>2, CallFailsClean
<1>3. CASE Configured BY <1>3, ConfiguredClean
<1>4. CASE Configure \/ FramesBegin \/ FramesGoOn \/ FramesEnd BY <1>4, FramesClean
<1>5. CASE LookUp BY <1>5, LadderStays DEF LookUp
<1>6. CASE Blank \/ UNCHANGED vars BY <1>6, LadderStays DEF Blank, vars, confVars
<1>7. CASE Undo BY <1>7, UndoClean
<1>8. CASE RestoreCrtc \/ PlaneOff BY <1>8, ShownAgain
<1> QED BY <1>1, <1>2, <1>3, <1>4, <1>5, <1>6, <1>7, <1>8 DEF Next

\* At every end the promises are kept.
LEMMA CleanAtEnd ==
  CleanInv => /\ phase = "crash" =>
                   \/ prog = "drm_gl_test1b" /\ "fb0" \notin held /\ "bo0" \in held
                   \/ find = "found" /\ kms.crtc = NULL
              /\ phase = "done" =>
                   /\ held \cap Owned \subseteq IF result = "failed" THEN MayLeave ELSE {}
                   /\ ~plane /\ (result = "dark" \/ screen = "before" \/ ~valid)
<1> SUFFICES ASSUME CleanInv, phase = "done"
             PROVE  /\ held \cap Owned \subseteq IF result = "failed" THEN MayLeave ELSE {}
                    /\ ~plane /\ (result = "dark" \/ screen = "before" \/ ~valid)
  BY DEF CleanInv
<1>1. Owing(Len(Labels) + 1, held, screen, plane, result) /\ Len(Labels) \in Nat
  BY LadderFacts DEF CleanInv
<1>2. \A j : j \notin (Len(Labels) + 1)..Len(Labels) BY <1>1
<1>3. /\ \A x : ~Frees(Labels, Len(Labels) + 1, x)
      /\ ~Restores(Labels, Len(Labels) + 1)
  BY <1>2, Zenon DEF Frees, Restores
<1> QED BY <1>1, <1>3 DEF Owing

\* The types of the frame loop and of the searches.
FlipTypeInv ==
  /\ stage \in {"idle", "select", "swap", "setcrtc", "flip", "over"}
  /\ frame \in 0..FRAMES /\ queued \in Buffers \cup {None}
  /\ stage \in {"swap", "setcrtc", "flip"} => frame < FRAMES

LEMMA FlipTypeInvNext == FlipInv /\ FlipTypeInv /\ [Next]_vars => FlipTypeInv'
<1> SUFFICES ASSUME FlipInv, FlipTypeInv, [Next]_vars PROVE FlipTypeInv'
  OBVIOUS
<1> USE FlipAssumption
<1>1. CASE FramesBegin
  <2>1. stage' = "select" /\ UNCHANGED <<frame, queued>> BY <1>1 DEF FramesBegin
  <2> QED BY <2>1 DEF FlipTypeInv
<1>2. CASE Select BY <1>2 DEF FlipTypeInv, Select, Break
<1>3. CASE Swap BY <1>3 DEF FlipTypeInv, Swap, Break
<1>4. CASE SetFirst \/ HasCurrent BY <1>4 DEF FlipTypeInv, SetFirst, HasCurrent, Break
<1>5. CASE PageFlip BY <1>5 DEF FlipTypeInv, PageFlip, Break, FlipInv, OwnTypeOK
<1>6. CASE Blank BY <1>6 DEF Blank, VBlank, FlipTypeInv
<1>7. CASE UNCHANGED flipVars BY <1>7 DEF flipVars, FlipTypeInv
<1>8. CASE \/ Succeed \/ CallFails \/ Configure \/ LookUp \/ Configured
           \/ FramesEnd \/ Undo \/ RestoreCrtc \/ PlaneOff \/ UNCHANGED vars
  <2>1. UNCHANGED flipVars
    BY <1>8 DEF Succeed, CallFails, Configure, LookUp, Configured, FramesEnd, Undo,
               RestoreCrtc, PlaneOff, vars
  <2> QED BY <1>7, <2>1
<1> QED BY <1>1, <1>2, <1>3, <1>4, <1>5, <1>6, <1>8 DEF Next, FramesGoOn, FlipStep

\* From whatever call one of the eight programs of drm-tests goes to a label, nothing
\* is freed that was not acquired, all is released but what is known to be left, and
\* the screen is as before: for every command line and device, whichever calls fail.
THEOREM LaddersCleanUp == Spec => []CleanupSafe
<1>1. Init => FlipTypeInv
  BY FlipAssumption DEF Init, FlipInit, FlipTypeInv
<1>2. ConfInv /\ FlipInv /\ FlipTypeInv /\ CleanInv => CleanupSafe
  <2> SUFFICES ASSUME ConfInv, FlipInv, FlipTypeInv, CleanInv PROVE CleanupSafe
    OBVIOUS
  <2>1. ConfTypeOK BY DEF ConfTypeOK, ConfInv
  <2>2. FlipTypeOK
    <3>1. events \in 0..2 BY DEF FlipInv, EventInv, Unread
    <3>2. locked \subseteq Buffers BY DEF FlipInv, OwnTypeOK, FlipOwnership
    <3> QED BY <3>1, <3>2 DEF FlipTypeOK, FlipTypeInv, FlipInv, OwnTypeOK
  <2>3. TypeOK BY <2>1, <2>2 DEF TypeOK, CleanInv
  <2> QED BY <2>3, CleanAtEnd DEF CleanupSafe
<1>3. Init => FlipInv BY FlipInit_Inv DEF Init
<1> QED BY <1>1, <1>2, <1>3, Init_ConfInv, ConfInvNext, FlipInvNext, FlipTypeInvNext,
       CleanInvInit, CleanInvNext, PTL DEF Spec

-----------------------------------------------------------------------------
(* gst-drm: the elements, for every number of sessions and of calls that     *)
(* fail                                                                      *)

\* Which buffers exist, and the other types.
SinkTypeInv ==
  /\ kind \in {"crtc", "plane"} /\ before \in {Console, Off}
  /\ life \in {"null", "started", "playing", "dead"}
  /\ enabled \in BOOLEAN /\ showing \in 0..1 /\ saved \in {Null, Console, Off}
  /\ last \in Nat /\ last <= 2 * (faults + (IF enabled THEN 1 ELSE 0))
  /\ bo \in [0..1 -> 0..last] /\ drawn \in [0..1 -> 0..last] /\ fb \in [0..1 -> 0..last]
  /\ objects \subseteq 1..last /\ fbs \subseteq 1..last
  /\ files \in Nat /\ files <= sessions /\ drivers \in 0..1
  /\ sessions \in 0..MaxSessions /\ faults \in 0..MaxFaults

Running == life \in {"started", "playing"}

LifeInv ==
  /\ kind = "plane" => before = Off /\ saved = Null
  /\ life = "null" => fbs = {} /\ drivers = 0
  /\ Running => files > 0 /\ drivers = 1 /\ sessions > 0

\* No setup() has succeeded yet: nothing was shown or saved.
UnsetInv == ~enabled => life # "playing" /\ saved = Null /\ shown = before

\* The session whose setup() succeeded, and what is true until it ends: both
\* buffers are there, and at most the one that is not the current is shown.
Equipped == enabled /\ bo[0] # 0

EquippedInv ==
  Equipped =>
    /\ life = "playing" /\ drawn = bo /\ fb = bo
    /\ bo[0] # bo[1] /\ bo[1] # 0
    /\ \A j \in 0..1 : bo[j] \in objects /\ bo[j] \in fbs
    /\ kind = "crtc" => saved = before
    /\ shown = before \/ shown = bo[1 - showing]

\* Later sessions of the same element have no buffers, and no setup() makes any.
Used == enabled /\ bo[0] = 0

UsedInv ==
  Used => /\ bo[1] = 0 /\ fbs = {} /\ \A j \in 0..1 : drawn[j] \notin objects
          /\ sessions > 0 /\ (life # "null" => sessions > 1)
          /\ shown = before \/ (shown = Off /\ faults > 0)

\* What is held is paid for, by a session, by its buffers or by a call that failed.
CountInv ==
  life # "dead" =>
    files + Cardinality(objects)
      <= 2 * (faults + (IF Equipped THEN 1 ELSE 0)) + (IF Running THEN 1 ELSE 0)

SinkInv == SinkTypeInv /\ LifeInv /\ UnsetInv /\ EquippedInv /\ UsedInv /\ CountInv

LEMMA SinkFrames == Sink!DRM_FRAMES = 2 /\ Sink!Frames = 0..1
BY DEF Sink!DRM_FRAMES, Sink!Frames

LEMMA SinkCardinality == \A S : Sink!Cardinality(S) = Cardinality(S)
BY Zenon DEF Sink!Cardinality, Cardinality

LEMMA ObjectsFinite == SinkTypeInv => IsFiniteSet(objects) /\ Cardinality(objects) \in Nat
<1> SUFFICES ASSUME SinkTypeInv PROVE IsFiniteSet(objects) /\ Cardinality(objects) \in Nat
  OBVIOUS
<1>1. last \in Nat /\ objects \subseteq 1..last BY DEF SinkTypeInv
<1>2. IsFiniteSet(1..last) BY <1>1, FS_Interval
<1> QED BY <1>1, <1>2, FS_Subset, FS_CardinalityType

LEMMA SinkInit_Inv == Sink!Init => SinkInv
<1> SUFFICES ASSUME Sink!Init PROVE SinkInv
  OBVIOUS
<1>1. Cardinality({}) = 0 BY FS_EmptySet
<1>2. bo = [j \in 0..1 |-> 0] /\ drawn = bo /\ fb = bo BY SinkFrames DEF Sink!Init
<1>3. 0 \in 0..0 OBVIOUS
<1>4. last = 0 BY DEF Sink!Init
<1>5. SinkTypeInv
  <2>1. bo \in [0..1 -> 0..last] /\ drawn \in [0..1 -> 0..last] /\ fb \in [0..1 -> 0..last]
    BY <1>2, <1>3, <1>4
  <2>2. last \in Nat /\ last <= 2 * (faults + (IF enabled THEN 1 ELSE 0))
    BY <1>4 DEF Sink!Init
  <2>3. kind \in {"crtc", "plane"} /\ before \in {Console, Off} /\ objects = {} /\ fbs = {}
    BY DEF Sink!Init
  <2>4. sessions = 0 /\ faults = 0 /\ files = 0 /\ drivers = 0 /\ showing = 0
        /\ enabled = FALSE /\ saved = Null /\ life = "null"
    BY DEF Sink!Init
  <2>5. 0 \in 0..MaxSessions /\ 0 \in 0..MaxFaults BY SinkAssumption
  <2>6. sessions \in 0..MaxSessions /\ faults \in 0..MaxFaults /\ files \in Nat /\ files <= sessions
        /\ drivers \in 0..1 /\ showing \in 0..1
    BY <2>4, <2>5
  <2>7. enabled \in BOOLEAN /\ saved \in {Null, Console, Off}
        /\ life \in {"null", "started", "playing", "dead"}
    BY <2>4
  <2>8. objects \subseteq 1..last /\ fbs \subseteq 1..last BY <2>3
  <2> QED BY ONLY <2>1, <2>2, <2>3, <2>6, <2>7, <2>8 DEF SinkTypeInv
<1> QED
  BY <1>1, <1>2, <1>5, SinkAssumption
  DEF Sink!Init, SinkInv, LifeInv, UnsetInv, EquippedInv, UsedInv, CountInv, Equipped, Used, Running

LEMMA SinkInv_Safe == SinkInv => SinkSafe
<1> SUFFICES ASSUME SinkInv PROVE SinkSafe
  OBVIOUS
<1> DEFINE M == Sink!MaxBuffers
<1>1. M \in Nat /\ M = 2 * (1 + MaxFaults) BY SinkFrames, SinkAssumption DEF Sink!MaxBuffers
<1>2. last \in 0..M BY <1>1, SinkAssumption DEF SinkInv, SinkTypeInv
<1>3. 0..last \subseteq 0..M /\ 1..last \subseteq 1..M BY <1>1, <1>2
<1> HIDE DEF M
<1>4. Sink!TypeOK
  <2>1. bo \in [0..1 -> 0..M] /\ drawn \in [0..1 -> 0..M] /\ fb \in [0..1 -> 0..M]
        /\ objects \subseteq 1..M /\ fbs \subseteq 1..M
    BY <1>3 DEF SinkInv, SinkTypeInv
  <2>2. shown \in {Console, Off} \cup 1..M
    <3>1. before \in {Console, Off} BY DEF SinkInv, SinkTypeInv
    <3>2. CASE ~enabled BY <3>1, <3>2 DEF SinkInv, UnsetInv
    <3>3. CASE Used BY <3>1, <3>3 DEF SinkInv, UsedInv
    <3>4. CASE Equipped
      <4>1. showing \in 0..1 /\ 1 - showing \in 0..1 BY DEF SinkInv, SinkTypeInv
      <4>2. \A j \in 0..1 : bo[j] \in 1..M
        BY <1>3, <3>4 DEF SinkInv, EquippedInv, SinkTypeInv
      <4> QED BY <3>1, <3>4, <4>1, <4>2 DEF SinkInv, EquippedInv
    <3>5. bo[0] = 0 \/ bo[0] # 0 OBVIOUS
    <3> QED BY <3>2, <3>3, <3>4, <3>5 DEF Equipped, Used, SinkInv, SinkTypeInv
  <2>3. files \in 0..MaxSessions
    BY SinkAssumption DEF SinkInv, SinkTypeInv
  <2>4. /\ kind \in {"crtc", "plane"} /\ before \in {Console, Off}
        /\ life \in {"null", "started", "playing", "dead"}
        /\ enabled \in BOOLEAN /\ showing \in 0..1 /\ saved \in {Null, Console, Off}
        /\ drivers \in 0..1 /\ sessions \in 0..MaxSessions /\ faults \in 0..MaxFaults
    BY DEF SinkInv, SinkTypeInv
  <2> QED
    BY <1>2, <2>1, <2>2, <2>3, <2>4, SinkFrames DEF Sink!TypeOK, Sink!Shows, M
<1>5. Sink!NeverDrawOnScreen
  BY SinkAssumption
  DEF Sink!NeverDrawOnScreen, SinkInv, SinkTypeInv, UnsetInv, EquippedInv, UsedInv, Equipped, Used
<1>6. Sink!FirstSessionSafe
  BY DEF Sink!FirstSessionSafe, SinkInv, SinkTypeInv, EquippedInv, UsedInv, Equipped, Used
<1>7. Sink!NothingLeft
  <2> SUFFICES ASSUME life = "null"
               PROVE  /\ shown = before \/ (shown = Off /\ faults > 0)
                      /\ fbs = {} /\ drivers = 0
                      /\ files + Cardinality(objects) <= 2 * faults
    BY <1>4, SinkCardinality DEF Sink!NothingLeft, Sink!DRM_FRAMES
  <2>1. ~Equipped BY DEF SinkInv, EquippedInv
  <2>2. shown = before \/ (shown = Off /\ faults > 0)
    BY <2>1 DEF Equipped, Used, SinkInv, UnsetInv, UsedInv
  <2>3. files + Cardinality(objects) <= 2 * faults
    <3>1. files + Cardinality(objects) <= 2 * (faults + 0) + 0
      BY <2>1 DEF SinkInv, CountInv, Running
    <3>2. faults \in Nat BY SinkAssumption DEF SinkInv, SinkTypeInv
    <3> QED BY <3>1, <3>2
  <2> QED BY <2>2, <2>3 DEF SinkInv, LifeInv
<1> QED BY <1>5, <1>6, <1>7 DEF SinkSafe, Sink!SinkSafe

\* What a setup() makes that gets so far: buffers with new numbers, two of them at
\* most, and when all calls succeed each frame has its own.
LEMMA MadeFrames ==
  ASSUME SinkTypeInv, NEW calls \in 0..6, Sink!MakeFrames(calls)
  PROVE  /\ last' \in Nat /\ last <= last' /\ last' <= last + 2
         /\ bo' \in [0..1 -> 0..last'] /\ drawn' \in [0..1 -> 0..last']
         /\ fb' \in [0..1 -> 0..last']
         /\ objects' \subseteq 1..last' /\ fbs' \subseteq 1..last'
         /\ Cardinality(objects') \in Nat /\ Cardinality(objects') <= Cardinality(objects) + 2
         /\ calls = 6 => /\ drawn' = bo' /\ fb' = bo'
                         /\ bo'[0] = last + 1 /\ bo'[1] = last + 2
                         /\ \A j \in 0..1 : bo'[j] \in objects' /\ bo'[j] \in fbs'
<1> DEFINE H(step) == {j \in 0..1 : 3 * j + step < calls}
           New(old, S) == [j \in 0..1 |-> IF j \in S THEN last + 1 + j ELSE old[j]]
<1>1. /\ bo' = New(bo, H(0)) /\ drawn' = New(drawn, H(1)) /\ fb' = New(fb, H(2))
      /\ objects' = objects \cup {bo'[j] : j \in H(0)}
      /\ fbs' = fbs \cup {fb'[j] : j \in H(2)}
      /\ last' = last + Cardinality(H(0))
  BY SinkFrames, SinkCardinality DEF Sink!MakeFrames, Sink!Had, Sink!Renew
<1>2. last \in Nat /\ bo \in [0..1 -> 0..last] /\ drawn \in [0..1 -> 0..last]
      /\ fb \in [0..1 -> 0..last] /\ objects \subseteq 1..last /\ fbs \subseteq 1..last
  BY DEF SinkTypeInv
<1>3. H(1) \subseteq H(0) /\ H(2) \subseteq H(0) /\ H(0) \subseteq 0..1 OBVIOUS
<1>4. Cardinality(H(0)) \in 0..2 /\ \A j \in H(0) : j < Cardinality(H(0))
  <2>1. Cardinality({}) = 0 /\ Cardinality({0}) = 1 /\ Cardinality({0, 1}) = 2
    <3>1. Cardinality({0} \cup {1}) = 2
      <4>1. IsFiniteSet({0}) /\ Cardinality({0}) = 1 BY FS_Singleton
      <4>2. 1 \notin {0} OBVIOUS
      <4>3. Cardinality({0} \cup {1}) = Cardinality({0}) + 1 BY <4>1, <4>2, FS_AddElement
      <4> QED BY <4>1, <4>3
    <3>2. {0} \cup {1} = {0, 1} OBVIOUS
    <3> QED BY <3>1, <3>2, FS_EmptySet, FS_Singleton
  <2>2. CASE calls = 0
    <3>1. H(0) = {} BY <2>2
    <3> QED BY <2>1, <3>1
  <2>3. CASE calls \in 1..3
    <3>1. H(0) = {0} BY <2>3
    <3> HIDE DEF H
    <3> QED BY <2>1, <3>1
  <2>4. CASE calls \in 4..6
    <3>1. H(0) = {0, 1} BY <2>4
    <3> HIDE DEF H
    <3> QED BY <2>1, <3>1
  <2> QED BY <2>2, <2>3, <2>4
<1>5. calls = 6 => H(0) = 0..1 /\ H(1) = 0..1 /\ H(2) = 0..1 /\ Cardinality(H(0)) = 2
  <2> SUFFICES ASSUME calls = 6
               PROVE  H(0) = 0..1 /\ H(1) = 0..1 /\ H(2) = 0..1 /\ Cardinality(H(0)) = 2
    OBVIOUS
  <2>1. H(0) = 0..1 /\ H(1) = 0..1 /\ H(2) = 0..1 OBVIOUS
  <2>2. \A j \in 0..1 : j < Cardinality(H(0)) BY <1>4, <2>1
  <2>3. 1 < Cardinality(H(0)) BY <2>2
  <2> HIDE DEF H
  <2> QED BY <1>4, <2>1, <2>3
<1> DEFINE k == Cardinality(H(0))
<1>6. k \in 0..2 /\ last' = last + k /\ \A j \in H(0) : j < k BY <1>1, <1>4
<1> HIDE DEF k
<1>7. last' \in Nat /\ last <= last' /\ last' <= last + 2 BY <1>2, <1>6
<1>8. \A j \in H(0) : j \in 0..1 /\ last + 1 + j \in 1..last'
  BY <1>2, <1>3, <1>6
<1>9. 0..last \subseteq 0..last' /\ 1..last \subseteq 1..last' BY <1>2, <1>7
<1> HIDE DEF H
<1>10. ASSUME NEW old \in [0..1 -> 0..last], NEW S \in SUBSET H(0)
       PROVE  New(old, S) \in [0..1 -> 0..last'] /\ \A j \in S : New(old, S)[j] = last + 1 + j
  <2>1. \A j \in 0..1 : (IF j \in S THEN last + 1 + j ELSE old[j]) \in 0..last'
    BY <1>8, <1>9
  <2> QED BY <2>1, <1>3
<1>11. /\ bo' \in [0..1 -> 0..last'] /\ drawn' \in [0..1 -> 0..last'] /\ fb' \in [0..1 -> 0..last']
       /\ \A j \in H(0) : bo'[j] = last + 1 + j
       /\ \A j \in H(2) : fb'[j] = last + 1 + j
  BY <1>1, <1>2, <1>3, <1>10
<1>12. objects' \subseteq 1..last' /\ fbs' \subseteq 1..last'
  <2>1. \A j \in H(0) : bo'[j] \in 1..last' BY <1>8, <1>11
  <2>2. \A j \in H(2) : fb'[j] \in 1..last' BY <1>3, <1>8, <1>11
  <2>3. objects \subseteq 1..last' /\ fbs \subseteq 1..last' BY <1>2, <1>9
  <2> HIDE DEF New
  <2> QED BY <1>1, <2>1, <2>2, <2>3
<1>13. Cardinality(objects') \in Nat /\ Cardinality(objects') <= Cardinality(objects) + 2
  <2>1. IsFiniteSet(objects) /\ Cardinality(objects) \in Nat BY ObjectsFinite
  <2> DEFINE one == objects \cup {last + 1}
             both == one \cup {last + 2}
  <2>2. IsFiniteSet(one) /\ Cardinality(one) <= Cardinality(objects) + 1
        /\ Cardinality(one) \in Nat
    BY <2>1, FS_AddElement, FS_CardinalityType
  <2>3. IsFiniteSet(both) /\ Cardinality(both) <= Cardinality(objects) + 2
        /\ Cardinality(both) \in Nat
    <3>1. IsFiniteSet(both) /\ Cardinality(both) \in {Cardinality(one), Cardinality(one) + 1}
      BY <2>2, FS_AddElement
    <3> QED BY <2>1, <2>2, <3>1
  <2>4. objects' \subseteq both
    <3>1. \A j \in H(0) : bo'[j] \in {last + 1, last + 2} BY <1>2, <1>3, <1>11
    <3> QED BY <1>1, <3>1
  <2>5. Cardinality(objects') <= Cardinality(both) /\ Cardinality(objects') \in Nat
    BY <2>3, <2>4, FS_Subset, FS_CardinalityType
  <2> HIDE DEF both
  <2> QED BY <2>1, <2>3, <2>5
<1>14. ASSUME calls = 6
       PROVE  /\ drawn' = bo' /\ fb' = bo' /\ bo'[0] = last + 1 /\ bo'[1] = last + 2
              /\ \A j \in 0..1 : bo'[j] \in objects' /\ bo'[j] \in fbs'
  <2>1. H(0) = 0..1 /\ H(1) = 0..1 /\ H(2) = 0..1 BY <1>5, <1>14
  <2>2. bo' = [j \in 0..1 |-> last + 1 + j] /\ drawn' = bo' /\ fb' = bo' BY <1>1, <2>1
  <2>3. last + 1 + 0 = last + 1 /\ last + 1 + 1 = last + 2 BY <1>2
  <2> QED BY <1>1, <2>1, <2>2, <2>3
<1> QED BY <1>7, <1>11, <1>12, <1>13, <1>14

LEMMA MoreFaults ==
  ASSUME last \in Nat, faults \in Nat, faults' \in Nat, faults <= faults',
         NEW e \in 0..1, last <= 2 * (faults + e)
  PROVE  last <= 2 * (faults' + e)
<1>1. \A f \in Nat : faults <= f => last <= 2 * (f + e) OBVIOUS
<1> QED BY <1>1, Zenon

\* The numbers of framebuffers are not what was on the screen before.
LEMMA NotAmongFbs == SinkTypeInv => before \notin fbs /\ Off \notin fbs
<1> SUFFICES ASSUME SinkTypeInv PROVE before \notin fbs /\ Off \notin fbs
  OBVIOUS
<1>1. fbs \subseteq Nat /\ before \in {Console, Off} BY DEF SinkTypeInv
<1> QED BY <1>1, SinkAssumption

LEMMA SinkStartInv == SinkInv /\ Sink!Start => SinkInv'
<1> SUFFICES ASSUME SinkInv, Sink!Start PROVE SinkInv'
  OBVIOUS
<1>1. /\ life = "null" /\ sessions < MaxSessions /\ sessions' = sessions + 1
      /\ \/ life' = "started" /\ files' = files + 1 /\ drivers' = drivers + 1 /\ faults' = faults
         \/ /\ files' \in {files, files + 1} /\ faults < MaxFaults /\ faults' = faults + 1
            /\ life' = life /\ drivers' = drivers
      /\ UNCHANGED <<kind, before, enabled, showing, saved, bo, drawn, fb, objects, fbs, last, shown>>
  BY DEF Sink!Start, Sink!NoFault, Sink!Fault, Sink!selfVars
<1>2. MaxSessions \in Nat /\ MaxFaults \in Nat BY SinkAssumption
<1>3. SinkTypeInv BY DEF SinkInv
<1>4. faults \in Nat /\ sessions \in Nat /\ files \in Nat /\ Cardinality(objects) \in Nat
      /\ faults' \in Nat /\ faults' \in {faults, faults + 1} /\ files' \in Nat
  BY <1>1, <1>2, <1>3, ObjectsFinite DEF SinkTypeInv
<1>5. ~Equipped /\ Equipped' = FALSE /\ Used' = Used BY <1>1 DEF SinkInv, EquippedInv, Equipped, Used
<1>6. SinkTypeInv'
  <2>1. faults' \in 0..MaxFaults /\ sessions' \in 0..MaxSessions
    BY <1>1, <1>2, <1>4, <1>3 DEF SinkTypeInv
  <2>2. files' <= sessions' /\ drivers' \in 0..1
    BY <1>1, <1>3, <1>4 DEF SinkInv, SinkTypeInv, LifeInv
  <2>3. last' <= 2 * (faults' + (IF enabled' THEN 1 ELSE 0))
    <3>1. last \in Nat /\ last <= 2 * (faults + (IF enabled THEN 1 ELSE 0)) BY <1>3 DEF SinkTypeInv
    <3>2. faults <= faults' BY <1>4
    <3>3. last <= 2 * (faults' + (IF enabled THEN 1 ELSE 0))
      <4> DEFINE e == IF enabled THEN 1 ELSE 0
      <4>1. e \in 0..1 /\ last <= 2 * (faults + e) BY <3>1
      <4> HIDE DEF e
      <4>2. last <= 2 * (faults' + e) BY <1>4, <3>1, <3>2, <4>1, MoreFaults
      <4> QED BY <4>2 DEF e
    <3> QED BY <1>1, <3>3
  <2> QED BY <1>1, <1>3, <1>4, <2>1, <2>2, <2>3 DEF SinkTypeInv
<1>7. LifeInv' BY <1>1, <1>4 DEF SinkInv, LifeInv, Running
<1>8. UnsetInv' BY <1>1 DEF SinkInv, UnsetInv
<1>9. EquippedInv' BY <1>5 DEF EquippedInv
<1>10. UsedInv'
  BY <1>1, <1>4, <1>5 DEF SinkInv, UsedInv
<1>11. CountInv'
  <2>1. files + Cardinality(objects) <= 2 * (faults + 0) + 0
    BY <1>1, <1>5 DEF SinkInv, CountInv, Running
  <2>2. CASE life' = "started" /\ files' = files + 1 /\ faults' = faults
    BY <1>1, <1>4, <1>5, <2>1, <2>2 DEF CountInv, Running
  <2>3. CASE life' = life /\ files' \in {files, files + 1} /\ faults' = faults + 1
    BY <1>1, <1>4, <1>5, <2>1, <2>3 DEF CountInv, Running
  <2> QED BY <1>1, <2>2, <2>3
<1> QED BY <1>6, <1>7, <1>8, <1>9, <1>10, <1>11 DEF SinkInv

\* A setup() that fails: what it made is forgotten with nothing to show for it.
LEMMA SinkFailsInv ==
  ASSUME SinkInv, ~enabled, life \in {"started", "playing"},
         \E calls \in 0..6 : Sink!MakeFrames(calls),
         faults < MaxFaults, faults' = faults + 1,
         saved' \in {saved, Null},
         UNCHANGED <<kind, before, life, enabled, showing, shown, files, drivers, sessions>>
  PROVE  SinkInv'
<1>1. MaxFaults \in Nat /\ SinkTypeInv BY SinkAssumption DEF SinkInv
<1>2. /\ last' \in Nat /\ last <= last' /\ last' <= last + 2
      /\ bo' \in [0..1 -> 0..last'] /\ drawn' \in [0..1 -> 0..last']
      /\ fb' \in [0..1 -> 0..last']
      /\ objects' \subseteq 1..last' /\ fbs' \subseteq 1..last'
      /\ Cardinality(objects') \in Nat /\ Cardinality(objects') <= Cardinality(objects) + 2
  BY <1>1, MadeFrames
<1>3. life = "started" /\ saved = Null /\ saved' = Null /\ shown = before
  BY DEF SinkInv, UnsetInv
<1>4. ~Equipped /\ ~Equipped' /\ ~Used' BY DEF Equipped, Used
<1>5. last \in Nat /\ faults \in Nat /\ faults' \in Nat /\ files \in Nat
      /\ last <= 2 * (faults + 0)
  BY <1>1 DEF SinkTypeInv
<1>6. SinkTypeInv'
  <2>1. faults' \in 0..MaxFaults BY <1>1, <1>5
  <2>2. last' <= 2 * (faults' + 0) BY <1>2, <1>5
  <2>3. saved' \in {Null, Console, Off} BY <1>3
  <2> QED BY <1>1, <1>2, <2>1, <2>2, <2>3 DEF SinkTypeInv
<1>7. LifeInv' BY <1>3 DEF SinkInv, LifeInv, Running
<1>8. UnsetInv' BY <1>3 DEF UnsetInv
<1>9. EquippedInv' /\ UsedInv' BY <1>4 DEF EquippedInv, UsedInv
<1>10. CountInv'
  <2>1. files + Cardinality(objects) <= 2 * (faults + 0) + 1
    BY <1>3, <1>4 DEF SinkInv, CountInv, Running
  <2>2. Cardinality(objects) \in Nat /\ Cardinality(objects') \in Nat
    BY <1>1, <1>2, ObjectsFinite
  <2>3. files + Cardinality(objects') <= 2 * (faults' + 0) + 1 BY <1>2, <1>5, <2>1, <2>2
  <2> QED BY <1>3, <1>4, <2>3 DEF CountInv, Running
<1> QED BY <1>6, <1>7, <1>8, <1>9, <1>10 DEF SinkInv

\* A setup() that succeeds: each frame has a buffer, and what is shown is saved.
LEMMA SinkSetInv ==
  ASSUME SinkInv, ~enabled, life \in {"started", "playing"}, Sink!MakeFrames(6),
         saved' = (IF kind = "crtc" THEN shown ELSE saved), enabled' = TRUE, showing' = 0,
         life' = "playing",
         UNCHANGED <<kind, before, shown, files, drivers, sessions, faults>>
  PROVE  SinkInv'
<1>1. MaxFaults \in Nat /\ SinkTypeInv BY SinkAssumption DEF SinkInv
<1>2. /\ last' \in Nat /\ last <= last' /\ last' <= last + 2
      /\ bo' \in [0..1 -> 0..last'] /\ drawn' \in [0..1 -> 0..last']
      /\ fb' \in [0..1 -> 0..last']
      /\ objects' \subseteq 1..last' /\ fbs' \subseteq 1..last'
      /\ Cardinality(objects') \in Nat /\ Cardinality(objects') <= Cardinality(objects) + 2
      /\ drawn' = bo' /\ fb' = bo' /\ bo'[0] = last + 1 /\ bo'[1] = last + 2
      /\ \A j \in 0..1 : bo'[j] \in objects' /\ bo'[j] \in fbs'
  <2>1. 6 \in 0..6 OBVIOUS
  <2> QED BY <1>1, <2>1, MadeFrames
<1>3. life = "started" /\ saved = Null /\ shown = before
  BY DEF SinkInv, UnsetInv
<1>4. last \in Nat /\ faults \in Nat /\ files \in Nat /\ last <= 2 * (faults + 0)
  BY <1>1 DEF SinkTypeInv
<1>5. bo'[0] # 0 /\ bo'[1] # 0 /\ bo'[0] # bo'[1] BY <1>2, <1>4
<1>6. ~Equipped /\ Equipped' /\ ~Used' BY <1>5 DEF Equipped, Used
<1>7. SinkTypeInv'
  <2>1. last' <= 2 * (faults' + 1) BY <1>2, <1>4
  <2>2. saved' \in {Null, Console, Off} BY <1>1, <1>3 DEF SinkTypeInv
  <2> QED BY <1>1, <1>2, <2>1, <2>2 DEF SinkTypeInv
<1>8. LifeInv' BY <1>3 DEF SinkInv, LifeInv, Running
<1>9. UnsetInv' BY DEF UnsetInv
<1>10. EquippedInv' BY <1>2, <1>3, <1>5 DEF EquippedInv
<1>11. UsedInv' BY <1>6 DEF UsedInv
<1>12. CountInv'
  <2>1. files + Cardinality(objects) <= 2 * (faults + 0) + 1
    BY <1>3, <1>6 DEF SinkInv, CountInv, Running
  <2>2. Cardinality(objects) \in Nat /\ Cardinality(objects') \in Nat
    BY <1>1, <1>2, ObjectsFinite
  <2>3. files + Cardinality(objects') <= 2 * (faults + 1) + 1 BY <1>2, <1>4, <2>1, <2>2
  <2> QED BY <1>6, <2>3 DEF CountInv, Running
<1> QED BY <1>7, <1>8, <1>9, <1>10, <1>11, <1>12 DEF SinkInv

LEMMA SinkCapsInv == SinkInv /\ Sink!SetCaps => SinkInv'
<1> SUFFICES ASSUME SinkInv, Sink!SetCaps PROVE SinkInv'
  OBVIOUS
<1>1. life \in {"started", "playing"}
      /\ UNCHANGED <<kind, before, shown, files, drivers, sessions>>
  BY DEF Sink!SetCaps
<1>2. CASE UNCHANGED <<enabled, showing, saved, bo, drawn, fb, objects, fbs, last, faults>>
           /\ (life' = life \/ (enabled /\ life' = "playing"))
  <2>1. Equipped' = Equipped /\ Used' = Used /\ Running' /\ Running
    BY <1>1, <1>2 DEF Equipped, Used, Running
  <2>2. SinkTypeInv' BY <1>1, <1>2 DEF SinkInv, SinkTypeInv
  <2>3. LifeInv' BY <1>1, <1>2, <2>1 DEF SinkInv, LifeInv, Running
  <2>4. UnsetInv' /\ EquippedInv' BY <1>1, <1>2, <2>1 DEF SinkInv, UnsetInv, EquippedInv
  <2>5. UsedInv' BY <1>1, <1>2, <2>1 DEF SinkInv, UsedInv
  <2>6. CountInv' BY <1>1, <1>2, <2>1 DEF SinkInv, CountInv
  <2> QED BY <2>2, <2>3, <2>4, <2>5, <2>6 DEF SinkInv
<1>3. CASE ~enabled /\ Sink!Setup
  <2>1. Sink!AllCalls = 6 BY SinkFrames DEF Sink!AllCalls
  <2>2. 6 - 1 = 5 /\ 6 \in 0..6 /\ 0..5 \subseteq 0..6 OBVIOUS
  <2>3. CASE /\ Sink!MakeFrames(6) /\ Sink!Save
             /\ enabled' = TRUE /\ showing' = 0 /\ life' = "playing" /\ Sink!NoFault
    BY <1>1, <1>3, <2>3, SinkSetInv DEF Sink!Save, Sink!NoFault
  <2>4. CASE /\ \E calls \in 0..5 : Sink!MakeFrames(calls)
             /\ Sink!Fault /\ UNCHANGED <<enabled, showing, saved, life>>
    BY <1>1, <1>3, <2>2, <2>4, SinkFailsInv DEF Sink!Fault
  <2>5. CASE /\ Sink!MakeFrames(6) /\ saved' = Null
             /\ Sink!Fault /\ UNCHANGED <<enabled, showing, life>>
    BY <1>1, <1>3, <2>2, <2>5, SinkFailsInv DEF Sink!Fault
  <2> QED BY <1>3, <2>1, <2>2, <2>3, <2>4, <2>5 DEF Sink!Setup
<1>4. \/ /\ enabled /\ life' = "playing"
         /\ UNCHANGED <<enabled, showing, saved, bo, drawn, fb, objects, fbs, last, faults>>
      \/ ~enabled /\ Sink!Setup
      \/ /\ life' = life
         /\ UNCHANGED <<enabled, showing, saved, bo, drawn, fb, objects, fbs, last, faults>>
  BY DEF Sink!SetCaps, Sink!selfVars
<1> QED BY <1>2, <1>3, <1>4

\* The element crashes in its first session only without caps.
LEMMA SinkCrashInv ==
  ASSUME SinkInv, Sink!Crash, ~Equipped, Running, enabled => sessions > 1,
         UNCHANGED <<kind, before, sessions>>
  PROVE  SinkInv'
<1>1. /\ life' = "dead"
      /\ UNCHANGED <<kind, before, sessions, enabled, showing, saved, bo, drawn, fb, objects, fbs,
                     last, shown, files, drivers, faults>>
  BY DEF Sink!Crash, Sink!selfVars, Sink!deviceVars
<1>2. ~Equipped' /\ Used' = Used /\ ~Running' BY <1>1 DEF Equipped, Used, Running
<1>3. SinkTypeInv' BY <1>1 DEF SinkInv, SinkTypeInv
<1>4. LifeInv' BY <1>1, <1>2 DEF SinkInv, LifeInv
<1>5. UnsetInv' BY <1>1 DEF SinkInv, UnsetInv
<1>6. EquippedInv' BY <1>2 DEF EquippedInv
<1>7. UsedInv' BY <1>1, <1>2 DEF SinkInv, UsedInv, Used
<1>8. CountInv' BY <1>1 DEF CountInv
<1> QED BY <1>3, <1>4, <1>5, <1>6, <1>7, <1>8 DEF SinkInv

LEMMA SinkRenderInv == SinkInv /\ Sink!Render => SinkInv'
<1> SUFFICES ASSUME SinkInv, Sink!Render PROVE SinkInv'
  OBVIOUS
<1>1. life = "playing" /\ UNCHANGED <<kind, before, sessions>> BY DEF Sink!Render
<1>2. SinkTypeInv /\ enabled /\ showing \in 0..1
  BY <1>1 DEF SinkInv, UnsetInv, SinkTypeInv
<1>3. CASE Used
  <2>1. ~Equipped /\ sessions > 1 /\ drawn[showing] \notin objects
    BY <1>1, <1>2, <1>3 DEF Used, Equipped, SinkInv, UsedInv
  <2> QED BY <1>1, <2>1, SinkCrashInv DEF Sink!Render, Running
<1>4. CASE Equipped
  <2>1. drawn[showing] \in objects /\ fb = bo BY <1>2, <1>4 DEF SinkInv, EquippedInv
  <2>2. /\ \/ shown' = bo[showing] /\ showing' = (showing + 1) % 2 /\ faults' = faults
           \/ shown' = shown /\ showing' = showing /\ faults < MaxFaults /\ faults' = faults + 1
        /\ UNCHANGED <<life, enabled, saved, bo, drawn, fb, objects, fbs, last, files, drivers>>
    BY <2>1 DEF Sink!Render, Sink!Flip, Sink!DRM_FRAMES, Sink!NoFault, Sink!Fault
  <2>3. (showing + 1) % 2 = 1 - showing /\ 1 - showing \in 0..1 /\ 1 - (1 - showing) = showing
    <3>1. CASE showing = 0 BY <3>1
    <3>2. CASE showing = 1 BY <3>2
    <3> QED BY <1>2, <3>1, <3>2
  <2>4. showing' \in 0..1 /\ (shown' = bo[1 - showing'] \/ (shown' = shown /\ showing' = showing))
    <3>1. CASE shown' = bo[showing] /\ showing' = (showing + 1) % 2 BY <2>3, <3>1
    <3>2. CASE shown' = shown /\ showing' = showing BY <1>2, <3>2
    <3> QED BY <2>2, <3>1, <3>2
  <2>5. MaxFaults \in Nat /\ faults \in Nat /\ faults \in 0..MaxFaults
        /\ faults' \in 0..MaxFaults /\ faults' \in Nat /\ faults <= faults'
    <3>1. MaxFaults \in Nat /\ faults \in 0..MaxFaults BY <1>2, SinkAssumption DEF SinkTypeInv
    <3> QED BY <2>2, <3>1
  <2>6. Equipped' /\ ~Used' /\ Running /\ Running' BY <1>1, <1>4, <2>2 DEF Equipped, Used, Running
  <2>7. SinkTypeInv'
    <3>1. last' <= 2 * (faults' + 1)
      <4>1. last \in Nat /\ last <= 2 * (faults + 1) BY <1>2 DEF SinkTypeInv
      <4> DEFINE e == IF enabled THEN 1 ELSE 0
      <4>2. e = 1 BY <1>2
      <4>3. e \in 0..1 /\ last <= 2 * (faults + e) BY <4>1, <4>2
      <4> HIDE DEF e
      <4>4. last <= 2 * (faults' + e) BY <2>5, <4>1, <4>3, MoreFaults
      <4>5. last <= 2 * (faults' + 1) BY <4>2, <4>4
      <4> QED BY <2>2, <4>5
    <3> QED BY <1>1, <1>2, <2>2, <2>4, <2>5, <3>1 DEF SinkTypeInv
  <2>8. LifeInv' BY <1>1, <2>2, <2>6 DEF SinkInv, LifeInv
  <2>9. UnsetInv' BY <1>2, <2>2 DEF UnsetInv
  <2>10. EquippedInv' BY <1>1, <1>4, <2>2, <2>4 DEF SinkInv, EquippedInv
  <2>11. UsedInv' BY <2>6 DEF UsedInv
  <2>12. CountInv'
    <3>1. files + Cardinality(objects) <= 2 * (faults + 1) + 1
      BY <1>1, <1>4, <2>6 DEF SinkInv, CountInv
    <3>2. files \in Nat /\ Cardinality(objects) \in Nat BY <1>2, ObjectsFinite DEF SinkTypeInv
    <3>3. files + Cardinality(objects) <= 2 * (faults' + 1) + 1 BY <2>5, <3>1, <3>2
    <3> QED BY <2>2, <2>6, <3>3 DEF CountInv
  <2> QED BY <2>7, <2>8, <2>9, <2>10, <2>11, <2>12 DEF SinkInv
<1>5. bo[0] = 0 \/ bo[0] # 0 OBVIOUS
<1> QED BY <1>2, <1>3, <1>4, <1>5 DEF Equipped, Used

\* What stop() leaves on the screen.
LEMMA SinkRestored ==
  ASSUME SinkInv, Running, ~Used, ~(kind = "crtc" /\ saved = Null),
         NEW back \in {Sink!Restored, shown},
         shown' = (IF back \in fbs THEN Off ELSE back), before' = before,
         IF back = Sink!Restored THEN faults' = faults ELSE faults' = faults + 1
  PROVE  shown' = before' \/ (shown' = Off /\ faults' > 0)
<1>1. SinkTypeInv /\ faults \in Nat /\ before \notin fbs /\ Off \notin fbs
  BY SinkAssumption, NotAmongFbs DEF SinkInv, SinkTypeInv
<1>2. CASE ~enabled
  <2>1. kind = "plane" /\ before = Off /\ shown = before
    BY <1>1, <1>2 DEF SinkInv, UnsetInv, LifeInv, SinkTypeInv
  <2> QED BY <1>1, <2>1 DEF Sink!Restored
<1>3. CASE Equipped
  <2>1. showing \in 0..1 /\ 1 - showing \in 0..1 BY <1>1 DEF SinkTypeInv
  <2>2. shown = before \/ shown \in fbs
    BY <1>3, <2>1 DEF SinkInv, EquippedInv
  <2>3. CASE kind = "plane"
    BY <1>1, <2>2, <2>3 DEF Sink!Restored, SinkInv, LifeInv
  <2>4. CASE kind = "crtc"
    <3>1. saved = before BY <1>3, <2>4 DEF SinkInv, EquippedInv
    <3>2. CASE saved = Off BY <1>1, <2>2, <2>4, <3>1, <3>2 DEF Sink!Restored
    <3>3. CASE saved # Off
      <4>1. Sink!Restored = before BY <2>4, <3>1, <3>3 DEF Sink!Restored
      <4>2. back = before \/ faults' = faults + 1 BY <4>1
      <4> QED BY <1>1, <2>2, <4>1, <4>2
    <3> QED BY <3>2, <3>3
  <2> QED BY <1>1, <2>3, <2>4 DEF SinkTypeInv
<1>4. bo[0] = 0 \/ bo[0] # 0 OBVIOUS
<1> QED BY <1>2, <1>3, <1>4 DEF Equipped, Used

LEMMA SinkStopInv == SinkInv /\ Sink!Stop => SinkInv'
<1> SUFFICES ASSUME SinkInv, Sink!Stop PROVE SinkInv'
  OBVIOUS
<1>1. life \in {"started", "playing"} /\ Running /\ UNCHANGED <<kind, before, sessions>>
  BY DEF Sink!Stop, Running
<1>2. SinkTypeInv BY DEF SinkInv
<1> DEFINE Broken == (kind = "crtc" /\ saved = Null) \/ \E j \in 0..1 : bo[j] = 0
<1>3. CASE Broken
  <2>1. Sink!Crash BY <1>3, SinkFrames DEF Sink!Stop
  <2>2. ~Equipped
    <3>1. Equipped => (kind = "crtc" => saved # Null) /\ bo[0] # 0 /\ bo[1] # 0
      BY <1>2, SinkAssumption DEF SinkInv, EquippedInv, SinkTypeInv
    <3> QED BY <1>3, <3>1
  <2>3. enabled => sessions > 1 BY <1>1, <2>2 DEF SinkInv, UsedInv, Equipped, Used
  <2> QED BY <1>1, <2>1, <2>2, <2>3, SinkCrashInv
<1>4. CASE ~Broken
  <2>1. /\ life' = "null"
        /\ \E back \in {Sink!Restored, shown} :
             /\ shown' = (IF back \in fbs THEN Off ELSE back)
             /\ IF back = Sink!Restored THEN faults' = faults ELSE faults < MaxFaults /\ faults' = faults + 1
        /\ objects' = objects \ {bo[j] : j \in 0..1}
        /\ fbs' = {} /\ bo' = [j \in 0..1 |-> 0]
        /\ files' = files - 1 /\ drivers' = drivers - 1
        /\ UNCHANGED <<enabled, showing, saved, drawn, fb, last>>
    <3>1. \A j \in 0..1 : j \in Sink!Released BY SinkFrames DEF Sink!Released
    <3>2. Sink!Released = 0..1 BY SinkFrames DEF Sink!Released
    <3> QED BY <1>4, <3>1, <3>2, SinkFrames DEF Sink!Stop, Sink!NoFault, Sink!Fault
  <2> HIDE DEF Broken
  <2>2. MaxFaults \in Nat /\ faults \in 0..MaxFaults /\ faults \in Nat
        /\ faults' \in 0..MaxFaults /\ faults' \in Nat /\ faults <= faults'
    <3>1. MaxFaults \in Nat /\ faults \in 0..MaxFaults BY <1>2, SinkAssumption DEF SinkTypeInv
    <3> QED BY <2>1, <3>1
  <2>3. files \in Nat /\ files > 0 /\ drivers = 1 /\ sessions > 0 /\ files <= sessions
    BY <1>1, <1>2 DEF SinkInv, LifeInv, SinkTypeInv
  <2>4. ~Used BY <1>4 DEF Used, Broken
  <2>5. ~Equipped' /\ Used' = enabled /\ ~Running' BY <1>2, <2>1 DEF Equipped, Used, Running, SinkTypeInv
  <2>6. shown' = before' \/ (shown' = Off /\ faults' > 0)
    BY <1>1, <1>4, <2>1, <2>4, SinkRestored DEF Broken
  <2>7. IsFiniteSet(objects) /\ Cardinality(objects) \in Nat
        /\ Cardinality(objects') <= Cardinality(objects) /\ Cardinality(objects') \in Nat
    BY <1>2, <2>1, ObjectsFinite, FS_Subset, FS_CardinalityType
  <2>8. SinkTypeInv'
    <3>1. last' <= 2 * (faults' + (IF enabled' THEN 1 ELSE 0))
      <4>1. last \in Nat /\ last <= 2 * (faults + (IF enabled THEN 1 ELSE 0))
        BY <1>2 DEF SinkTypeInv
      <4>2. last <= 2 * (faults' + (IF enabled THEN 1 ELSE 0))
        <5> DEFINE e == IF enabled THEN 1 ELSE 0
        <5>1. e \in 0..1 /\ last <= 2 * (faults + e) BY <4>1
        <5> HIDE DEF e
        <5>2. last <= 2 * (faults' + e) BY <2>2, <4>1, <5>1, MoreFaults
        <5> QED BY <5>2 DEF e
      <4> QED BY <2>1, <4>2
    <3>2. files' \in Nat /\ files' <= sessions' /\ drivers' \in 0..1
      BY <1>1, <1>2, <2>1, <2>3 DEF SinkTypeInv
    <3>3. bo' \in [0..1 -> 0..last'] BY <1>2, <2>1 DEF SinkTypeInv
    <3> QED BY <1>1, <1>2, <2>1, <2>2, <3>1, <3>2, <3>3 DEF SinkTypeInv
  <2>9. LifeInv' BY <1>1, <2>1, <2>3, <2>5 DEF SinkInv, LifeInv
  <2>10. UnsetInv'
    <3> SUFFICES ASSUME ~enabled PROVE UnsetInv'
      BY <2>1 DEF UnsetInv
    <3>1. saved = Null /\ shown = before /\ kind = "plane"
      BY <1>2, <1>4 DEF SinkInv, UnsetInv, Broken, SinkTypeInv
    <3>2. before = Off /\ Off \notin fbs
      BY <1>2, <3>1, NotAmongFbs DEF SinkInv, LifeInv
    <3>3. shown' = before BY <2>1, <3>1, <3>2 DEF Sink!Restored
    <3> QED BY <1>1, <2>1, <3>1, <3>3 DEF UnsetInv
  <2>11. EquippedInv' BY <2>5 DEF EquippedInv
  <2>12. UsedInv'
    <3> SUFFICES ASSUME enabled PROVE UsedInv'
      BY <2>1 DEF UsedInv, Used
    <3>1. Equipped BY <2>4 DEF Equipped, Used
    <3>2. drawn = bo BY <3>1 DEF SinkInv, EquippedInv
    <3>3. \A j \in 0..1 : drawn'[j] \notin objects' BY <2>1, <3>2
    <3> QED BY <1>1, <2>1, <2>3, <2>6, <3>3 DEF UsedInv
  <2>13. CountInv'
    <3>1. CASE ~Equipped
      <4>1. files + Cardinality(objects) <= 2 * (faults + 0) + 1
        BY <1>1, <3>1 DEF SinkInv, CountInv
      <4>2. files' + Cardinality(objects') <= 2 * (faults' + 0) + 0
        BY <2>1, <2>2, <2>3, <2>7, <4>1
      <4> QED BY <2>5, <4>2 DEF CountInv
    <3>2. CASE Equipped
      <4>1. files + Cardinality(objects) <= 2 * (faults + 1) + 1
        BY <1>1, <3>2 DEF SinkInv, CountInv
      <4>2. bo[0] \in objects /\ bo[1] \in objects /\ bo[0] # bo[1]
        BY <3>2 DEF SinkInv, EquippedInv
      <4>3. objects' = (objects \ {bo[0]}) \ {bo[1]} BY <2>1
      <4>4. IsFiniteSet(objects \ {bo[0]}) /\ Cardinality(objects \ {bo[0]}) = Cardinality(objects) - 1
        BY <2>7, <4>2, FS_RemoveElement
      <4>5. Cardinality(objects') = Cardinality(objects) - 1 - 1
        <5>1. bo[1] \in objects \ {bo[0]} BY <4>2
        <5> QED BY <4>3, <4>4, <5>1, FS_RemoveElement
      <4>6. files' + Cardinality(objects') <= 2 * (faults' + 0) + 0
        BY <2>1, <2>2, <2>3, <2>7, <4>1, <4>5
      <4> QED BY <2>5, <4>6 DEF CountInv
    <3> QED BY <3>1, <3>2
  <2> QED BY <2>8, <2>9, <2>10, <2>11, <2>12, <2>13 DEF SinkInv
<1> QED BY <1>3, <1>4

LEMMA SinkStays == SinkInv /\ UNCHANGED sinkVars => SinkInv'
<1> SUFFICES ASSUME SinkInv, UNCHANGED sinkVars PROVE SinkInv'
  OBVIOUS
<1>1. SinkTypeInv' BY DEF SinkInv, SinkTypeInv, sinkVars
<1>2. LifeInv' /\ UnsetInv' BY DEF SinkInv, LifeInv, UnsetInv, Running, sinkVars
<1>3. EquippedInv' /\ UsedInv' BY DEF SinkInv, EquippedInv, UsedInv, Equipped, Used, sinkVars
<1>4. CountInv' BY DEF SinkInv, CountInv, Equipped, Running, sinkVars
<1> QED BY <1>1, <1>2, <1>3, <1>4 DEF SinkInv

\* For every number of sessions and of calls that fail, drmsink and drmplanesink
\* never copy a picture into the frame on the screen, crash only when stopped
\* without caps or used again, and leave the screen as it was (off, if a call has
\* failed), with no more held than the calls that failed explain.
THEOREM SinksAreSafe == AllSpec => []SinkSafe
<1>1. AllInit => SinkInv BY SinkInit_Inv DEF AllInit
<1>2. SinkInv /\ [AllNext]_all => SinkInv'
  <2> SUFFICES ASSUME SinkInv, [AllNext]_all PROVE SinkInv'
    OBVIOUS
  <2>1. CASE Sink!Next
    BY <2>1, SinkStartInv, SinkCapsInv, SinkRenderInv, SinkStopInv DEF Sink!Next
  <2>2. CASE UNCHANGED sinkVars BY <2>2, SinkStays
  <2>3. Sink!Next \/ UNCHANGED sinkVars
    BY DEF AllNext, DrmStep, FramesStep, SinkStep, ClientStep, RelayStep, all
  <2> QED BY <2>1, <2>2, <2>3
<1> QED BY <1>1, <1>2, SinkInv_Safe, PTL DEF AllSpec

-----------------------------------------------------------------------------
(* The relays: each message once, in order and whole, for any number of them *)

\* Once the buffer was cleared it holds nothing but what is read into it.
CarriedInv ==
  /\ R!Carried
  /\ via # "tunnel" /\ ~first => ~dirty

\* The messages of a queue and the next one to come follow the number "after".
InSequence(queue, after, coming) ==
  /\ \A k \in 1..Len(queue) : queue[k].id = (after + k) % 3
  /\ coming = (after + Len(queue) + 1) % 3

\* Counting on from a number modulo three.
LEMMA CountOn ==
  \A a, b \in Nat : ((a % 3) + b) % 3 = (a + b) % 3 /\ a % 3 \in 0..2
OBVIOUS

LEMMA SequenceGrows ==
  ASSUME NEW queue \in Seq(R!Message), NEW after \in 0..2, NEW text \in R!Message,
         InSequence(queue, after, text.id)
  PROVE  /\ Append(queue, text) \in Seq(R!Message) /\ (text.id + 1) % 3 \in 0..2
         /\ InSequence(Append(queue, text), after, (text.id + 1) % 3)
<1> DEFINE longer == Append(queue, text)
<1>1. /\ longer \in Seq(R!Message) /\ Len(longer) = Len(queue) + 1
      /\ longer[Len(queue) + 1] = text /\ \A k \in 1..Len(queue) : longer[k] = queue[k]
      /\ Len(queue) \in Nat /\ after \in Nat
  OBVIOUS
<1> HIDE DEF longer
<1>2. text.id = (after + Len(queue) + 1) % 3 BY DEF InSequence
<1>3. (text.id + 1) % 3 = (after + Len(queue) + 1 + 1) % 3 /\ (text.id + 1) % 3 \in 0..2
  <2>1. after + Len(queue) + 1 \in Nat BY <1>1
  <2>2. text.id + 1 \in Nat BY <2>1, <1>2, CountOn
  <2> QED BY <2>1, <2>2, <1>2, CountOn
<1>4. ASSUME NEW k \in 1..Len(longer) PROVE longer[k].id = (after + k) % 3
  <2>1. CASE k = Len(queue) + 1
    <3>1. after + Len(queue) + 1 = after + k BY <1>1, <2>1
    <3> QED BY <2>1, <3>1, <1>1, <1>2
  <2>2. CASE k \in 1..Len(queue) BY <2>2, <1>1 DEF InSequence
  <2> QED BY <2>1, <2>2, <1>1
<1>5. after + Len(longer) + 1 = after + Len(queue) + 1 + 1 BY <1>1
<1> QED BY <1>1, <1>3, <1>4, <1>5 DEF InSequence, longer

LEMMA SequenceAdvances ==
  ASSUME NEW queue \in Seq(R!Message), NEW after \in 0..2, NEW coming,
         InSequence(queue, after, coming), queue # <<>>
  PROVE  /\ Head(queue) \in R!Message /\ Tail(queue) \in Seq(R!Message)
         /\ InSequence(Tail(queue), Head(queue).id, coming)
<1> DEFINE rest == Tail(queue)
           id == Head(queue).id
<1>1. /\ rest \in Seq(R!Message) /\ Len(rest) = Len(queue) - 1
      /\ \A k \in 1..Len(rest) : rest[k] = queue[k + 1]
      /\ Head(queue) = queue[1] /\ 1 \in 1..Len(queue) /\ Head(queue) \in R!Message
      /\ Len(queue) \in Nat /\ Len(queue) > 0 /\ after \in Nat
  OBVIOUS
<1>2. id = (after + 1) % 3 BY <1>1 DEF InSequence
<1> HIDE DEF rest, id
<1>3. id \in Nat /\ \A k \in Nat : (id + k) % 3 = (after + 1 + k) % 3
  <2>1. after + 1 \in Nat BY <1>1
  <2>2. id \in 0..2 BY <2>1, <1>2, CountOn
  <2> QED BY <2>1, <2>2, <1>2, CountOn
<1>4. ASSUME NEW k \in 1..Len(rest) PROVE rest[k].id = (id + k) % 3
  <2>1. k \in Nat /\ k + 1 \in 1..Len(queue) BY <1>1
  <2>2. queue[k + 1].id = (after + (k + 1)) % 3 BY <2>1 DEF InSequence
  <2>3. after + (k + 1) = after + 1 + k BY <1>1
  <2> QED BY <2>1, <2>2, <2>3, <1>1, <1>3
<1>5. coming = (id + Len(rest) + 1) % 3
  <2>1. coming = (after + Len(queue) + 1) % 3 BY DEF InSequence
  <2>2. (id + Len(queue)) % 3 = (after + 1 + Len(queue)) % 3 BY <1>1, <1>3
  <2>3. id \in Nat BY <1>1, <1>3
  <2>4. after + Len(queue) + 1 = after + 1 + Len(queue) BY <1>1
  <2>5. id + Len(rest) + 1 = id + Len(queue) BY <1>1, <2>3
  <2> QED BY <2>1, <2>2, <2>4, <2>5
<1> QED BY <1>1, <1>4, <1>5 DEF InSequence, rest, id

LEMMA CarriedBySides ==
  R!Carried <=> /\ R!TypeOK
                /\ \A s \in R!Sides : /\ InSequence(waiting[s], passed[s].id, fresh[s])
                                      /\ passed[s].changed # "text"
                                      /\ via = "tunnel" => passed[s].changed = "no"
BY DEF R!Carried, InSequence

LEMMA RelayArrive == ASSUME CarriedInv, NEW s \in R!Sides, R!Arrive(s) PROVE CarriedInv'
<1>1. R!TypeOK /\ InSequence(waiting[s], passed[s].id, fresh[s])
  BY CarriedBySides DEF CarriedInv
<1>2. PICK text \in R!Message :
        text.id = fresh[s] /\ waiting' = [waiting EXCEPT ![s] = Append(@, text)]
  <2>1. fresh[s] \in 0..2 BY <1>1 DEF R!TypeOK
  <2> QED BY <2>1 DEF R!Arrive, R!Message
<1>3. /\ fresh' = [fresh EXCEPT ![s] = (@ + 1) % 3]
      /\ UNCHANGED <<via, ended, place, set, dirty, first, passed, jammed>>
  BY DEF R!Arrive
<1>4. waiting[s] \in Seq(R!Message) /\ passed[s].id \in 0..2 BY <1>1 DEF R!TypeOK
<1>5. waiting'[s] = Append(waiting[s], text) /\ fresh'[s] = (text.id + 1) % 3
  BY <1>1, <1>2, <1>3 DEF R!TypeOK
<1>6. /\ waiting'[s] \in Seq(R!Message) /\ fresh'[s] \in 0..2
      /\ InSequence(waiting'[s], passed[s].id, fresh'[s])
  BY <1>1, <1>2, <1>4, <1>5, SequenceGrows
<1>7. \A t \in R!Sides : t # s => waiting'[t] = waiting[t] /\ fresh'[t] = fresh[t]
  BY <1>1, <1>2, <1>3 DEF R!TypeOK
<1>8. R!TypeOK'
  <2>1. waiting' \in [R!Sides -> Seq(R!Message)] BY <1>1, <1>2, <1>6, <1>7 DEF R!TypeOK
  <2>2. fresh' \in [R!Sides -> 0..2] BY <1>1, <1>3, <1>6, <1>7 DEF R!TypeOK
  <2> QED BY <1>1, <1>3, <2>1, <2>2 DEF R!TypeOK
<1>9. ASSUME NEW t \in R!Sides
      PROVE  /\ InSequence(waiting'[t], passed'[t].id, fresh'[t])
             /\ passed'[t].changed # "text" /\ (via' = "tunnel" => passed'[t].changed = "no")
  BY <1>3, <1>6, <1>7, CarriedBySides DEF CarriedInv
<1>10. R!Carried' BY <1>8, <1>9 DEF R!Carried, InSequence
<1> QED BY <1>3, <1>10 DEF CarriedInv

LEMMA RelayCarry == ASSUME CarriedInv, NEW s \in R!Sides, R!Carry(s) PROVE CarriedInv'
<1>1. R!TypeOK /\ InSequence(waiting[s], passed[s].id, fresh[s])
  BY CarriedBySides DEF CarriedInv
<1> DEFINE text == Head(waiting[s])
           mark(word) == IF word = "exact" THEN "no"
                         ELSE IF text.what = "text" /\ ~first THEN "text" ELSE "unclear"
<1>2. PICK word \in R!Written(text) :
        passed' = [passed EXCEPT ![s] = [id |-> text.id, changed |-> mark(word)]]
  BY DEF R!Carry
<1>3. /\ waiting[s] # <<>> /\ waiting' = [waiting EXCEPT ![s] = Tail(@)]
      /\ place' \in {"B", "wait"} /\ set' = set \ {s}
      /\ dirty' = (via = "tunnel") /\ first' = FALSE
      /\ UNCHANGED <<via, fresh, ended>>
  BY DEF R!Carry, R!Clear
<1>4. waiting[s] \in Seq(R!Message) /\ passed[s].id \in 0..2 BY <1>1 DEF R!TypeOK
<1>5. waiting'[s] = Tail(waiting[s]) BY <1>1, <1>3 DEF R!TypeOK
<1>6. /\ text \in R!Message /\ waiting'[s] \in Seq(R!Message)
      /\ InSequence(waiting'[s], text.id, fresh'[s])
  BY <1>1, <1>3, <1>4, <1>5, SequenceAdvances
<1>7. /\ mark(word) \in {"no", "unclear"}
      /\ via = "tunnel" => mark(word) = "no"
  <2>1. text.what \in {"text", "zero", "full"} BY <1>6 DEF R!Message
  <2>2. CASE via = "tunnel" BY <2>2 DEF R!Written
  <2>3. CASE via # "tunnel" /\ text.what = "text" BY <2>3 DEF R!Written, CarriedInv
  <2>4. CASE via # "tunnel" /\ text.what # "text" BY <2>1, <2>4 DEF R!Written
  <2> QED BY <2>2, <2>3, <2>4
<1> HIDE DEF mark
<1>8. passed'[s] = [id |-> text.id, changed |-> mark(word)] BY <1>1, <1>2 DEF R!TypeOK
<1>9. \A t \in R!Sides : t # s => waiting'[t] = waiting[t] /\ passed'[t] = passed[t]
  BY <1>1, <1>2, <1>3 DEF R!TypeOK
<1>10. R!TypeOK'
  <2>1. waiting' \in [R!Sides -> Seq(R!Message)] BY <1>1, <1>3, <1>6, <1>9 DEF R!TypeOK
  <2>2. text.id \in 0..2 BY <1>6 DEF R!Message
  <2>3. [id |-> text.id, changed |-> mark(word)]
          \in [id : 0..2, changed : {"no", "unclear", "text"}]
    BY <2>2, <1>7
  <2>4. passed' \in [R!Sides -> [id : 0..2, changed : {"no", "unclear", "text"}]]
    BY <1>1, <1>2, <2>3 DEF R!TypeOK
  <2>5. set' \subseteq R!Sides /\ dirty' \in BOOLEAN /\ first' \in BOOLEAN
    BY <1>1, <1>3 DEF R!TypeOK
  <2>6. jammed' \subseteq R!Sides BY <1>1 DEF R!TypeOK, R!Carry
  <2> QED BY <1>1, <1>3, <2>1, <2>4, <2>5, <2>6 DEF R!TypeOK
<1>11. ASSUME NEW t \in R!Sides
       PROVE  /\ InSequence(waiting'[t], passed'[t].id, fresh'[t])
              /\ passed'[t].changed # "text" /\ (via' = "tunnel" => passed'[t].changed = "no")
  <2>1. CASE t = s BY <2>1, <1>3, <1>6, <1>7, <1>8
  <2>2. CASE t # s BY <2>2, <1>3, <1>9, CarriedBySides DEF CarriedInv
  <2> QED BY <2>1, <2>2
<1>12. R!Carried' BY <1>10, <1>11 DEF R!Carried, InSequence
<1> QED BY <1>3, <1>12 DEF CarriedInv

LEMMA RelayStepInv == CarriedInv /\ R!RNext => CarriedInv'
<1> SUFFICES ASSUME CarriedInv, R!RNext PROVE CarriedInv'
  OBVIOUS
<1> USE DEF CarriedInv, R!Carried, R!TypeOK
<1>1. CASE R!Select
  <2>1. R!Readable \subseteq R!Sides BY DEF R!Readable
  <2>2. "A" \in R!Sides BY DEF R!Sides
  <2>3. set' \subseteq R!Sides /\ place' \in {"A", "B"} BY <1>1, <2>1, <2>2 DEF R!Select
  <2> QED BY <1>1, <2>3 DEF R!Select
<1>2. ASSUME NEW s \in R!Sides, R!Carry(s) PROVE CarriedInv' BY <1>2, RelayCarry
<1>3. CASE R!CarryNothing BY <1>3 DEF R!CarryNothing, R!Clear
<1>4. CASE R!Fail BY <1>4 DEF R!Fail
<1>5. CASE R!CloseInput BY <1>5 DEF R!CloseInput
<1>6. ASSUME NEW s \in R!Sides, R!Arrive(s) PROVE CarriedInv' BY <1>6, RelayArrive
<1>7. ASSUME NEW s \in R!Sides, R!Drain(s) PROVE CarriedInv' BY <1>7 DEF R!Drain
<1> QED BY <1>1, <1>2, <1>3, <1>4, <1>5, <1>6, <1>7 DEF R!RNext, R!Loop

\* The relays pass each message on once, in the order of its side, and whole unless
\* strlen() cannot measure it: for any bound on what waits.
THEOREM RelaysCarry == AllSpec => []R!Carried
<1>1. AllInit => CarriedInv
  <2> SUFFICES ASSUME AllInit PROVE CarriedInv
    OBVIOUS
  <2>1. R!RInit BY DEF AllInit
  <2>2. \A s \in R!Sides : /\ waiting[s] = <<>> /\ Len(waiting[s]) = 0 /\ fresh[s] = 0
                           /\ passed[s].id = 2 /\ passed[s].changed = "no"
    BY <2>1 DEF R!RInit
  <2>3. R!TypeOK
    <3>1. waiting \in [R!Sides -> Seq(R!Message)] BY <2>1 DEF R!RInit
    <3>2. fresh \in [R!Sides -> 0..2] BY <2>1 DEF R!RInit
    <3>3. passed \in [R!Sides -> [id : 0..2, changed : {"no", "unclear", "text"}]]
      BY <2>1 DEF R!RInit
    <3> QED BY <2>1, <3>1, <3>2, <3>3 DEF R!RInit, R!TypeOK
  <2>4. first = TRUE BY <2>1 DEF R!RInit
  <2> QED BY <2>2, <2>3, <2>4 DEF CarriedInv, R!Carried
<1>2. CarriedInv /\ [AllNext]_all => CarriedInv'
  <2> SUFFICES ASSUME CarriedInv, [AllNext]_all PROVE CarriedInv'
    OBVIOUS
  <2>1. CASE UNCHANGED relayVars
    BY <2>1 DEF relayVars, CarriedInv, R!Carried, R!TypeOK
  <2>2. R!RNext \/ UNCHANGED relayVars
    BY DEF AllNext, DrmStep, FramesStep, SinkStep, ClientStep, RelayStep, all
  <2> QED BY <2>1, <2>2, RelayStepInv
<1>3. CarriedInv => R!Carried BY DEF CarriedInv
<1> QED BY <1>1, <1>2, <1>3, PTL DEF AllSpec

-----------------------------------------------------------------------------
(* The clients of the echo servers.  Lines have numbers, so that a queue    *)
(* that is in order holds the numbers that follow those before it: what is  *)
(* typed, in the buffer, sent, and under way are such queues, one after the *)
(* other.                                                                   *)

\* The elements of s are the numbers that follow a.
Follow(s, a) == \A k \in 1..Len(s) : s[k] = a + k

LEMMA FollowAppend ==
  ASSUME NEW S, NEW s \in Seq(S), NEW a \in Nat, NEW x \in S, Follow(s, a), x = a + Len(s) + 1
  PROVE  /\ Append(s, x) \in Seq(S) /\ Len(Append(s, x)) = Len(s) + 1
         /\ Follow(Append(s, x), a)
  BY DEF Follow

LEMMA FollowTail ==
  ASSUME NEW S, NEW s \in Seq(S), NEW a \in Nat, Follow(s, a), s # <<>>
  PROVE  /\ Tail(s) \in Seq(S) /\ Len(Tail(s)) = Len(s) - 1
         /\ Head(s) \in S /\ Head(s) = a + 1 /\ Follow(Tail(s), a + 1) /\ Len(s) > 0
<1>1. /\ Tail(s) \in Seq(S) /\ Len(Tail(s)) = Len(s) - 1 /\ Head(s) \in S /\ Len(s) > 0
      /\ Len(s) \in Nat
  BY EmptySeq, HeadTailProperties
<1>2. Head(s) = a + 1
  BY <1>1 DEF Follow
<1>3. ASSUME NEW k \in 1..Len(Tail(s)) PROVE Tail(s)[k] = (a + 1) + k
  <2>1. Tail(s)[k] = s[k + 1]
    BY <1>1
  <2>2. k + 1 \in 1..Len(s)
    BY <1>1
  <2>3. s[k + 1] = a + (k + 1)
    BY <2>2 DEF Follow
  <2> QED
    BY <2>1, <2>3
<1> QED
  BY <1>1, <1>2, <1>3 DEF Follow

LEMMA FollowDrop ==
  ASSUME NEW S, NEW s \in Seq(S), NEW a \in Nat, Follow(s, a), NEW m \in 0..Len(s)
  PROVE  /\ SubSeq(s, m + 1, Len(s)) \in Seq(S) /\ Len(SubSeq(s, m + 1, Len(s))) = Len(s) - m
         /\ Follow(SubSeq(s, m + 1, Len(s)), a + m)
<1> DEFINE t == SubSeq(s, m + 1, Len(s))
<1>1. /\ t \in Seq(S) /\ Len(t) = Len(s) - m
      /\ \A k \in 1..Len(t) : t[k] = s[m + k]
  <2>0. Len(s) \in Nat
    OBVIOUS
  <2>1. \A k \in (m + 1)..Len(s) : s[k] \in S
    BY <2>0
  <2>2. /\ t \in Seq(S)
        /\ Len(t) = IF m + 1 <= Len(s) THEN Len(s) - (m + 1) + 1 ELSE 0
        /\ \A k \in 1..(Len(s) - (m + 1) + 1) : t[k] = s[m + 1 + k - 1]
    BY <2>0, <2>1, SubSeqProperties
  <2>3. Len(t) = Len(s) - m
    BY <2>0, <2>2
  <2> HIDE DEF t
  <2>4. ASSUME NEW k \in 1..Len(t) PROVE t[k] = s[m + k]
    BY <2>0, <2>2, <2>3
  <2> QED
    BY <2>2, <2>3, <2>4
<1> HIDE DEF t
<1>2. ASSUME NEW k \in 1..Len(t) PROVE t[k] = (a + m) + k
  <2>1. m + k \in 1..Len(s) /\ Len(s) \in Nat
    BY <1>1
  <2>2. s[m + k] = a + (m + k)
    BY <2>1 DEF Follow
  <2> QED
    BY <1>1, <2>2
<1>3. Follow(t, a + m)
  BY <1>2 DEF Follow
<1> QED
  BY <1>1, <1>3 DEF t

\* What such a queue holds.
LEMMA FollowSet ==
  ASSUME NEW S, NEW s \in Seq(S), NEW a \in Nat, Follow(s, a)
  PROVE  E!ToSet(s) = (a + 1)..(a + Len(s))
<1>0. Len(s) \in Nat /\ DOMAIN s = 1..Len(s)
  OBVIOUS
<1>1. E!ToSet(s) = {s[k] : k \in 1..Len(s)}
  BY <1>0 DEF E!ToSet
<1>2. ASSUME NEW x \in {s[k] : k \in 1..Len(s)} PROVE x \in (a + 1)..(a + Len(s))
  <2>1. PICK k \in 1..Len(s) : x = s[k]
    OBVIOUS
  <2>2. x = a + k
    BY <2>1 DEF Follow
  <2> QED
    BY <1>0, <2>2
<1>3. ASSUME NEW x \in (a + 1)..(a + Len(s)) PROVE x \in {s[k] : k \in 1..Len(s)}
  <2>1. x - a \in 1..Len(s)
    BY <1>0
  <2>2. s[x - a] = a + (x - a)
    BY <2>1 DEF Follow
  <2>3. s[x - a] = x
    BY <2>2, <1>0
  <2> QED
    BY <2>1, <2>3
<1> QED
  BY <1>1, <1>2, <1>3

\* Lines that have been read from standard input.
LinesRead == typed - Len(kbd) - Len(buf)

InputInv ==
  /\ Len(kbd) + Len(buf) <= typed
  /\ Follow(kbd, typed - Len(kbd)) /\ Follow(buf, LinesRead)

\* A line that is read is the next one.
LEMMA NextLineTakes ==
  ASSUME E!TypeOK, InputInv, NEW l \in E!Ids, E!NextLine(l)
  PROVE  /\ l = LinesRead + 1 /\ LinesRead' = LinesRead + 1 /\ InputInv'
         /\ kbd' \in Seq(E!Ids) /\ buf' \in Seq(E!Ids) /\ typed' = typed /\ closed' = closed
<1>1. /\ kbd \in Seq(E!Ids) /\ buf \in Seq(E!Ids) /\ typed \in Nat
      /\ Len(kbd) \in Nat /\ Len(buf) \in Nat
  BY TypedAssumption DEF E!TypeOK
<1>2. typed' = typed /\ closed' = closed
  BY DEF E!NextLine
<1>3. CASE buf # <<>>
  <2>1. l = Head(buf) /\ buf' = Tail(buf) /\ kbd' = kbd
    BY <1>3 DEF E!NextLine
  <2>2. LinesRead \in Nat /\ Follow(buf, LinesRead)
    BY <1>1 DEF InputInv, LinesRead
  <2>3. /\ Tail(buf) \in Seq(E!Ids) /\ Len(Tail(buf)) = Len(buf) - 1
        /\ Head(buf) = LinesRead + 1 /\ Follow(Tail(buf), LinesRead + 1) /\ Len(buf) > 0
    BY <1>1, <1>3, <2>2, FollowTail
  <2>4. LinesRead' = LinesRead + 1
    BY <1>1, <1>2, <2>1, <2>3 DEF LinesRead
  <2>5. InputInv'
    <3>1. (Len(kbd) + Len(buf) <= typed)'
      BY <1>1, <1>2, <2>1, <2>3 DEF InputInv
    <3>2. Follow(kbd, typed - Len(kbd))'
      BY <1>2, <2>1 DEF InputInv, Follow
    <3>3. Follow(buf', LinesRead')
      BY <2>1, <2>3, <2>4
    <3> QED
      BY <3>1, <3>2, <3>3 DEF InputInv, Follow
  <2> QED
    BY <1>1, <1>2, <2>1, <2>3, <2>4, <2>5
<1>4. CASE buf = <<>>
  <2>0. Len(buf) = 0 /\ Follow(kbd, LinesRead) /\ LinesRead \in Nat /\ LinesRead = typed - Len(kbd)
    BY <1>1, <1>4 DEF InputInv, LinesRead
  <2>1. /\ E!Taken # <<>> /\ l = Head(E!Taken) /\ buf' = Tail(E!Taken)
        /\ kbd' = SubSeq(kbd, Len(E!Taken) + 1, Len(kbd))
    BY <1>4 DEF E!NextLine
  <2>2. kbd # <<>>
    BY <2>1 DEF E!Taken
  <2>3. /\ Len(kbd) > 0 /\ Head(kbd) = LinesRead + 1 /\ Head(kbd) \in E!Ids
    BY <1>1, <2>0, <2>2, FollowTail
  <2>4. /\ E!Taken \in Seq(E!Ids) /\ Follow(E!Taken, LinesRead) /\ Len(E!Taken) \in 0..Len(kbd)
    <3>1. CASE pipe
      BY <3>1, <1>1, <2>0 DEF E!Taken
    <3>2. CASE ~pipe
      <4> DEFINE h == <<Head(kbd)>>
      <4>1. E!Taken = h
        BY <3>2, <2>2 DEF E!Taken
      <4>2. h \in Seq(E!Ids) /\ Len(h) = 1 /\ h[1] = LinesRead + 1
        BY <2>3
      <4> HIDE DEF h
      <4>3. Follow(h, LinesRead)
        BY <4>2, <2>0 DEF Follow
      <4> QED
        BY <1>1, <4>1, <4>2, <4>3, <2>3
    <3> QED
      BY <3>1, <3>2
  <2> DEFINE m == Len(E!Taken)
  <2>5. /\ SubSeq(kbd, m + 1, Len(kbd)) \in Seq(E!Ids)
        /\ Len(SubSeq(kbd, m + 1, Len(kbd))) = Len(kbd) - m
        /\ Follow(SubSeq(kbd, m + 1, Len(kbd)), LinesRead + m)
    BY <1>1, <2>0, <2>4, FollowDrop
  <2>6. /\ Tail(E!Taken) \in Seq(E!Ids) /\ Len(Tail(E!Taken)) = m - 1 /\ Head(E!Taken) = LinesRead + 1
        /\ Follow(Tail(E!Taken), LinesRead + 1) /\ m > 0
    BY <2>0, <2>1, <2>4, FollowTail
  <2>7. m \in Nat
    BY <1>1, <2>4
  <2> HIDE DEF m
  <2>8. /\ kbd' \in Seq(E!Ids) /\ Len(kbd') = Len(kbd) - m /\ Follow(kbd', LinesRead + m)
        /\ buf' \in Seq(E!Ids) /\ Len(buf') = m - 1 /\ Follow(buf', LinesRead + 1)
    BY <2>1, <2>5, <2>6 DEF m
  <2>9. LinesRead' = LinesRead + 1
    BY <1>1, <1>2, <2>0, <2>7, <2>8 DEF LinesRead
  <2>10. InputInv'
    <3>1. (Len(kbd) + Len(buf) <= typed)'
      BY <1>1, <1>2, <2>0, <2>7, <2>8
    <3>2. typed' - Len(kbd') = LinesRead + m
      BY <1>1, <1>2, <2>0, <2>7, <2>8
    <3>3. Follow(kbd', typed' - Len(kbd')) /\ Follow(buf', LinesRead')
      BY <3>2, <2>8, <2>9
    <3> QED
      BY <3>1, <3>3 DEF InputInv, Follow
  <2> QED
    BY <1>2, <2>1, <2>6, <2>8, <2>9, <2>10
<1> QED
  BY <1>3, <1>4

\* What main has taken and not sent, and what the goroutine has read for it.
InLine == IF main = "write" THEN 1 ELSE 0
InOffer == IF cli.at = "offer" THEN 1 ELSE 0

\* What has been read was sent, or is the next to be.
SendingInv ==
  /\ InputInv /\ Follow(sent, 0) /\ Len(sent) <= LinesRead
  /\ main # "done" => Len(sent) + InLine + InOffer = LinesRead
  /\ main = "write" => line = Len(sent) + 1
  /\ cli.at = "offer" => cli.line = LinesRead
  /\ lang # "chan" => cli = E!Nothing /\ net = E!Nothing

LEMMA SendingLengths ==
  ASSUME E!TypeOK
  PROVE  /\ kbd \in Seq(E!Ids) /\ buf \in Seq(E!Ids) /\ sent \in Seq(E!Ids)
         /\ up \in Seq(E!Ids) /\ down \in Seq(E!Ids) /\ displayed \in Seq(E!Ids)
         /\ typed \in Nat /\ Len(kbd) \in Nat /\ Len(buf) \in Nat /\ Len(sent) \in Nat
         /\ Len(up) \in Nat /\ Len(down) \in Nat /\ Len(displayed) \in Nat
         /\ LinesRead \in Int /\ InLine \in 0..1 /\ InOffer \in 0..1 /\ line \in Nat
         /\ typed <= MaxTyped /\ MaxTyped \in Nat
  BY TypedAssumption DEF E!TypeOK, LinesRead, InLine, InOffer

\* The line main writes is one of those typed.
LEMMA LineIsTyped ==
  ASSUME E!TypeOK, SendingInv, main = "write"
  PROVE  line \in E!Ids
<1>1. Len(sent) + 1 <= LinesRead /\ LinesRead <= typed
  <2>1. InLine = 1
    BY DEF InLine
  <2>2. Len(sent) + InLine + InOffer = LinesRead
    BY DEF SendingInv
  <2> QED
    BY <2>1, <2>2, SendingLengths DEF LinesRead
<1> QED
  BY <1>1, SendingLengths DEF SendingInv, E!Ids

LEMMA ClientInit ==
  ASSUME E!EInit
  PROVE  E!TypeOK /\ SendingInv
<1>1. E!TypeOK
  <2>1. <<>> \in Seq(E!Ids) /\ 0 \in 0..MaxTyped
    BY TypedAssumption
  <2>2. E!Nothing \in E!Holding
    BY <2>1 DEF E!Nothing, E!Holding
  <2>3. main \in {"wait", "stdin", "write", "net", "done"} /\ closed \in BOOLEAN /\ pipe \in BOOLEAN
    BY Zenon DEF E!EInit
  <2> QED
    BY <2>1, <2>2, <2>3 DEF E!EInit, E!TypeOK
<1>2. SendingInv
  <2>0. kbd = <<>> /\ buf = <<>> /\ sent = <<>> /\ typed = 0
    BY DEF E!EInit
  <2>1. Len(kbd) = 0 /\ Len(buf) = 0 /\ Len(sent) = 0 /\ typed = 0 /\ LinesRead = 0
    <3>1. Len(kbd) = 0 /\ Len(buf) = 0 /\ Len(sent) = 0
      BY <2>0
    <3>2. typed = 0
      BY <2>0
    <3> QED
      BY ONLY <3>1, <3>2 DEF LinesRead
  <2>2. InputInv
    BY <2>1 DEF InputInv, Follow
  <2>3. InLine = 0 /\ InOffer = 0
    BY DEF E!EInit, InLine, InOffer, E!Nothing
  <2>4. Follow(sent, 0)
    BY <2>1 DEF Follow
  <2> QED
    BY <2>1, <2>2, <2>3, <2>4 DEF SendingInv, E!EInit, E!Nothing
<1> QED
  BY <1>1, <1>2

\* A step that leaves all this as it is.
LEMMA SendingSame ==
  ASSUME SendingInv, typed' = typed, kbd' = kbd, buf' = buf, sent' = sent, cli' = cli,
         lang' = lang, main' \in {main, "done"}, main = "write" => line' = line,
         net' = net \/ lang = "chan"
  PROVE  SendingInv'
<1>1. LinesRead' = LinesRead /\ InputInv'
  <2>1. LinesRead' = LinesRead
    BY DEF LinesRead
  <2>2. Follow(kbd', typed' - Len(kbd')) /\ Follow(buf', LinesRead')
    BY <2>1, Zenon DEF SendingInv, InputInv
  <2>3. (Len(kbd) + Len(buf) <= typed)'
    BY DEF SendingInv, InputInv
  <2> QED
    BY <2>1, <2>2, <2>3 DEF InputInv, Follow
<1>2. InOffer' = InOffer /\ Follow(sent, 0)' /\ (Len(sent) <= LinesRead)'
  BY <1>1 DEF InOffer, SendingInv, Follow
<1>3. main' # "done" => InLine' = InLine
  BY DEF InLine
<1>4. (main # "done" => Len(sent) + InLine + InOffer = LinesRead)'
  BY <1>1, <1>2, <1>3 DEF SendingInv
<1>5. /\ (main = "write" => line = Len(sent) + 1)' /\ (cli.at = "offer" => cli.line = LinesRead)'
      /\ (lang # "chan" => cli = E!Nothing /\ net = E!Nothing)'
  BY <1>1 DEF SendingInv
<1> QED
  BY <1>1, <1>2, <1>4, <1>5 DEF SendingInv

\* The same, when main only goes on from one place to another.
LEMMA SendingGoesOn ==
  ASSUME SendingInv, typed' = typed, kbd' = kbd, buf' = buf, sent' = sent, cli' = cli,
         lang' = lang, net' = net, main # "write", main # "done", main' # "write"
  PROVE  SendingInv'
<1>1. LinesRead' = LinesRead /\ InputInv'
  <2>1. LinesRead' = LinesRead
    BY DEF LinesRead
  <2>2. Follow(kbd', typed' - Len(kbd')) /\ Follow(buf', LinesRead')
    BY <2>1, Zenon DEF SendingInv, InputInv
  <2>3. (Len(kbd) + Len(buf) <= typed)'
    BY DEF SendingInv, InputInv
  <2> QED
    BY <2>1, <2>2, <2>3 DEF InputInv, Follow
<1>2. InOffer' = InOffer /\ InLine' = InLine /\ Follow(sent, 0)' /\ (Len(sent) <= LinesRead)'
  BY <1>1 DEF InOffer, InLine, SendingInv, Follow
<1>3. (main # "done" => Len(sent) + InLine + InOffer = LinesRead)'
  BY <1>1, <1>2 DEF SendingInv
<1>4. /\ (main = "write" => line = Len(sent) + 1)' /\ (cli.at = "offer" => cli.line = LinesRead)'
      /\ (lang # "chan" => cli = E!Nothing /\ net = E!Nothing)'
  BY <1>1 DEF SendingInv
<1> QED
  BY <1>1, <1>2, <1>3, <1>4 DEF SendingInv

LEMMA TypeStep ==
  ASSUME E!TypeOK, SendingInv, E!Type
  PROVE  E!TypeOK' /\ SendingInv'
<1> USE SendingLengths
<1>1. /\ typed < MaxTyped /\ typed' = typed + 1 /\ kbd' = Append(kbd, typed + 1)
      /\ UNCHANGED <<lang, pipe, closed, buf, main, ready, line, cli, net, sent, up, down,
                     server, displayed, dropped>>
  BY DEF E!Type, E!goVars, E!netVars
<1>2. typed + 1 \in E!Ids /\ typed' \in 0..MaxTyped
  BY <1>1 DEF E!Ids
<1>3. /\ Len(kbd) <= typed /\ Follow(kbd, typed - Len(kbd)) /\ Len(kbd) + Len(buf) <= typed
      /\ typed - Len(kbd) \in Nat
  BY DEF SendingInv, InputInv
<1>4. /\ kbd' \in Seq(E!Ids) /\ Len(kbd') = Len(kbd) + 1 /\ Follow(kbd', typed - Len(kbd))
  <2> DEFINE a == typed - Len(kbd)
  <2>1. typed + 1 = a + Len(kbd) + 1 /\ a \in Nat /\ Follow(kbd, a)
    BY <1>3
  <2>2. kbd \in Seq(E!Ids) /\ kbd' = Append(kbd, typed + 1)
    BY <1>1
  <2> HIDE DEF a
  <2>3. /\ Append(kbd, typed + 1) \in Seq(E!Ids) /\ Len(Append(kbd, typed + 1)) = Len(kbd) + 1
        /\ Follow(Append(kbd, typed + 1), a)
    BY ONLY <1>2, <2>1, <2>2, FollowAppend
  <2> QED
    BY <2>2, <2>3 DEF a
<1>5. LinesRead' = LinesRead /\ typed' - Len(kbd') = typed - Len(kbd)
  <2>1. Len(buf') = Len(buf) /\ Len(kbd') = Len(kbd) + 1 /\ typed' = typed + 1
    BY <1>1, <1>4
  <2>2. typed \in Nat /\ Len(kbd) \in Nat /\ Len(buf) \in Nat
    OBVIOUS
  <2> QED
    BY ONLY <2>1, <2>2 DEF LinesRead
<1>6. InputInv'
  <2>1. (Len(kbd) + Len(buf) <= typed)'
    BY <1>1, <1>3, <1>4
  <2>2. Follow(kbd', typed' - Len(kbd'))
    BY <1>4, <1>5
  <2>3. Follow(buf', LinesRead')
    BY <1>1, <1>5 DEF SendingInv, InputInv
  <2> QED
    BY <2>1, <2>2, <2>3 DEF InputInv, Follow
<1>7. E!TypeOK'
  BY <1>1, <1>2, <1>4 DEF E!TypeOK
<1>8. SendingInv'
  <2>1. InLine' = InLine /\ InOffer' = InOffer /\ Follow(sent, 0)'
    BY <1>1 DEF InLine, InOffer, SendingInv, Follow
  <2> QED
    BY <1>1, <1>5, <1>6, <2>1 DEF SendingInv
<1> QED
  BY <1>7, <1>8

LEMMA ReadLineStep ==
  ASSUME E!TypeOK, SendingInv, E!ReadLine
  PROVE  E!TypeOK' /\ SendingInv'
<1> USE SendingLengths
<1>1. /\ lang # "chan" /\ main = "stdin"
      /\ UNCHANGED <<lang, pipe, cli, net, sent, up, down, server, displayed, dropped>>
  BY DEF E!ReadLine, E!goVars, E!netVars
<1>2. ASSUME NEW l \in E!Ids, E!NextLine(l), line' = l, main' = "write", ready' = ready
      PROVE  E!TypeOK' /\ SendingInv'
  <2>1. /\ l = LinesRead + 1 /\ LinesRead' = LinesRead + 1 /\ InputInv'
        /\ kbd' \in Seq(E!Ids) /\ buf' \in Seq(E!Ids) /\ typed' = typed /\ closed' = closed
    BY <1>2, NextLineTakes DEF SendingInv
  <2>2. E!TypeOK'
    <3>1. l \in 0..MaxTyped
      BY DEF E!Ids
    <3> QED
      BY <1>1, <1>2, <2>1, <3>1 DEF E!TypeOK
  <2>3. InLine' = 1 /\ InLine = 0 /\ InOffer' = 0 /\ InOffer = 0
    BY <1>1, <1>2 DEF InLine, InOffer, SendingInv, E!Nothing
  <2>4. Len(sent) = LinesRead /\ Follow(sent, 0)
    BY <1>1, <2>3 DEF SendingInv
  <2>5. Follow(sent', 0) /\ Len(sent') = Len(sent)
    BY <1>1, <2>4
  <2>6. /\ (Len(sent) <= LinesRead)' /\ (main # "done" => Len(sent) + InLine + InOffer = LinesRead)'
        /\ (main = "write" => line = Len(sent) + 1)'
    BY <1>2, <2>1, <2>3, <2>4, <2>5
  <2>7. /\ (cli.at = "offer" => cli.line = LinesRead)'
        /\ (lang # "chan" => cli = E!Nothing /\ net = E!Nothing)'
    BY <1>1 DEF SendingInv, E!Nothing
  <2> QED
    BY <2>1, <2>2, <2>5, <2>6, <2>7 DEF SendingInv, Follow
<1>3. CASE E!NoLine /\ E!Finish /\ UNCHANGED <<E!inVars, line>>
  <2>1. main' = "done" /\ ready' = {} /\ UNCHANGED <<typed, closed, kbd, buf, line>>
    BY <1>3 DEF E!Finish, E!Goto, E!inVars
  <2>2. SendingInv'
    BY <1>1, <2>1, SendingSame
  <2> QED
    BY <1>1, <2>1, <2>2 DEF E!TypeOK
<1> QED
  BY <1>2, <1>3 DEF E!ReadLine, E!Goto

LEMMA WriteLineStep ==
  ASSUME E!TypeOK, SendingInv, E!WriteLine
  PROVE  E!TypeOK' /\ SendingInv'
<1> USE SendingLengths
<1>1. /\ main = "write" /\ line' = 0
      /\ UNCHANGED <<lang, pipe, typed, closed, kbd, buf, cli, net, displayed, dropped>>
  BY DEF E!WriteLine, E!goVars, E!inVars
<1>2. line \in E!Ids /\ line = Len(sent) + 1
  BY <1>1, LineIsTyped DEF SendingInv
<1>3. LinesRead' = LinesRead /\ InputInv' /\ InOffer' = InOffer /\ InLine = 1
  BY <1>1 DEF LinesRead, InputInv, InOffer, InLine, SendingInv, Follow
<1>4. CASE E!Write(line) /\ main' \in {"net", "wait"} /\ ready' = ready
  <2>1. /\ sent' = Append(sent, line) /\ server' \in {server, "reset"} /\ down' = down
        /\ up' \in {up, Append(up, line)}
    BY <1>4 DEF E!Write
  <2>2. sent' \in Seq(E!Ids) /\ Len(sent') = Len(sent) + 1 /\ Follow(sent', 0)
    <3>1. line = 0 + Len(sent) + 1 /\ 0 \in Nat /\ Follow(sent, 0)
      BY <1>2 DEF SendingInv
    <3> QED
      BY <1>2, <2>1, <3>1, FollowAppend
  <2>3. up' \in Seq(E!Ids)
    <3>1. Append(up, line) \in Seq(E!Ids) /\ up \in Seq(E!Ids)
      BY <1>2
    <3> QED
      BY <2>1, <3>1
  <2>4. E!TypeOK'
    <3>1. main' \in {"wait", "stdin", "write", "net", "done"} /\ server' \in {"up", "gone", "reset"}
      BY <1>4, <2>1 DEF E!TypeOK
    <3>2. line' \in 0..MaxTyped
      BY <1>1
    <3> QED
      BY <1>1, <1>4, <2>1, <2>2, <2>3, <3>1, <3>2 DEF E!TypeOK
  <2>5. InLine' = 0
    BY <1>4 DEF InLine
  <2>6. Len(sent) + 1 + InOffer = LinesRead
    BY <1>1, <1>3 DEF SendingInv
  <2>7. /\ (Len(sent) <= LinesRead)' /\ (main # "done" => Len(sent) + InLine + InOffer = LinesRead)'
    BY <1>3, <2>2, <2>5, <2>6
  <2>8. /\ (main = "write" => line = Len(sent) + 1)' /\ (cli.at = "offer" => cli.line = LinesRead)'
        /\ (lang # "chan" => cli = E!Nothing /\ net = E!Nothing)'
    BY <1>1, <1>3, <1>4 DEF SendingInv
  <2> QED
    BY <1>3, <2>2, <2>4, <2>7, <2>8 DEF SendingInv, Follow
<1>5. CASE server = "reset" /\ E!Finish /\ UNCHANGED E!netVars
  <2>1. main' = "done" /\ ready' = {} /\ UNCHANGED <<sent, up, down, server>>
    BY <1>5 DEF E!Finish, E!Goto, E!netVars
  <2>2. InputInv' /\ Follow(sent', 0) /\ (Len(sent) <= LinesRead)'
    BY <1>3, <2>1 DEF SendingInv
  <2>3. /\ (main = "write" => line = Len(sent) + 1)' /\ (cli.at = "offer" => cli.line = LinesRead)'
        /\ (lang # "chan" => cli = E!Nothing /\ net = E!Nothing)' /\ main' = "done"
    BY <1>1, <1>3, <2>1 DEF SendingInv
  <2>4. SendingInv'
    BY <2>2, <2>3 DEF SendingInv, Follow
  <2>5. line' \in 0..MaxTyped
    BY <1>1
  <2> QED
    BY <1>1, <2>1, <2>4, <2>5 DEF E!TypeOK
<1> QED
  BY <1>4, <1>5 DEF E!WriteLine, E!Goto

LEMMA FromCliStep ==
  ASSUME E!TypeOK, SendingInv, E!FromCli
  PROVE  E!TypeOK' /\ SendingInv'
<1> USE SendingLengths
<1>1. /\ lang = "chan" /\ main = "wait"
      /\ UNCHANGED <<lang, pipe, typed, closed, kbd, buf, net, sent, up, down, server, displayed,
                     dropped>>
  BY DEF E!FromCli, E!inVars, E!netVars
<1>2. CASE cli.at = "offer" /\ line' = cli.line /\ cli' = E!Nothing /\ main' = "write" /\ ready' = ready
  <2>1. LinesRead' = LinesRead /\ InputInv' /\ Follow(sent', 0)
    BY <1>1 DEF LinesRead, InputInv, SendingInv, Follow
  <2>2. InLine = 0 /\ InLine' = 1 /\ InOffer = 1 /\ InOffer' = 0
    BY <1>1, <1>2 DEF InLine, InOffer, E!Nothing
  <2>3. Len(sent) + 1 = LinesRead /\ line' = LinesRead
    BY <1>1, <1>2, <2>2 DEF SendingInv
  <2>4. /\ (Len(sent) <= LinesRead)' /\ (main # "done" => Len(sent) + InLine + InOffer = LinesRead)'
        /\ (main = "write" => line = Len(sent) + 1)'
    BY <1>1, <2>1, <2>2, <2>3
  <2>5. /\ (cli.at = "offer" => cli.line = LinesRead)'
        /\ (lang # "chan" => cli = E!Nothing /\ net = E!Nothing)'
    BY <1>1, <1>2 DEF E!Nothing
  <2>6. SendingInv'
    BY <2>1, <2>4, <2>5 DEF SendingInv, Follow
  <2>7. line' \in 0..MaxTyped /\ cli' \in E!Holding
    BY <1>2 DEF E!TypeOK, E!Holding, E!Nothing
  <2> QED
    BY <1>1, <1>2, <2>6, <2>7 DEF E!TypeOK
<1>3. CASE cli.at = "closed" /\ E!Finish /\ UNCHANGED <<line, cli>>
  <2>1. main' = "done" /\ ready' = {} /\ line' = line /\ cli' = cli
    BY <1>3 DEF E!Finish, E!Goto
  <2>2. SendingInv'
    BY <1>1, <2>1, SendingSame
  <2> QED
    BY <1>1, <2>1, <2>2 DEF E!TypeOK
<1> QED
  BY <1>2, <1>3 DEF E!FromCli, E!Goto

LEMMA HandleCliStep ==
  ASSUME E!TypeOK, SendingInv, E!HandleCli
  PROVE  E!TypeOK' /\ SendingInv'
<1> USE SendingLengths
<1>1. /\ lang = "chan" /\ main # "done" /\ cli.at = "read"
      /\ UNCHANGED <<lang, pipe, main, ready, line, net, sent, up, down, server, displayed, dropped>>
  BY DEF E!HandleCli, E!netVars
<1>2. ASSUME NEW l \in E!Ids, E!NextLine(l), cli' = [at |-> "offer", line |-> l]
      PROVE  E!TypeOK' /\ SendingInv'
  <2>1. /\ l = LinesRead + 1 /\ LinesRead' = LinesRead + 1 /\ InputInv'
        /\ kbd' \in Seq(E!Ids) /\ buf' \in Seq(E!Ids) /\ typed' = typed /\ closed' = closed
    BY <1>2, NextLineTakes DEF SendingInv
  <2>2. E!TypeOK'
    <3>1. cli' \in E!Holding
      BY <1>2 DEF E!Holding, E!Ids
    <3> QED
      BY <1>1, <2>1, <3>1 DEF E!TypeOK
  <2>3. InLine' = InLine /\ InOffer' = 1 /\ InOffer = 0 /\ cli'.line = l
    BY <1>1, <1>2 DEF InLine, InOffer
  <2>4. Len(sent) + InLine = LinesRead /\ Len(sent) <= LinesRead /\ Follow(sent, 0)
    BY <1>1, <2>3 DEF SendingInv
  <2>5. Follow(sent', 0) /\ Len(sent') = Len(sent)
    BY <1>1, <2>4
  <2>6. /\ (Len(sent) <= LinesRead)' /\ (main # "done" => Len(sent) + InLine + InOffer = LinesRead)'
    BY <2>1, <2>3, <2>4, <2>5
  <2>7. /\ (cli.at = "offer" => cli.line = LinesRead)' /\ (main = "write" => line = Len(sent) + 1)'
        /\ (lang # "chan" => cli = E!Nothing /\ net = E!Nothing)'
    BY <1>1, <2>1, <2>3 DEF SendingInv
  <2> QED
    BY <2>1, <2>2, <2>5, <2>6, <2>7 DEF SendingInv, Follow
<1>3. CASE E!NoLine /\ cli' = [cli EXCEPT !.at = "closed"] /\ UNCHANGED E!inVars
  <2>1. /\ UNCHANGED <<typed, closed, kbd, buf>> /\ cli'.at = "closed" /\ cli' \in E!Holding
    BY <1>3 DEF E!inVars, E!TypeOK, E!Holding
  <2>2. LinesRead' = LinesRead /\ InputInv' /\ Follow(sent', 0)
    BY <1>1, <2>1 DEF LinesRead, InputInv, SendingInv, Follow
  <2>3. InLine' = InLine /\ InOffer' = 0 /\ InOffer = 0
    BY <1>1, <2>1 DEF InLine, InOffer
  <2>4. SendingInv'
    BY <1>1, <2>1, <2>2, <2>3 DEF SendingInv, Follow
  <2> QED
    BY <1>1, <2>1, <2>4 DEF E!TypeOK
<1> QED
  BY <1>2, <1>3 DEF E!HandleCli

\* What main shows: the echoes up to the r-th have left the connection.
UnderWayInv(r) ==
  /\ r + Len(down) + Len(up) <= Len(sent)
  /\ server = "up" => r + Len(down) + Len(up) = Len(sent)
  /\ server # "up" => Len(up) = 0
  /\ Follow(down, r) /\ Follow(up, r + Len(down))
  /\ lang \in {"simple", "std"} => Len(down) + Len(up) <= 1
  /\ lang \in {"simple", "std"} /\ main \in {"stdin", "write"} => Len(down) + Len(up) = 0

Rising(s) == \A j, k \in 1..Len(s) : j < k => s[j] < s[k]

ShowingInv(r) ==
  /\ Rising(displayed)
  /\ \A k \in 1..Len(displayed) : displayed[k] <= r
  /\ net.at = "offer" =>
       net.line \in 1..r /\ \A k \in 1..Len(displayed) : displayed[k] < net.line
  /\ E!ToSet(displayed) \cup dropped \cup E!InHand(net) = 1..r
  /\ lang # "chan" => dropped = {} /\ Len(displayed) = r

LEMMA RisingAppend ==
  ASSUME NEW s \in Seq(E!Ids), NEW x \in E!Ids, Rising(s), \A k \in 1..Len(s) : s[k] < x
  PROVE  /\ Append(s, x) \in Seq(E!Ids) /\ Len(Append(s, x)) = Len(s) + 1
         /\ \A k \in 1..Len(s) : Append(s, x)[k] = s[k]
         /\ Append(s, x)[Len(s) + 1] = x
         /\ Rising(Append(s, x)) /\ E!ToSet(Append(s, x)) = E!ToSet(s) \cup {x}
<1> DEFINE t == Append(s, x)
<1>1. /\ t \in Seq(E!Ids) /\ Len(t) = Len(s) + 1 /\ Len(s) \in Nat
      /\ \A k \in 1..Len(s) : t[k] = s[k]
      /\ t[Len(s) + 1] = x /\ DOMAIN t = 1..Len(t) /\ DOMAIN s = 1..Len(s)
  OBVIOUS
<1> HIDE DEF t
<1>2. ASSUME NEW j \in 1..Len(t), NEW k \in 1..Len(t), j < k PROVE t[j] < t[k]
  <2>1. j \in 1..Len(s) /\ t[j] = s[j]
    BY <1>1, <1>2
  <2>2. CASE k = Len(s) + 1
    BY <1>1, <2>1, <2>2
  <2>3. CASE k \in 1..Len(s)
    BY <1>1, <1>2, <2>1, <2>3 DEF Rising
  <2> QED
    BY <1>1, <2>2, <2>3
<1>3. Rising(t)
  BY <1>2 DEF Rising
<1>4. E!ToSet(t) = E!ToSet(s) \cup {x}
  <2>1. E!ToSet(t) = {t[k] : k \in 1..(Len(s) + 1)} /\ E!ToSet(s) = {s[k] : k \in 1..Len(s)}
    BY <1>1 DEF E!ToSet
  <2>2. 1..(Len(s) + 1) = 1..Len(s) \cup {Len(s) + 1}
    BY <1>1
  <2>3. {t[k] : k \in 1..Len(s) \cup {Len(s) + 1}} = {s[k] : k \in 1..Len(s)} \cup {x}
    BY <1>1
  <2> QED
    BY <2>1, <2>2, <2>3
<1> QED
  BY <1>1, <1>3, <1>4 DEF t

\* A step that neither sends nor shows.
LEMMA EchoesSame ==
  ASSUME NEW r \in Nat, UnderWayInv(r), ShowingInv(r),
         UNCHANGED <<lang, net, sent, up, down, server, displayed, dropped>>,
         main' \in {"stdin", "write"} => \/ main \in {"stdin", "write"}
                                        \/ lang \in {"select", "chan"}
  PROVE  \E q \in Nat : UnderWayInv(q)' /\ ShowingInv(q)'
<1>1. UnderWayInv(r)'
  <2>1. /\ (r + Len(down) + Len(up) <= Len(sent))'
        /\ (server = "up" => r + Len(down) + Len(up) = Len(sent))'
        /\ (server # "up" => Len(up) = 0)'
        /\ (lang \in {"simple", "std"} => Len(down) + Len(up) <= 1)'
    BY DEF UnderWayInv
  <2>2. Follow(down', r) /\ Follow(up', r + Len(down'))
    BY Zenon DEF UnderWayInv
  <2>3. (lang \in {"simple", "std"} /\ main \in {"stdin", "write"} => Len(down) + Len(up) = 0)'
    BY DEF UnderWayInv
  <2> QED
    BY <2>1, <2>2, <2>3 DEF UnderWayInv, Follow
<1>2. ShowingInv(r)'
  BY DEF ShowingInv, Rising, E!ToSet, E!InHand
<1> QED
  BY <1>1, <1>2

LEMMA ServeStep ==
  ASSUME E!TypeOK, SendingInv, NEW r \in Nat, UnderWayInv(r), ShowingInv(r), E!Serve
  PROVE  E!TypeOK' /\ SendingInv' /\ \E q \in Nat : UnderWayInv(q)' /\ ShowingInv(q)'
<1>1. /\ server = "up" /\ up # <<>> /\ up' = Tail(up) /\ down' = Append(down, Head(up))
      /\ UNCHANGED <<lang, pipe, typed, closed, kbd, buf, main, ready, line, cli, net, sent,
                     server, displayed, dropped>>
  BY DEF E!Serve, E!goVars, E!inVars
<1>2. /\ up \in Seq(E!Ids) /\ down \in Seq(E!Ids)
      /\ Len(up) \in Nat /\ Len(down) \in Nat /\ Len(sent) \in Nat
  BY SendingLengths
<1>3. /\ r + Len(down) + Len(up) = Len(sent) /\ Follow(down, r) /\ Follow(up, r + Len(down))
      /\ r + Len(down) \in Nat
  BY <1>1, <1>2 DEF UnderWayInv
<1>4. /\ up' \in Seq(E!Ids) /\ Len(up') = Len(up) - 1 /\ Head(up) \in E!Ids
      /\ Head(up) = r + Len(down) + 1 /\ Follow(up', r + Len(down) + 1)
  BY <1>1, <1>2, <1>3, FollowTail
<1>5. /\ down' \in Seq(E!Ids) /\ Len(down') = Len(down) + 1 /\ Follow(down', r)
  BY <1>1, <1>2, <1>3, <1>4, FollowAppend
<1>6. UnderWayInv(r)'
  <2>1. Follow(up', r + Len(down'))
    <3>1. r + Len(down') = r + Len(down) + 1
      BY <1>2, <1>5
    <3> QED
      BY <1>4, <3>1
  <2>2. /\ (r + Len(down) + Len(up) <= Len(sent))'
        /\ (server = "up" => r + Len(down) + Len(up) = Len(sent))'
        /\ (server # "up" => Len(up) = 0)'
        /\ (lang \in {"simple", "std"} => Len(down) + Len(up) <= 1)'
        /\ (lang \in {"simple", "std"} /\ main \in {"stdin", "write"} => Len(down) + Len(up) = 0)'
    BY <1>1, <1>2, <1>3, <1>4, <1>5 DEF UnderWayInv
  <2> QED
    BY <1>5, <2>1, <2>2 DEF UnderWayInv, Follow
<1>7. ShowingInv(r)'
  BY <1>1 DEF ShowingInv, Rising, E!ToSet, E!InHand
<1>8. SendingInv'
  BY <1>1, SendingSame
<1>9. E!TypeOK'
  BY <1>1, <1>4, <1>5 DEF E!TypeOK
<1> QED
  BY <1>6, <1>7, <1>8, <1>9

LEMMA ServerEndsStep ==
  ASSUME E!TypeOK, SendingInv, NEW r \in Nat, UnderWayInv(r), ShowingInv(r), E!ServerEnds
  PROVE  E!TypeOK' /\ SendingInv' /\ \E q \in Nat : UnderWayInv(q)' /\ ShowingInv(q)'
<1>1. /\ server' = "gone" /\ up' = <<>>
      /\ UNCHANGED <<lang, pipe, typed, closed, kbd, buf, main, ready, line, cli, net, sent,
                     down, displayed, dropped>>
  BY DEF E!ServerEnds, E!goVars, E!inVars
<1>2. Len(up) \in Nat /\ Len(down) \in Nat /\ Len(sent) \in Nat
  BY SendingLengths
<1>3. up' \in Seq(E!Ids) /\ Len(up') = 0
  BY <1>1
<1>4. UnderWayInv(r)'
  <2>1. Follow(up', r + Len(down'))
    BY <1>3 DEF Follow
  <2>2. Follow(down', r)
    BY <1>1 DEF UnderWayInv
  <2>3. /\ (r + Len(down) + Len(up) <= Len(sent))' /\ server' # "up"
        /\ (server # "up" => Len(up) = 0)'
        /\ (lang \in {"simple", "std"} => Len(down) + Len(up) <= 1)'
        /\ (lang \in {"simple", "std"} /\ main \in {"stdin", "write"} => Len(down) + Len(up) = 0)'
    BY <1>1, <1>2, <1>3 DEF UnderWayInv
  <2> QED
    BY <2>1, <2>2, <2>3 DEF UnderWayInv, Follow
<1>5. ShowingInv(r)'
  BY <1>1 DEF ShowingInv, Rising, E!ToSet, E!InHand
<1>6. SendingInv'
  BY <1>1, SendingSame
<1>7. E!TypeOK'
  BY <1>1, <1>3 DEF E!TypeOK
<1> QED
  BY <1>4, <1>5, <1>6, <1>7

\* A line that is sent follows those under way.
LEMMA WriteLineEchoes ==
  ASSUME E!TypeOK, SendingInv, NEW r \in Nat, UnderWayInv(r), ShowingInv(r), E!WriteLine
  PROVE  \E q \in Nat : UnderWayInv(q)' /\ ShowingInv(q)'
<1>1. main = "write" /\ UNCHANGED <<lang, net, displayed, dropped>>
  BY DEF E!WriteLine, E!goVars
<1>2. /\ up \in Seq(E!Ids) /\ sent \in Seq(E!Ids)
      /\ Len(up) \in Nat /\ Len(down) \in Nat /\ Len(sent) \in Nat
  BY SendingLengths
<1>3. line \in E!Ids /\ line = Len(sent) + 1
  BY <1>1, LineIsTyped DEF SendingInv
<1>4. ShowingInv(r)'
  BY <1>1 DEF ShowingInv, Rising, E!ToSet, E!InHand
<1>5. CASE E!Write(line) /\ main' = CASE lang = "select" -> IF "net" \in ready THEN "net" ELSE "wait"
                                      [] lang = "chan" -> "wait"
                                      [] OTHER -> "net"
  <2>1. sent' = Append(sent, line) /\ down' = down
    BY <1>5 DEF E!Write
  <2>2. Len(sent') = Len(sent) + 1 /\ Len(down') = Len(down)
    BY <1>2, <1>3, <2>1
  <2>3. Follow(down', r)
    BY <2>1 DEF UnderWayInv
  <2>4. main' \notin {"stdin", "write"}
    BY <1>5
  <2>5. lang \in {"simple", "std"} => Len(down) + Len(up) = 0
    BY <1>1 DEF UnderWayInv
  <2>6. CASE server = "up"
    <3>1. up' = Append(up, line) /\ server' = "up"
      BY <1>5, <2>6 DEF E!Write
    <3>2. r + Len(down) + Len(up) = Len(sent) /\ Follow(up, r + Len(down)) /\ r + Len(down) \in Nat
      BY <1>2, <2>6 DEF UnderWayInv
    <3>3. line = (r + Len(down)) + Len(up) + 1
      BY <1>2, <1>3, <3>2
    <3>4. Len(up') = Len(up) + 1 /\ Follow(up', r + Len(down))
      BY <1>2, <1>3, <3>1, <3>2, <3>3, FollowAppend
    <3>5. Follow(up', r + Len(down'))
      BY <2>2, <3>4
    <3>6. /\ (r + Len(down) + Len(up) <= Len(sent))'
          /\ (server = "up" => r + Len(down) + Len(up) = Len(sent))'
          /\ (lang \in {"simple", "std"} => Len(down) + Len(up) <= 1)'
      BY <1>1, <1>2, <2>2, <2>5, <3>2, <3>4
    <3>7. UnderWayInv(r)'
      BY <2>3, <2>4, <3>1, <3>5, <3>6 DEF UnderWayInv, Follow
    <3> QED
      BY <1>4, <3>7
  <2>7. CASE server # "up"
    <3>1. up' = up /\ server' = "reset"
      BY <1>5, <2>7 DEF E!Write
    <3>2. Follow(up', r + Len(down')) /\ Len(up') = 0 /\ Len(up) = 0
      BY <2>1, <2>7, <3>1 DEF UnderWayInv
    <3>3. /\ (r + Len(down) + Len(up) <= Len(sent))'
          /\ (lang \in {"simple", "std"} => Len(down) + Len(up) <= 1)'
      BY <1>1, <1>2, <2>2, <2>5, <3>2 DEF UnderWayInv
    <3>4. UnderWayInv(r)'
      BY <2>3, <2>4, <3>1, <3>2, <3>3 DEF UnderWayInv, Follow
    <3> QED
      BY <1>4, <3>4
  <2> QED
    BY <2>6, <2>7
<1>6. CASE E!Finish /\ UNCHANGED E!netVars
  <2>1. main' = "done" /\ UNCHANGED <<sent, up, down, server>>
    BY <1>6 DEF E!Finish, E!Goto, E!netVars
  <2> QED
    BY <1>1, <2>1, EchoesSame
<1> QED
  BY <1>5, <1>6 DEF E!WriteLine, E!Goto

LEMMA ReadNetStep ==
  ASSUME E!TypeOK, SendingInv, NEW r \in Nat, UnderWayInv(r), ShowingInv(r), E!ReadNet
  PROVE  E!TypeOK' /\ SendingInv' /\ \E q \in Nat : UnderWayInv(q)' /\ ShowingInv(q)'
<1>1. /\ lang # "chan" /\ main = "net"
      /\ UNCHANGED <<lang, pipe, typed, closed, kbd, buf, line, cli, net, sent, up, server>>
  BY DEF E!ReadNet, E!goVars, E!inVars
<1>2. /\ down \in Seq(E!Ids) /\ displayed \in Seq(E!Ids)
      /\ Len(up) \in Nat /\ Len(down) \in Nat /\ Len(sent) \in Nat /\ Len(displayed) \in Nat
  BY SendingLengths
<1>3. CASE /\ down # <<>> /\ displayed' = Append(displayed, Head(down))
           /\ down' = IF lang = "simple" THEN <<>> ELSE Tail(down)
           /\ dropped' = IF lang = "simple" THEN dropped \cup E!ToSet(Tail(down)) ELSE dropped
           /\ main' = IF lang = "select" THEN "wait" ELSE "stdin"
           /\ ready' = {}
  <2>1. /\ Tail(down) \in Seq(E!Ids) /\ Len(Tail(down)) = Len(down) - 1 /\ Head(down) \in E!Ids
        /\ Head(down) = r + 1 /\ Follow(Tail(down), r + 1) /\ Len(down) > 0
    BY <1>2, <1>3, FollowTail DEF UnderWayInv
  <2>2. down' = Tail(down) /\ dropped' = dropped
    <3>1. CASE lang = "simple"
      <4>1. Len(Tail(down)) = 0
        BY <1>2, <2>1, <3>1 DEF UnderWayInv
      <4>2. Tail(down) = <<>>
        BY <2>1, <4>1, EmptySeq
      <4>3. E!ToSet(Tail(down)) = {}
        BY <4>2 DEF E!ToSet
      <4> QED
        BY <1>3, <3>1, <4>2, <4>3
    <3> QED
      BY <1>3, <3>1
  <2>3. Rising(displayed) /\ \A k \in 1..Len(displayed) : displayed[k] < r + 1
    <3>1. ASSUME NEW k \in 1..Len(displayed) PROVE displayed[k] < r + 1
      <4>1. displayed[k] <= r /\ displayed[k] \in E!Ids
        BY <1>2 DEF ShowingInv
      <4> QED
        BY <4>1 DEF E!Ids
    <3> QED
      BY <3>1 DEF ShowingInv
  <2>4. /\ displayed' \in Seq(E!Ids) /\ Len(displayed') = Len(displayed) + 1
        /\ \A k \in 1..Len(displayed) : displayed'[k] = displayed[k]
        /\ displayed'[Len(displayed) + 1] = r + 1
        /\ Rising(displayed') /\ E!ToSet(displayed') = E!ToSet(displayed) \cup {r + 1}
    <3>1. r + 1 \in E!Ids /\ displayed' = Append(displayed, r + 1)
      BY <1>3, <2>1
    <3> QED
      BY <1>2, <2>3, <3>1, RisingAppend
  <2>5. UnderWayInv(r + 1)'
    <3>1. Len(down') = Len(down) - 1 /\ up' = up /\ Len(up') = Len(up)
      BY <1>1, <2>1, <2>2
    <3>2. Follow(down', r + 1)
      BY <2>1, <2>2
    <3>3. Follow(up', (r + 1) + Len(down'))
      <4>1. (r + 1) + Len(down') = r + Len(down)
        BY <1>2, <3>1
      <4> QED
        BY <3>1, <4>1 DEF UnderWayInv
    <3>4. /\ (r + 1) + Len(down') + Len(up') = r + Len(down) + Len(up)
          /\ Len(down') + Len(up') = Len(down) + Len(up) - 1
      BY <1>2, <3>1
    <3>5. /\ (r + 1) + Len(down') + Len(up') <= Len(sent')
          /\ (server' = "up" => (r + 1) + Len(down') + Len(up') = Len(sent'))
          /\ (server' # "up" => Len(up') = 0)
      BY <1>1, <3>1, <3>4 DEF UnderWayInv
    <3>6. lang \in {"simple", "std"} => Len(down') + Len(up') = 0
      BY <1>2, <3>4, <2>1 DEF UnderWayInv
    <3> QED
      BY <1>1, <3>2, <3>3, <3>5, <3>6 DEF UnderWayInv, Follow
  <2>6. ShowingInv(r + 1)'
    <3>1. net.at = "read" /\ net' = net
      BY <1>1 DEF SendingInv, E!Nothing
    <3>2. E!InHand(net) = {} /\ E!InHand(net') = {}
      BY <3>1 DEF E!InHand
    <3>3. E!ToSet(displayed) \cup dropped = 1..r
      BY <3>2 DEF ShowingInv
    <3>4. E!ToSet(displayed') \cup dropped' \cup E!InHand(net') = 1..(r + 1)
      <4>1. 1..(r + 1) = 1..r \cup {r + 1}
        OBVIOUS
      <4> QED
        BY <2>2, <2>4, <3>2, <3>3, <4>1
    <3>5. ASSUME NEW k \in 1..Len(displayed') PROVE displayed'[k] <= r + 1
      <4>1. CASE k = Len(displayed) + 1
        BY <2>4, <4>1
      <4>2. CASE k \in 1..Len(displayed)
        <5>1. displayed'[k] = displayed[k] /\ displayed[k] <= r /\ displayed[k] \in E!Ids
          BY <1>2, <2>4, <4>2 DEF ShowingInv
        <5> QED
          BY <5>1 DEF E!Ids
      <4> QED
        BY <1>2, <2>4, <4>1, <4>2
    <3>6. dropped' = {} /\ Len(displayed') = r + 1
      BY <1>1, <2>2, <2>4 DEF ShowingInv
    <3> QED
      BY <2>4, <3>1, <3>4, <3>5, <3>6 DEF ShowingInv
  <2>7. r + 1 \in Nat /\ SendingInv'
    <3>1. main # "write" /\ main # "done" /\ main' # "write"
      BY <1>1, <1>3
    <3> QED
      BY <1>1, <3>1, SendingGoesOn
  <2>8. E!TypeOK'
    <3>1. main' \in {"wait", "stdin", "write", "net", "done"}
      BY <1>3
    <3> QED
      BY <1>1, <1>3, <2>1, <2>2, <2>4, <3>1 DEF E!TypeOK
  <2> QED
    BY <2>5, <2>6, <2>7, <2>8
<1>4. CASE /\ E!EndOfNet /\ UNCHANGED <<down, displayed, dropped>>
           /\ \/ lang = "std" /\ main' = "stdin" /\ ready' = ready
              \/ main' = "done" /\ ready' = {}
  <2>1. Len(down) = 0 /\ Len(up) = 0
    BY <1>4 DEF E!EndOfNet, UnderWayInv
  <2>2. UnderWayInv(r)'
    <3>1. UNCHANGED <<sent, up, down, server, lang>>
      BY <1>1, <1>4
    <3>2. Follow(down', r) /\ Follow(up', r + Len(down'))
      BY <3>1, Zenon DEF UnderWayInv
    <3>3. /\ (r + Len(down) + Len(up) <= Len(sent))'
          /\ (server = "up" => r + Len(down) + Len(up) = Len(sent))'
          /\ (server # "up" => Len(up) = 0)' /\ Len(down') + Len(up') = 0
      BY <2>1, <3>1 DEF UnderWayInv
    <3> QED
      BY <3>2, <3>3 DEF UnderWayInv, Follow
  <2>3. ShowingInv(r)'
    BY <1>1, <1>4 DEF ShowingInv, Rising, E!ToSet, E!InHand
  <2>4. SendingInv'
    <3>1. main # "write" /\ main # "done" /\ main' # "write"
      BY <1>1, <1>4
    <3> QED
      BY <1>1, <3>1, SendingGoesOn
  <2>5. E!TypeOK'
    BY <1>1, <1>4 DEF E!TypeOK
  <2> QED
    BY <2>2, <2>3, <2>4, <2>5
<1>5. \/ /\ down # <<>> /\ displayed' = Append(displayed, Head(down))
         /\ down' = (IF lang = "simple" THEN <<>> ELSE Tail(down))
         /\ dropped' = (IF lang = "simple" THEN dropped \cup E!ToSet(Tail(down)) ELSE dropped)
         /\ main' = (IF lang = "select" THEN "wait" ELSE "stdin") /\ ready' = {}
      \/ /\ E!EndOfNet /\ UNCHANGED <<down, displayed, dropped>>
         /\ \/ lang = "std" /\ main' = "stdin" /\ ready' = ready
            \/ main' = "done" /\ ready' = {}
  BY Zenon DEF E!ReadNet, E!Goto, E!Finish
<1> QED
  BY <1>3, <1>4, <1>5

LEMMA FromNetStep ==
  ASSUME E!TypeOK, SendingInv, NEW r \in Nat, UnderWayInv(r), ShowingInv(r), E!FromNet
  PROVE  E!TypeOK' /\ SendingInv' /\ \E q \in Nat : UnderWayInv(q)' /\ ShowingInv(q)'
<1>1. /\ lang = "chan" /\ main = "wait"
      /\ UNCHANGED <<lang, pipe, typed, closed, kbd, buf, line, cli, sent, up, down, server, dropped>>
  BY DEF E!FromNet, E!inVars, E!netVars
<1>2. displayed \in Seq(E!Ids) /\ Len(displayed) \in Nat
  BY SendingLengths
<1>3. CASE /\ net.at = "offer" /\ displayed' = Append(displayed, net.line) /\ net' = E!Nothing
           /\ main' = main /\ ready' = ready
  <2> DEFINE l == net.line
  <2>1. l \in 1..r /\ l \in E!Ids /\ Rising(displayed) /\ \A k \in 1..Len(displayed) : displayed[k] < l
    <3>1. l \in 1..r /\ l \in 0..MaxTyped
      BY <1>3 DEF ShowingInv, E!TypeOK, E!Holding
    <3>2. l \in E!Ids
      BY <3>1, TypedAssumption DEF E!Ids
    <3> QED
      BY <1>3, <3>1, <3>2 DEF ShowingInv
  <2>2. displayed' = Append(displayed, l) /\ E!InHand(net) = {l}
    BY <1>3 DEF E!InHand
  <2> HIDE DEF l
  <2>3. /\ displayed' \in Seq(E!Ids) /\ Len(displayed') = Len(displayed) + 1
        /\ \A k \in 1..Len(displayed) : displayed'[k] = displayed[k]
        /\ displayed'[Len(displayed) + 1] = l
        /\ Rising(displayed') /\ E!ToSet(displayed') = E!ToSet(displayed) \cup {l}
    BY <1>2, <2>1, <2>2, RisingAppend
  <2>4. net'.at = "read" /\ net' \in E!Holding /\ E!InHand(net') = {}
    <3>1. 0 \in 0..MaxTyped
      BY TypedAssumption
    <3> QED
      BY <1>3, <3>1 DEF E!Nothing, E!Holding, E!InHand
  <2>5. ShowingInv(r)'
    <3>1. E!ToSet(displayed') \cup dropped' \cup E!InHand(net') = 1..r
      BY <1>1, <2>2, <2>3, <2>4 DEF ShowingInv
    <3>2. ASSUME NEW k \in 1..Len(displayed') PROVE displayed'[k] <= r
      <4>1. CASE k = Len(displayed) + 1
        BY <2>1, <2>3, <4>1
      <4>2. CASE k \in 1..Len(displayed)
        BY <2>3, <4>2 DEF ShowingInv
      <4> QED
        BY <1>2, <2>3, <4>1, <4>2
    <3> QED
      BY <1>1, <2>3, <2>4, <3>1, <3>2 DEF ShowingInv
  <2>6. UnderWayInv(r)'
    <3>1. UNCHANGED <<sent, up, down, server, lang>> /\ lang = "chan"
      BY <1>1
    <3>2. Follow(down', r) /\ Follow(up', r + Len(down'))
      BY <3>1, Zenon DEF UnderWayInv
    <3>3. /\ (r + Len(down) + Len(up) <= Len(sent))'
          /\ (server = "up" => r + Len(down) + Len(up) = Len(sent))'
          /\ (server # "up" => Len(up) = 0)' /\ lang' = "chan"
      BY <3>1 DEF UnderWayInv
    <3> QED
      BY <3>2, <3>3 DEF UnderWayInv, Follow
  <2>7. SendingInv'
    BY <1>1, <1>3, SendingSame
  <2>8. E!TypeOK'
    BY <1>1, <1>3, <2>3, <2>4 DEF E!TypeOK
  <2> QED
    BY <2>5, <2>6, <2>7, <2>8
<1>4. CASE E!Finish /\ UNCHANGED <<displayed, net>>
  <2>1. main' = "done" /\ ready' = {} /\ UNCHANGED <<displayed, net>>
    BY <1>4 DEF E!Finish, E!Goto
  <2>2. \E q \in Nat : UnderWayInv(q)' /\ ShowingInv(q)'
    BY <1>1, <2>1, EchoesSame
  <2>3. SendingInv'
    BY <1>1, <2>1, SendingSame
  <2>4. E!TypeOK'
    BY <1>1, <2>1 DEF E!TypeOK
  <2> QED
    BY <2>2, <2>3, <2>4
<1> QED
  BY <1>3, <1>4 DEF E!FromNet

LEMMA HandleNetStep ==
  ASSUME E!TypeOK, SendingInv, NEW r \in Nat, UnderWayInv(r), ShowingInv(r), E!HandleNet
  PROVE  E!TypeOK' /\ SendingInv' /\ \E q \in Nat : UnderWayInv(q)' /\ ShowingInv(q)'
<1>1. /\ lang = "chan" /\ main # "done" /\ net.at = "read"
      /\ UNCHANGED <<lang, pipe, typed, closed, kbd, buf, main, ready, line, cli, sent, up, server,
                     displayed>>
  BY DEF E!HandleNet, E!inVars
<1>2. /\ down \in Seq(E!Ids) /\ displayed \in Seq(E!Ids) /\ MaxTyped \in Nat
      /\ Len(up) \in Nat /\ Len(down) \in Nat /\ Len(sent) \in Nat /\ Len(displayed) \in Nat
  BY SendingLengths
<1>3. E!InHand(net) = {}
  BY <1>1 DEF E!InHand
<1>4. CASE /\ down # <<>> /\ net' = [at |-> "offer", line |-> Head(down)]
           /\ down' = <<>> /\ dropped' = dropped \cup E!ToSet(Tail(down))
  <2> DEFINE d == Len(down)
  <2>1. /\ Tail(down) \in Seq(E!Ids) /\ Len(Tail(down)) = d - 1 /\ Head(down) \in E!Ids
        /\ Head(down) = r + 1 /\ Follow(Tail(down), r + 1) /\ d > 0
    BY <1>2, <1>4, FollowTail DEF UnderWayInv
  <2>2. E!ToSet(Tail(down)) = (r + 2)..(r + d)
    <3>0. r + 1 \in Nat
      OBVIOUS
    <3>1. E!ToSet(Tail(down)) = (r + 1 + 1)..(r + 1 + Len(Tail(down)))
      BY <2>1, <3>0, FollowSet
    <3> QED
      BY <1>2, <2>1, <3>1
  <2>3. E!ToSet(Tail(down)) \subseteq E!Ids
    BY <2>1 DEF E!ToSet
  <2>4. Len(down') = 0 /\ down' \in Seq(E!Ids)
    BY <1>4
  <2>5. PICK q \in Nat : q = r + d
    BY <1>2
  <2>6. UnderWayInv(q)'
    <3>1. Follow(down', q)
      BY <2>4 DEF Follow
    <3>2. Follow(up', q + Len(down'))
      <4>1. q + Len(down') = r + Len(down)
        BY <1>2, <2>4, <2>5
      <4> QED
        BY <1>1, <4>1 DEF UnderWayInv
    <3>3. /\ (q + Len(down') + Len(up') <= Len(sent'))
          /\ (server' = "up" => q + Len(down') + Len(up') = Len(sent'))
          /\ (server' # "up" => Len(up') = 0) /\ lang' = "chan"
      <4>1. q + Len(down') + Len(up') = r + Len(down) + Len(up)
        BY <1>1, <1>2, <2>4, <2>5
      <4> QED
        BY <1>1, <4>1 DEF UnderWayInv
    <3> QED
      BY <3>1, <3>2, <3>3 DEF UnderWayInv, Follow
  <2>7. net'.at = "offer" /\ net'.line = r + 1 /\ E!InHand(net') = {r + 1} /\ net' \in E!Holding
    BY <1>2, <1>4, <2>1 DEF E!InHand, E!Holding, E!Ids
  <2> HIDE DEF d
  <2>8. ShowingInv(q)'
    <3>1. E!ToSet(displayed) \cup dropped = 1..r
      BY <1>3 DEF ShowingInv
    <3>2. 1..q = 1..r \cup {r + 1} \cup (r + 2)..q
      BY <1>2, <2>1, <2>5 DEF d
    <3>3. E!ToSet(displayed') = E!ToSet(displayed)
      BY <1>1
    <3>4. E!ToSet(displayed') \cup dropped' \cup E!InHand(net') = 1..q
      BY <1>4, <2>2, <2>5, <2>7, <3>1, <3>2, <3>3
    <3>5. ASSUME NEW k \in 1..Len(displayed) PROVE displayed[k] <= q /\ displayed[k] < r + 1
      <4>1. displayed[k] <= r /\ displayed[k] \in E!Ids
        BY <1>2 DEF ShowingInv
      <4> QED
        BY <1>2, <2>5, <4>1 DEF E!Ids, d
    <3>6. Rising(displayed')
      BY <1>1 DEF ShowingInv
    <3>7. r + 1 \in 1..q
      BY <1>2, <2>1, <2>5 DEF d
    <3> QED
      BY <1>1, <2>7, <3>4, <3>5, <3>6, <3>7 DEF ShowingInv
  <2>9. SendingInv'
    BY <1>1, SendingSame
  <2>10. E!TypeOK'
    BY <1>1, <1>4, <2>3, <2>4, <2>7 DEF E!TypeOK
  <2> QED
    BY <2>5, <2>6, <2>8, <2>9, <2>10
<1>5. CASE net' = [net EXCEPT !.at = "closed"] /\ UNCHANGED <<down, dropped>>
  <2>1. net'.at = "closed" /\ net' \in E!Holding /\ E!InHand(net') = {}
    BY <1>5 DEF E!TypeOK, E!Holding, E!InHand
  <2>2. UnderWayInv(r)'
    <3>1. UNCHANGED <<sent, up, down, server, lang>> /\ lang = "chan"
      BY <1>1, <1>5
    <3>2. Follow(down', r) /\ Follow(up', r + Len(down'))
      BY <3>1, Zenon DEF UnderWayInv
    <3>3. /\ (r + Len(down) + Len(up) <= Len(sent))'
          /\ (server = "up" => r + Len(down) + Len(up) = Len(sent))'
          /\ (server # "up" => Len(up) = 0)' /\ lang' = "chan"
      BY <3>1 DEF UnderWayInv
    <3> QED
      BY <3>2, <3>3 DEF UnderWayInv, Follow
  <2>3. ShowingInv(r)'
    <3>1. E!ToSet(displayed') = E!ToSet(displayed) /\ dropped' = dropped /\ lang' = lang
      BY <1>1, <1>5
    <3>2. E!ToSet(displayed') \cup dropped' \cup E!InHand(net') = 1..r
      BY <1>3, <2>1, <3>1 DEF ShowingInv
    <3>3. /\ Rising(displayed') /\ \A k \in 1..Len(displayed') : displayed'[k] <= r
          /\ lang' # "chan" => dropped' = {} /\ Len(displayed') = r
      BY <1>1, <3>1 DEF ShowingInv
    <3> QED
      BY <2>1, <3>2, <3>3 DEF ShowingInv
  <2>4. SendingInv'
    BY <1>1, <1>5, SendingSame
  <2>5. E!TypeOK'
    BY <1>1, <1>5, <2>1 DEF E!TypeOK
  <2> QED
    BY <2>2, <2>3, <2>4, <2>5
<1> QED
  BY <1>4, <1>5 DEF E!HandleNet

\* What is typed is sent in order and once, and the echoes are shown so.
ClientInv ==
  E!TypeOK /\ SendingInv /\ \E r \in Nat : UnderWayInv(r) /\ ShowingInv(r)

LEMMA ClientStepInv ==
  ASSUME ClientInv, [E!ENext]_clientVars
  PROVE  ClientInv'
<1>0. E!TypeOK /\ SendingInv
  BY DEF ClientInv
<1>1. PICK r \in Nat : UnderWayInv(r) /\ ShowingInv(r)
  BY DEF ClientInv
<1>2. CASE E!Select
  <2>1. /\ lang = "select" /\ main = "wait" /\ main' \in {"stdin", "net"} /\ ready' \subseteq {"in", "net"}
        /\ UNCHANGED <<lang, pipe, typed, closed, kbd, buf, line, cli, net, sent, up, down, server,
                       displayed, dropped>>
    BY <1>2 DEF E!Select, E!Goto, E!inVars, E!goVars, E!netVars
  <2>2. \E q \in Nat : UnderWayInv(q)' /\ ShowingInv(q)'
    BY <1>1, <2>1, EchoesSame
  <2>3. SendingInv'
    <3>1. main # "write" /\ main # "done" /\ main' # "write"
      BY <2>1
    <3> QED
      BY <1>0, <2>1, <3>1, SendingGoesOn
  <2>4. E!TypeOK'
    BY <1>0, <2>1 DEF E!TypeOK
  <2> QED
    BY <2>2, <2>3, <2>4 DEF ClientInv
<1>3. CASE E!ReadLine
  <2>1. /\ main = "stdin" /\ UNCHANGED <<lang, net, sent, up, down, server, displayed, dropped>>
    BY <1>3 DEF E!ReadLine, E!goVars, E!netVars
  <2>2. \E q \in Nat : UnderWayInv(q)' /\ ShowingInv(q)'
    BY <1>1, <2>1, EchoesSame
  <2> QED
    BY <1>0, <1>3, <2>2, ReadLineStep DEF ClientInv
<1>4. CASE E!WriteLine
  BY <1>0, <1>1, <1>4, WriteLineStep, WriteLineEchoes DEF ClientInv
<1>5. CASE E!ReadNet
  BY <1>0, <1>1, <1>5, ReadNetStep DEF ClientInv
<1>6. CASE E!FromCli
  <2>1. /\ lang = "chan" /\ UNCHANGED <<lang, net, sent, up, down, server, displayed, dropped>>
    BY <1>6 DEF E!FromCli, E!netVars
  <2>2. \E q \in Nat : UnderWayInv(q)' /\ ShowingInv(q)'
    BY <1>1, <2>1, EchoesSame
  <2> QED
    BY <1>0, <1>6, <2>2, FromCliStep DEF ClientInv
<1>7. CASE E!FromNet
  BY <1>0, <1>1, <1>7, FromNetStep DEF ClientInv
<1>8. CASE E!HandleCli
  <2>1. main' = main /\ UNCHANGED <<lang, net, sent, up, down, server, displayed, dropped>>
    BY <1>8 DEF E!HandleCli, E!netVars
  <2>2. \E q \in Nat : UnderWayInv(q)' /\ ShowingInv(q)'
    BY <1>1, <2>1, EchoesSame
  <2> QED
    BY <1>0, <1>8, <2>2, HandleCliStep DEF ClientInv
<1>9. CASE E!HandleNet
  BY <1>0, <1>1, <1>9, HandleNetStep DEF ClientInv
<1>10. CASE E!Type
  <2>1. main' = main /\ UNCHANGED <<lang, net, sent, up, down, server, displayed, dropped>>
    BY <1>10 DEF E!Type, E!goVars, E!netVars
  <2>2. \E q \in Nat : UnderWayInv(q)' /\ ShowingInv(q)'
    BY <1>1, <2>1, EchoesSame
  <2> QED
    BY <1>0, <1>10, <2>2, TypeStep DEF ClientInv
<1>11. CASE E!CloseInput \/ UNCHANGED clientVars
  <2>1. /\ closed' \in {closed, TRUE}
        /\ UNCHANGED <<lang, pipe, typed, kbd, buf, main, ready, line, cli, net, sent, up, down, server,
                       displayed, dropped>>
    BY <1>11 DEF E!CloseInput, E!goVars, E!netVars, clientVars
  <2>2. \E q \in Nat : UnderWayInv(q)' /\ ShowingInv(q)'
    BY <1>1, <2>1, EchoesSame
  <2>3. SendingInv'
    BY <1>0, <2>1, SendingSame
  <2>4. E!TypeOK'
    <3>1. closed' \in BOOLEAN
      BY <1>0, <2>1, Zenon DEF E!TypeOK
    <3> QED
      BY <1>0, <2>1, <3>1 DEF E!TypeOK
  <2> QED
    BY <2>2, <2>3, <2>4 DEF ClientInv
<1>12. CASE E!Serve
  BY <1>0, <1>1, <1>12, ServeStep DEF ClientInv
<1>13. CASE E!ServerEnds
  BY <1>0, <1>1, <1>13, ServerEndsStep DEF ClientInv
<1> QED
  BY <1>2, <1>3, <1>4, <1>5, <1>6, <1>7, <1>8, <1>9, <1>10, <1>11, <1>12, <1>13
     DEF E!ENext, E!Main

LEMMA ClientInitInv ==
  ASSUME E!EInit
  PROVE  ClientInv
<1>1. /\ sent = <<>> /\ up = <<>> /\ down = <<>> /\ displayed = <<>> /\ dropped = {}
      /\ server = "up" /\ net = E!Nothing
  BY DEF E!EInit
<1>2. Len(sent) = 0 /\ Len(up) = 0 /\ Len(down) = 0 /\ Len(displayed) = 0
  BY <1>1
<1>3. UnderWayInv(0)
  BY <1>1, <1>2 DEF UnderWayInv, Follow
<1>4. ShowingInv(0)
  <2>1. E!ToSet(displayed) = {} /\ E!InHand(net) = {}
    BY <1>1 DEF E!ToSet, E!InHand, E!Nothing
  <2> QED
    BY <1>1, <1>2, <2>1 DEF ShowingInv, Rising, E!Nothing
<1>5. 0 \in Nat
  OBVIOUS
<1> QED
  BY <1>3, <1>4, <1>5, ClientInit DEF ClientInv

LEMMA ClientInOrder ==
  ASSUME ClientInv
  PROVE  E!InOrder
<1>1. E!TypeOK /\ SendingInv
  BY DEF ClientInv
<1>2. PICK r \in Nat : UnderWayInv(r) /\ ShowingInv(r)
  BY DEF ClientInv
<1>3. /\ sent \in Seq(E!Ids) /\ up \in Seq(E!Ids) /\ down \in Seq(E!Ids)
      /\ Len(sent) \in Nat /\ Len(up) \in Nat /\ Len(down) \in Nat /\ Len(displayed) \in Nat
  BY <1>1, SendingLengths
<1>4. sent = [k \in 1..Len(sent) |-> k]
  <2>1. \A k \in 1..Len(sent) : sent[k] = k
    BY <1>1 DEF SendingInv, Follow
  <2> QED
    BY <1>3, <2>1
<1>5. \A j, k \in 1..Len(displayed) : j < k => displayed[j] < displayed[k]
  BY <1>2 DEF ShowingInv, Rising
<1>6. dropped # {} => lang = "chan"
  BY <1>2 DEF ShowingInv
<1>7. ASSUME server = "up"
      PROVE  /\ E!ToSet(displayed) \cup dropped \cup E!InHand(net) \cup E!ToSet(down) \cup E!ToSet(up)
                   = E!ToSet(sent)
             /\ lang \in {"simple", "std"} => Len(sent) - Len(displayed) \in {0, 1}
  <2>1. r + Len(down) + Len(up) = Len(sent) /\ r + Len(down) \in Nat
    BY <1>2, <1>3, <1>7 DEF UnderWayInv
  <2>2. E!ToSet(sent) = 1..Len(sent)
    <3>1. Follow(sent, 0) /\ 0 \in Nat
      BY <1>1 DEF SendingInv
    <3>2. E!ToSet(sent) = (0 + 1)..(0 + Len(sent))
      BY <1>3, <3>1, FollowSet
    <3> QED
      BY <1>3, <3>2
  <2>3. E!ToSet(down) = (r + 1)..(r + Len(down))
    BY <1>2, <1>3, FollowSet DEF UnderWayInv
  <2>4. E!ToSet(up) = (r + Len(down) + 1)..(r + Len(down) + Len(up))
    BY <1>2, <1>3, <2>1, FollowSet DEF UnderWayInv
  <2>5. E!ToSet(displayed) \cup dropped \cup E!InHand(net) = 1..r
    BY <1>2 DEF ShowingInv
  <2>6. 1..Len(sent) = 1..r \cup (r + 1)..(r + Len(down))
                         \cup (r + Len(down) + 1)..(r + Len(down) + Len(up))
    BY <1>3, <2>1
  <2>7. lang \in {"simple", "std"} => Len(sent) - Len(displayed) \in {0, 1}
    BY <1>2, <1>3, <2>1 DEF UnderWayInv, ShowingInv
  <2> QED
    BY <2>2, <2>3, <2>4, <2>5, <2>6, <2>7
<1> QED
  BY <1>1, <1>4, <1>5, <1>6, <1>7 DEF E!InOrder

\* Whatever is typed, and whenever the input ends or the server does: lines are
\* sent in the order they were typed and echoes shown in that order, none twice;
\* nothing is lost but for the readers of c_chan.go, and by turns the echo shown
\* is that of the line sent.
THEOREM LinesStayInOrder == AllSpec => []E!InOrder
<1>1. AllInit => ClientInv
  BY ClientInitInv DEF AllInit
<1>2. ClientInv /\ [AllNext]_all => ClientInv'
  <2> SUFFICES ASSUME ClientInv, [AllNext]_all PROVE ClientInv'
    OBVIOUS
  <2>1. [E!ENext]_clientVars
    BY DEF AllNext, all, DrmStep, FramesStep, SinkStep, ClientStep, RelayStep
  <2> QED
    BY <2>1, ClientStepInv
<1>3. ClientInv => E!InOrder
  BY ClientInOrder
<1> QED
  BY <1>1, <1>2, <1>3, PTL DEF AllSpec
=============================================================================
