------------------------------ MODULE DrmConf -------------------------------
(***************************************************************************)
(* drm-tests/drm_utils.c: how a program finds a connector, an encoder, a   *)
(* mode and a CRTC, by itself (drm_autoconf), by the ids on its command    *)
(* line (drm_get_conf_cmdline), or only a mode by its name                 *)
(* (drm_get_mode_by_name).  One step is one turn of a search loop.         *)
(*                                                                         *)
(* Positions count from 1.  What is freed on the way is left out: it is    *)
(* memory of the process only.                                             *)
(***************************************************************************)
EXTENDS Naturals, Sequences

CONSTANT NULL

VARIABLES
  how,    (* which function: "auto", "cmdline", "name"                     *)
  want,   (* ids of connector, encoder and CRTC, and name of the mode      *)
  hw,     (* connectors, encoders and CRTCs of the device, in its order;   *)
          (* NULL where drmModeGet... fails                                *)
  find,   (* what is looked for                                            *)
  i,      (* loop counter                                                  *)
  c,      (* the first CRTC the encoder could use                          *)
  kms     (* what was found                                                *)

confInput == <<how, want, hw>>
confVars == <<confInput, find, i, c, kms>>

\* What drmModeGetResources() can say: lists of what there is.
IsList(list) == list \in Seq({list[k] : k \in DOMAIN list})
Device(d) ==
  /\ IsList(d.connectors) /\ IsList(d.encoders) /\ IsList(d.crtcs)
  /\ \A k \in DOMAIN d.connectors :
       d.connectors[k] # NULL => IsList(d.connectors[k].modes)

ConfTypeOK ==
  /\ find \in {"idle", "start", "connector", "encoder", "mode", "crtc", "found", "failed"}
  /\ i \in Nat \ {0}
  /\ DOMAIN kms = {"connector", "encoder", "mode", "crtc"}

ConfInit ==
  /\ find = "idle" /\ i = 1 /\ c = NULL
  /\ kms = [connector |-> NULL, encoder |-> NULL, mode |-> NULL, crtc |-> NULL]

Autoconf == how = "auto"

-----------------------------------------------------------------------------
(* The searches *)

LookFor(what) == find' = what /\ i' = 1
Fail == LookFor("failed") /\ UNCHANGED kms
Set(field, x) == kms' = [kms EXCEPT ![field] = x]

\* for (i = 0; i < count; i++), with break at the right element.
Loop(list, Right(_), Found(_), Missing) ==
  \/ i > Len(list) /\ Missing
  \/ i <= Len(list) /\ Right(list[i]) /\ Found(list[i])
  \/ i <= Len(list) /\ ~Right(list[i]) /\ i' = i + 1 /\ UNCHANGED <<find, kms>>

RightConnector(x) ==
  /\ x # NULL
  /\ IF Autoconf THEN x.connected /\ x.modes # <<>> ELSE x.id = want.connector

FindConnector ==
  /\ find = "connector"
  /\ Loop(hw.connectors, RightConnector,
          LAMBDA x : Set("connector", x) /\ LookFor(IF how = "name" THEN "mode" ELSE "encoder"),
          Fail)
  /\ UNCHANGED <<confInput, c>>

RightEncoder(x) ==
  x # NULL /\ x.id = IF Autoconf THEN kms.connector.encoder ELSE want.encoder

\* drmModeGetEncoder() by id.
GetEncoder(id) ==
  LET at == {n \in DOMAIN hw.encoders : hw.encoders[n] # NULL /\ hw.encoders[n].id = id}
  IN IF at = {} THEN NULL ELSE hw.encoders[CHOOSE n \in at : TRUE]

\* No encoder is in use: the connector's first one is taken.
FirstEncoder == GetEncoder(Head(kms.connector.encoders))

FindEncoder ==
  /\ find = "encoder"
  /\ Loop(hw.encoders, RightEncoder,
          LAMBDA x : Set("encoder", x) /\ LookFor("mode"),
          IF Autoconf /\ FirstEncoder # NULL
            THEN Set("encoder", FirstEncoder) /\ LookFor("mode")
            ELSE Fail)
  /\ UNCHANGED <<confInput, c>>

RightMode(name) == name = IF Autoconf THEN "preferred" ELSE want.mode

FindMode ==
  /\ find = "mode"
  /\ Loop(kms.connector.modes, RightMode,
          LAMBDA x : Set("mode", x) /\ LookFor(IF how = "name" THEN "found" ELSE "crtc"),
          IF Autoconf THEN Set("mode", Head(kms.connector.modes)) /\ LookFor("crtc")
                  ELSE Fail)
  /\ UNCHANGED <<confInput, c>>

RightCrtc(x) == x # NULL /\ x.id = IF Autoconf THEN kms.encoder.crtc ELSE want.crtc

\* Variant: !c is forgotten, so that the last one is taken.
RememberLast(x) == IF Autoconf /\ x # NULL /\ i \in kms.encoder.possible THEN x ELSE c

\* if (!c && (encoder->possible_crtcs & (1 << i))) c = crtc;
Remember(x) == IF Autoconf /\ c = NULL /\ x # NULL /\ i \in kms.encoder.possible THEN x ELSE c

FindCrtc ==
  /\ find = "crtc"
  /\ Loop(hw.crtcs, RightCrtc,
          LAMBDA x : Set("crtc", x) /\ LookFor("found"),
          IF Autoconf THEN Set("crtc", c) /\ LookFor("found") ELSE Fail)
  /\ c' = IF i <= Len(hw.crtcs) THEN Remember(hw.crtcs[i]) ELSE c
  /\ UNCHANGED confInput

GetResources ==
  /\ find = "start"
  /\ Fail \/ (LookFor("connector") /\ UNCHANGED kms)
  /\ UNCHANGED <<confInput, c>>

ConfStep == GetResources \/ FindConnector \/ FindEncoder \/ FindMode \/ FindCrtc

-----------------------------------------------------------------------------
(* What the searches are to find *)

FirstOf(list, x, Right(_)) ==
  \E n \in DOMAIN list : list[n] = x /\ Right(x) /\ \A m \in 1..(n - 1) : ~Right(list[m])

\* What drm_autoconf finds fits together: the first connector that something is
\* plugged into, an encoder of that connector, a mode of it, and the CRTC this
\* encoder drives already or else the first one it can drive.  It ends without a
\* CRTC only if there is none.  The other functions find what was asked for.
ConfRight ==
  /\ find = "found" /\ Autoconf =>
       /\ FirstOf(hw.connectors, kms.connector, RightConnector)
       /\ kms.encoder.id \in {kms.connector.encoder, Head(kms.connector.encoders)}
       /\ kms.mode = "preferred" \/ (kms.mode = Head(kms.connector.modes)
                                       /\ \A n \in DOMAIN kms.connector.modes :
                                            kms.connector.modes[n] # "preferred")
       /\ \/ kms.crtc # NULL /\ kms.crtc.id = kms.encoder.crtc
          \/ /\ \A n \in DOMAIN hw.crtcs : ~RightCrtc(hw.crtcs[n])
             /\ LET can == {n \in kms.encoder.possible \cap DOMAIN hw.crtcs : hw.crtcs[n] # NULL}
                IN IF can = {} THEN kms.crtc = NULL
                   ELSE \E n \in can : kms.crtc = hw.crtcs[n] /\ \A m \in can : n <= m
  /\ find = "found" /\ ~Autoconf =>
       /\ kms.connector.id = want.connector /\ kms.mode = want.mode
       /\ how = "cmdline" => kms.encoder.id = want.encoder /\ kms.crtc.id = want.crtc
=============================================================================
