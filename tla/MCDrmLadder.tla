---------------------------- MODULE MCDrmLadder -----------------------------
(***************************************************************************)
(* Devices and command lines for DrmLadder.  drm_dumb_bo looks up its      *)
(* configuration on every device with one or two connectors, encoders and  *)
(* CRTCs, by itself and by ids; the other programs run on three of them.   *)
(***************************************************************************)
EXTENDS DrmLadder

Connector(id, up, modes, enc) ==
  [id |-> id, connected |-> up, modes |-> modes, encoder |-> enc, encoders |-> <<"e1", "e2">>]
Encoder(id, crtc, possible) == [id |-> id, crtc |-> crtc, possible |-> possible]

Hd == Connector("n2", TRUE, <<"hd", "preferred">>, "e2")

SomeConnectors ==
  {<<x, Hd>> : x \in {NULL} \cup {Connector("n1", up, modes, enc) :
                up \in BOOLEAN, modes \in {<<>>, <<"hd">>}, enc \in {"none", "e1"}}}
    \cup {<<Connector("n1", FALSE, <<"hd">>, "e1")>>}
SomeEncoders ==
  {<<x, Encoder("e2", "k2", {2})>> :
     x \in {NULL} \cup {Encoder("e1", crtc, possible) :
             crtc \in {"none", "k2"}, possible \in SUBSET {1, 2}}}
SomeCrtcs == {<<[id |-> "k1"], [id |-> "k2"]>>, <<NULL, [id |-> "k2"]>>}

Devices ==
  [connectors : SomeConnectors, encoders : SomeEncoders, crtcs : SomeCrtcs]

Usual ==
  {[connectors |-> <<Hd>>,
    encoders |-> <<Encoder("e1", crtc, possible), Encoder("e2", crtc, possible)>>,
    crtcs |-> <<[id |-> "k1"], [id |-> "k2"]>>] :
     crtc \in {"none", "k2"}, possible \in {{}, {1, 2}}}

Line(connector, encoder, mode, crtc) ==
  [connector |-> connector, encoder |-> encoder, mode |-> mode, crtc |-> crtc]
Given == Line("n2", "e2", "hd", "k2")
Lines == {Given, Line("n1", "e1", "hd", "k1"), Line("n2", "e1", "low", "k2")}

Programs(progs, hows, lines, devices) ==
  [prog : progs, how : hows, want : lines, hw : devices]

MCSetups ==
  Programs({"drm_dumb_bo"}, {"auto"}, {Given}, Devices)
    \cup Programs({"drm_dumb_bo"}, {"cmdline"}, Lines, Devices)
    \cup Programs({"drm_dumb_bo_libkms", "drm_gl_test2", "drm_gl_test3"},
                  {"auto", "cmdline"}, {Given}, Usual)
    \cup Programs({"drm_gl_test1a", "drm_gl_test1b"}, {"auto"}, {Given}, Usual)
    \cup Programs({"drm_dumb_bo_mult", "drm_dumb_bo_plane"}, {"name"}, Lines, Usual)
=============================================================================
