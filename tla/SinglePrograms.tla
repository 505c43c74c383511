--------------------------- MODULE SinglePrograms ---------------------------
(***************************************************************************)
(* Programs with a loop of their own, checked in one run: the single       *)
(* programs of drm-tests (DrmLadder) and the frames of drm_gl_test1b       *)
(* (DrmTwoFrames), the GStreamer elements of gst/gst-drm (GstSink), the    *)
(* clients of the echo servers (EchoClients) and the relays of pty/ and    *)
(* tun-tap/ (Relay).  Nothing connects them: the first state says which    *)
(* one runs, and the variables of the others stay as they are.             *)
(***************************************************************************)
EXTENDS MCDrmLadder, DrmTwoFrames

CONSTANTS
  Console, Off, Null, MaxSessions, MaxFaults,    \* GstSink
  MaxTyped,                                      \* EchoClients
  RoomA, RoomB                                   \* Relay

\* What is on the screen before is no framebuffer; no mode is not a saved one.
ASSUME SinkAssumption ==
  /\ MaxSessions \in Nat /\ MaxFaults \in Nat
  /\ {Console, Off} \cap Nat = {} /\ Null \notin {Console, Off}

\* How much is typed to a client of the echo servers.
ASSUME TypedAssumption == MaxTyped \in Nat

VARIABLES
  kind, before, life, enabled, showing, saved, bo, drawn, fb, objects, fbs, last, shown,
  files, drivers, sessions, faults,
  lang, pipe, typed, closed, kbd, buf, main, ready, line, cli, net, sent, up, down,
  server, displayed, dropped,
  via, waiting, fresh, ended, place, set, dirty, first, passed, jammed,
  program   (* what runs                                                   *)

Sink == INSTANCE GstSink WITH current <- showing, frame <- drawn, screen <- shown
E == INSTANCE EchoClients WITH shown <- displayed
R == INSTANCE Relay

Kinds == {"drm", "frames", "element", "client", "relay"}

sinkVars == <<kind, before, life, enabled, showing, saved, bo, drawn, fb, objects, fbs,
              last, shown, files, drivers, sessions, faults>>
clientVars == <<lang, pipe, typed, closed, kbd, buf, main, ready, line, cli, net, sent, up,
                down, server, displayed, dropped>>
relayVars == <<via, waiting, fresh, ended, place, set, dirty, first, passed, jammed>>
all == <<vars, gvars, sinkVars, clientVars, relayVars, program>>

\* Only what runs has more than one way to start.
AllInit ==
  /\ program \in Kinds
  /\ Init /\ GInit /\ Sink!Init /\ E!EInit /\ R!RInit
  /\ program # "drm" => prog = "drm_gl_test3" /\ how = "cmdline" /\ valid
                          /\ hw.encoders[1].crtc = "k2" /\ hw.encoders[1].possible = {}
  /\ program # "element" => kind = "plane"
  /\ program # "client" => lang = "std" /\ pipe
  /\ program # "relay" => via = "pty" /\ dirty

DrmStep ==
  program = "drm" /\ Next /\ UNCHANGED <<gvars, sinkVars, clientVars, relayVars, program>>
FramesStep ==
  program = "frames" /\ GNext /\ UNCHANGED <<vars, sinkVars, clientVars, relayVars, program>>
SinkStep ==
  program = "element" /\ Sink!Next /\ UNCHANGED <<vars, gvars, clientVars, relayVars, program>>
ClientStep(A) ==
  program = "client" /\ A /\ UNCHANGED <<vars, gvars, sinkVars, relayVars, program>>
RelayStep(A) ==
  program = "relay" /\ A /\ UNCHANGED <<vars, gvars, sinkVars, clientVars, program>>

AllNext == DrmStep \/ FramesStep \/ SinkStep \/ ClientStep(E!ENext) \/ RelayStep(R!RNext)

\* The fairness of the clients and of the relays.
Fairness ==
  /\ WF_all(ClientStep(E!Main)) /\ SF_all(ClientStep(E!FromCli)) /\ SF_all(ClientStep(E!FromNet))
  /\ WF_all(ClientStep(E!HandleCli)) /\ WF_all(ClientStep(E!HandleNet)) /\ WF_all(ClientStep(E!Serve))
  /\ WF_all(RelayStep(R!Loop))

AllSpec == AllInit /\ [][AllNext]_all /\ Fairness

-----------------------------------------------------------------------------
(* Properties of the programs, as their modules state them *)

\* GstSink: the frame that the next picture is copied into is not the one on the
\* screen; an element only crashes when it is stopped without caps, or used again;
\* after a session the screen is as before and all that was acquired is released,
\* but for what the calls that failed explain.
SinkSafe == Sink!SinkSafe

\* The echo clients: lines are sent and echoes shown in order and none is lost
\* but for the readers of c_chan.go; each line typed is sent, unless c_select.c
\* keeps it until there is more.
LinesGoOut == program = "client" => E!LinesGoOut

\* The relays: messages are carried whole and in order, but for what strlen()
\* cannot measure; the tunnel serves both sides, the others the first, unless a
\* write() to a terminal sleeps for ever.
BothCarried == program = "relay" => R!BothCarried
=============================================================================
