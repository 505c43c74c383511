-------------------------------- MODULE Wiid --------------------------------
(***************************************************************************)
(* wiid-tests: a daemon turns a Wii remote into two input devices, a       *)
(* keypad and a sensor, both made with uinput.  main connects to the       *)
(* remote, blinks its LEDs for as long as that works, and then ends (on    *)
(* Android: starts over).  The messages of the remote are handled in a     *)
(* thread of libcwiid, one per connection; closing a connection starts no  *)
(* further callback, but one that is running is not waited for and may     *)
(* meet the callback of the next connection.  test_acc reads the sensor.   *)
(*                                                                         *)
(* The library, the kernel's input devices and the remote are external:    *)
(* what the program relies on is all that is modelled of them.  The colour *)
(* of the LEDs and all the logging are left out, and of the value of an    *)
(* axis all but whether it is 0: the kernel passes on no EV_REL event with *)
(* the value 0.                                                            *)
(***************************************************************************)
EXTENDS Naturals, FiniteSets, SequencesExt

CONSTANTS
  Mapped,      (* buttons wii_handle_buttons has a key for                 *)
  Held,        (* the sets of buttons that may be held down at once        *)
  LEDS,        (* LEDs the loop of main goes through: 4                    *)
  RATE,        (* acc_rate_msec, in ticks of the clock                     *)
  Tilts,       (* the sets of axes that may be other than 0 at once        *)
  MaxConns,    (* bound: connections                                       *)
  MaxMsgs,     (* bound: messages of the remote                            *)
  MaxTime,     (* bound: the clock                                         *)
  MaxFaults    (* bound: writes that fail                                  *)

ASSUME WiidAssumption ==
  /\ IsFiniteSet(Mapped) /\ \A b \in Held : IsFiniteSet(b)
  /\ LEDS \in Nat \ {0} /\ RATE \in Nat
  /\ Tilts # {} /\ Tilts \subseteq SUBSET {"REL_X", "REL_Y", "REL_Z"}
  /\ {MaxConns, MaxMsgs, MaxTime, MaxFaults} \subseteq Nat /\ RATE <= MaxTime

Conns == 1..MaxConns
Axes == {"REL_X", "REL_Y", "REL_Z"}
Samples == [time : 0..MaxTime, axes : Tilts \cup {{}}]
Message(kind, buttons) == [type |-> kind, buttons |-> buttons]
Messages == [type : {"BTN", "ACC", "OTHER"}, buttons : Held \cup {{}}]

VARIABLES
  android,     (* compiled for Android                                     *)
  main,        (* where main is                                            *)
  led,         (* the LED main sets next                                   *)
  conn,        (* the number of the present connection, 0 before any       *)
  link,        (* the state of every connection                            *)
  routed,      (* whether there is a callback and messages are enabled     *)
  rpt,         (* rpt_mode of main                                         *)
  reported,    (* what the remote reports on each connection               *)
  at,          (* where the callback of each connection is                 *)
  todo,        (* mesg[i..]: what the callback has still to handle         *)
  read,        (* its new_time_msec                                        *)
  tilt,        (* the axes of its sample that are not 0                    *)
  clock,       (* CLOCK_MONOTONIC                                          *)
  accTime,     (* acc_time_msec                                            *)
  keypad,      (* keys down, and keys the readers of the keypad hold down  *)
  sensor,      (* events not yet reported, the last report, and the time   *)
               (* of the one before                                        *)
  reader,      (* test_acc reads the sensor                                *)
  delivered,   (* messages the remote has sent                             *)
  owed,        (* clicks that button messages asked for and no reader of   *)
               (* the keypad has seen yet                                  *)
  failures,    (* writes that have failed                                  *)
  overlap      (* two callbacks have been running at once                  *)

mainVars == <<android, main, led, conn, rpt>>
linkVars == <<link, routed, reported>>
backVars == <<at, todo, read, tilt>>
timeVars == <<clock, accTime>>
seenVars == <<keypad, sensor>>
noteVars == <<delivered, owed, failures, overlap>>
wiidVars == <<mainVars, linkVars, backVars, timeVars, seenVars, noteVars, reader>>

Never == MaxTime + 1

WiidTypeOK ==
  /\ android \in BOOLEAN /\ led \in 1..LEDS /\ conn \in 0..MaxConns /\ rpt \subseteq {"BTN", "ACC"}
  /\ main \in {"input", "acc", "start", "callback", "enable", "rpt_btn",
               "rpt_acc", "led", "close", "gone"}
  /\ link \in [Conns -> {"none", "up", "lost", "closed"}]
  /\ routed \in [Conns -> BOOLEAN]
  /\ reported \in [Conns -> SUBSET {"BTN", "ACC"}]
  /\ at \in [Conns -> {"idle", "next", "press", "press_syn", "release",
                       "release_syn", "clock", "compare", "store", "syn"} \cup Axes]
  /\ todo \in [Conns -> Seq(Messages)] /\ read \in [Conns -> 0..MaxTime]
  /\ tilt \in [Conns -> Tilts \cup {{}}]
  /\ clock \in 0..MaxTime /\ accTime \in 0..MaxTime
  /\ keypad \in [down : SUBSET Mapped, told : SUBSET Mapped]
  /\ sensor \in [open : SUBSET (Axes \X Samples), shown : SUBSET (Axes \X Samples),
                 before : 0..Never]
  /\ reader \in BOOLEAN
  /\ delivered \in 0..MaxMsgs /\ failures \in 0..MaxFaults /\ overlap \in BOOLEAN
  /\ owed \in 0..MaxMsgs

\* The clock is well past its start when the daemon is.
WiidInit ==
  /\ android \in BOOLEAN /\ main = "input" /\ led = 1 /\ conn = 0 /\ rpt = {}
  /\ link = [c \in Conns |-> "none"]
  /\ routed = [c \in Conns |-> FALSE] /\ reported = [c \in Conns |-> {}]
  /\ at = [c \in Conns |-> "idle"] /\ todo = [c \in Conns |-> <<>>]
  /\ read = [c \in Conns |-> 0] /\ tilt = [c \in Conns |-> {}]
  /\ clock = RATE /\ accTime = 0
  /\ keypad = [down |-> {}, told |-> {}]
  /\ sensor = [open |-> {}, shown |-> {}, before |-> Never]
  /\ reader = FALSE
  /\ delivered = 0 /\ failures = 0 /\ overlap = FALSE
  /\ owed = 0

-----------------------------------------------------------------------------
(* main *)

\* The end of the process removes its devices, and the kernel releases what
\* keys are down.
Exit ==
  /\ main' = "gone"
  /\ read' = [c \in Conns |-> 0] /\ tilt' = [c \in Conns |-> {}]
  /\ at' = [c \in Conns |-> "idle"] /\ todo' = [c \in Conns |-> <<>>]
  /\ keypad' = [down |-> {}, told |-> {}]
  /\ sensor' = [sensor EXCEPT !.open = {}]

\* wii_input_init and wii_acc_init succeed, or fail and end the program.
InitDevice(which, next) ==
  /\ main = which
  /\ \/ main' = next /\ UNCHANGED <<backVars, seenVars>>
     \/ Exit
  /\ UNCHANGED <<android, led, conn, rpt, linkVars, timeVars, noteVars, reader>>

InitInput == InitDevice("input", "acc")
InitAcc == InitDevice("acc", "start")

\* cwiid_open is tried until there is a remote.
Connect ==
  /\ main = "start" /\ conn < MaxConns
  /\ conn' = conn + 1 /\ main' = "callback"
  /\ link' = [link EXCEPT ![conn + 1] = "up"]
  /\ UNCHANGED <<android, led, rpt, routed, reported, backVars, timeVars, seenVars, noteVars, reader>>

\* Messages come if the callback is set and they are enabled; a failure is
\* logged and main goes on.
Route(where, before, next) ==
  /\ main = where /\ main' = next
  /\ \E done \in BOOLEAN :
       /\ done => link[conn] = "up"
       /\ routed' = [routed EXCEPT ![conn] = before /\ done]
  /\ UNCHANGED <<android, led, conn, rpt, link, reported, backVars, timeVars, seenVars, noteVars, reader>>

SetCallback == Route("callback", TRUE, "enable")
Enable == Route("enable", routed[conn], "rpt_btn")

\* rpt_mode keeps its bits from one connection to the next.
SetReport(where, what, next) ==
  /\ main = where /\ main' = next
  /\ rpt' = rpt \cup {what}
  /\ \/ UNCHANGED reported
     \/ link[conn] = "up" /\ reported' = [reported EXCEPT ![conn] = rpt']
  /\ UNCHANGED <<android, led, conn, link, routed, backVars, timeVars, seenVars, noteVars, reader>>

SetButtons == SetReport("rpt_btn", "BTN", "rpt_acc")
SetAcc == SetReport("rpt_acc", "ACC", "led")

\* Variant: the result of set_led_state is not looked at.
BlinkOn ==
  /\ main = "led" /\ led' = (led % LEDS) + 1
  /\ UNCHANGED <<android, main, conn, rpt, linkVars, backVars, timeVars, seenVars, noteVars, reader>>

\* The loop over the LEDs goes on for as long as they can be set: that is how
\* main finds that the connection is lost.  The next connection begins with
\* the first LED.
SetLed ==
  /\ main = "led"
  /\ \/ /\ link[conn] = "up"
        /\ led' = (led % LEDS) + 1 /\ UNCHANGED main
     \/ main' = "close" /\ led' = 1
  /\ UNCHANGED <<android, conn, rpt, linkVars, backVars, timeVars, seenVars, noteVars, reader>>

Close ==
  /\ main = "close"
  /\ link' = [link EXCEPT ![conn] = "closed"]
  /\ \/ android /\ main' = "start" /\ UNCHANGED <<backVars, seenVars>>
     \/ ~android /\ Exit
  /\ routed' = [routed EXCEPT ![conn] = FALSE]
  /\ reported' = [reported EXCEPT ![conn] = {}]
  /\ UNCHANGED <<android, led, conn, rpt, timeVars, noteVars, reader>>

-----------------------------------------------------------------------------
(* The remote, the library and the clock *)

Lose(c) ==
  /\ main # "gone" /\ link[c] = "up" /\ link' = [link EXCEPT ![c] = "lost"]
  /\ UNCHANGED <<mainVars, routed, reported, backVars, timeVars, seenVars, noteVars, reader>>

Sendable(c) ==
  {Message("OTHER", {})}
    \cup (IF "ACC" \in reported[c] THEN {Message("ACC", {})} ELSE {})
    \cup (IF "BTN" \in reported[c] THEN {Message("BTN", b) : b \in Held} ELSE {})

\* The library hands over one or two messages at a time.  A lost connection
\* is a message like any other.
Deliver(c) ==
  /\ main # "gone" /\ at[c] = "idle"
  /\ link[c] \in {"up", "lost"} /\ routed[c]
  /\ \E mesg \in {<<m>> : m \in Sendable(c)} \cup Sendable(c) \X Sendable(c) :
       /\ delivered + Len(mesg) <= MaxMsgs
       /\ link[c] = "lost" => mesg = <<Message("OTHER", {})>>
       /\ delivered' = delivered + Len(mesg)
       /\ todo' = [todo EXCEPT ![c] = mesg]
  /\ at' = [at EXCEPT ![c] = "next"]
  /\ overlap' = (overlap \/ \E d \in Conns \ {c} : at[d] # "idle")
  /\ UNCHANGED <<mainVars, linkVars, read, tilt, timeVars, seenVars, owed, failures, reader>>

Tick ==
  /\ clock < MaxTime /\ clock' = clock + 1
  /\ UNCHANGED <<mainVars, linkVars, backVars, accTime, seenVars, noteVars, reader>>

-----------------------------------------------------------------------------
(* cwiid_callback *)

WiidGoto(c, to) == at' = [at EXCEPT ![c] = to]

\* The key of a single button that has one; chords, other buttons and the
\* release of the last button give key 0, which the kernel does not pass on.
Keys(buttons) == IF Cardinality(buttons) = 1 THEN buttons \cap Mapped ELSE {}

\* On to the next message, or back to the library.
Handle(c) ==
  /\ at[c] = "next"
  /\ IF todo[c] = <<>>
       THEN WiidGoto(c, "idle") /\ UNCHANGED <<todo, owed>>
       ELSE LET m == Head(todo[c])
            IN  /\ WiidGoto(c, CASE m.type = "BTN" -> "press"
                                 [] m.type = "ACC" -> "clock"
                                 [] m.type = "OTHER" -> "next")
                /\ todo' = IF m.type = "BTN" THEN todo ELSE [todo EXCEPT ![c] = Tail(@)]
                /\ owed' = owed + Cardinality(Keys(m.buttons))
  /\ UNCHANGED <<mainVars, linkVars, read, tilt, timeVars, seenVars, delivered, failures, overlap, reader>>

Key(c) == Keys(Head(todo[c]).buttons)

\* A write to the keypad's device: what is the case already is no event, and
\* EV_SYN passes the events on.
Pressed(c) == [keypad EXCEPT !.down = @ \cup Key(c)]
Released(c) == [keypad EXCEPT !.down = @ \ Key(c)]
Reported == [keypad EXCEPT !.told = keypad.down]

\* uinput_click(): what follows a write that fails is left out.
Write(c, where, next, effect) ==
  /\ at[c] = where
  /\ \/ keypad' = effect /\ WiidGoto(c, next) /\ UNCHANGED failures
     \/ /\ failures < MaxFaults /\ failures' = failures + 1
        /\ WiidGoto(c, "next") /\ UNCHANGED keypad
  /\ todo' = [todo EXCEPT ![c] = IF at'[c] = "next" THEN Tail(@) ELSE @]
  /\ owed' = owed - Cardinality(keypad'.told \ keypad.told)
  /\ UNCHANGED <<mainVars, linkVars, read, tilt, timeVars, sensor, delivered, overlap, reader>>

\* Variant: the release is written without EV_SYN.
ReleaseUnreported(c) ==
  \/ Write(c, "press", "press_syn", Pressed(c))
  \/ Write(c, "press_syn", "release", Reported)
  \/ Write(c, "release", "next", Released(c))

Click(c) ==
  \/ Write(c, "press", "press_syn", Pressed(c))
  \/ Write(c, "press_syn", "release", Reported)
  \/ Write(c, "release", "release_syn", Released(c))
  \/ Write(c, "release_syn", "next", Reported)

\* The values of a sample are the remote's choice; which of them are 0 matters
\* from here on.
ReadAxes(c) == \E axes \in Tilts : tilt' = [tilt EXCEPT ![c] = axes]

\* Variant: the time of the last sample is not kept.
SampleAlways(c) ==
  \/ /\ at[c] = "clock" /\ WiidGoto(c, "compare")
     /\ read' = [read EXCEPT ![c] = clock] /\ UNCHANGED <<accTime, tilt>>
  \/ /\ at[c] = "compare" /\ UNCHANGED <<accTime, tilt>>
     /\ IF read[c] >= accTime + RATE
          THEN WiidGoto(c, "store") /\ UNCHANGED read
          ELSE WiidGoto(c, "next") /\ read' = [read EXCEPT ![c] = 0]
  \/ /\ at[c] = "store" /\ WiidGoto(c, "REL_X") /\ ReadAxes(c)
     /\ UNCHANGED <<read, accTime>>

\* wii_handle_accelerometer() lets one sample through every RATE ticks; the
\* time of the last one is shared by all the callbacks.
Sample(c) ==
  \/ /\ at[c] = "clock" /\ WiidGoto(c, "compare")
     /\ read' = [read EXCEPT ![c] = clock] /\ UNCHANGED <<accTime, tilt>>
  \/ /\ at[c] = "compare" /\ UNCHANGED <<accTime, tilt>>
     /\ IF read[c] >= accTime + RATE
          THEN WiidGoto(c, "store") /\ UNCHANGED read
          ELSE WiidGoto(c, "next") /\ read' = [read EXCEPT ![c] = 0]
  \/ /\ at[c] = "store" /\ WiidGoto(c, "REL_X") /\ ReadAxes(c)
     /\ accTime' = read[c] /\ UNCHANGED read

Accelerometer(c) ==
  /\ Sample(c)
  /\ UNCHANGED <<mainVars, linkVars, todo, clock, seenVars, noteVars, reader>>

NextAxis == [REL_X |-> "REL_Y", REL_Y |-> "REL_Z", REL_Z |-> "syn"]

\* The events of an axis: none if its value is 0.
Events(c, axis) ==
  IF axis \in tilt[c] THEN {<<axis, [time |-> read[c], axes |-> tilt[c]]>>} ELSE {}

\* A write that fails is not noticed: send_event()'s result is not used.
SendAxis(c) ==
  /\ at[c] \in Axes /\ WiidGoto(c, NextAxis[at[c]])
  /\ \/ sensor' = [sensor EXCEPT !.open = @ \cup Events(c, at[c])] /\ UNCHANGED failures
     \/ failures < MaxFaults /\ failures' = failures + 1 /\ UNCHANGED sensor
  /\ UNCHANGED <<mainVars, linkVars, todo, read, tilt, timeVars, keypad, delivered, owed, overlap, reader>>

Latest(events) ==
  CHOOSE t \in {e[2].time : e \in events} : \A e \in events : e[2].time <= t

\* EV_SYN reports the events before it, if there are any.
SendSyn(c) ==
  /\ at[c] = "syn" /\ WiidGoto(c, "next")
  /\ \/ /\ IF sensor.open = {} THEN UNCHANGED sensor
           ELSE sensor' = [open |-> {}, shown |-> sensor.open,
                           before |-> IF sensor.shown = {} THEN Never ELSE Latest(sensor.shown)]
        /\ UNCHANGED failures
     \/ failures < MaxFaults /\ failures' = failures + 1 /\ UNCHANGED sensor
  /\ read' = [read EXCEPT ![c] = 0] /\ tilt' = [tilt EXCEPT ![c] = {}]
  /\ UNCHANGED <<mainVars, linkVars, todo, timeVars, keypad, delivered, owed, overlap, reader>>

-----------------------------------------------------------------------------
(* test_acc *)

\* The sensor is looked up by its name among the input devices; reading fails
\* once the device is removed.
Look ==
  /\ ~reader /\ main \notin {"input", "acc", "gone"} /\ reader' = TRUE
  /\ UNCHANGED <<mainVars, linkVars, backVars, timeVars, seenVars, noteVars>>

ReadFails ==
  /\ reader /\ main = "gone" /\ reader' = FALSE
  /\ UNCHANGED <<mainVars, linkVars, backVars, timeVars, seenVars, noteVars>>

-----------------------------------------------------------------------------
MainStep ==
  InitInput \/ InitAcc \/ Connect \/ SetCallback \/ Enable \/ SetButtons \/ SetAcc
    \/ SetLed \/ Close

Callback(c) == Handle(c) \/ Click(c) \/ Accelerometer(c) \/ SendAxis(c) \/ SendSyn(c)

WiidNext ==
  \/ MainStep
  \/ \E c \in Conns : Lose(c) \/ Deliver(c) \/ Callback(c)
  \/ Tick \/ Look \/ ReadFails

\* main and the callbacks go on.  A remote turns up when main looks for one;
\* none has to send anything or to be lost.
WiidFairness ==
  /\ WF_wiidVars(MainStep)
  /\ WF_wiidVars(ReadFails)
  /\ \A c \in Conns : WF_wiidVars(Callback(c))

WiidSpec == WiidInit /\ [][WiidNext]_wiidVars /\ WiidFairness

-----------------------------------------------------------------------------
(* Properties *)

Idle == \A c \in Conns : at[c] = "idle"

\* When no callback runs and no write has failed, no key is down and none is
\* held down by a reader, whatever callbacks of two connections did at once;
\* and unless there were such, each button message with a key gave one click.
\* Always the types are right.
ClicksComplete ==
  /\ WiidTypeOK
  /\ Idle /\ failures = 0 /\ main # "gone" =>
       /\ keypad.down = {} /\ keypad.told = {}
       /\ overlap \/ owed = 0

\* Unless a write failed or two callbacks have been running at once, a report
\* of the sensor holds the axes of one sample, all that are not 0, and comes no
\* sooner than RATE ticks after the one before.
SamplesApart ==
  failures = 0 /\ ~overlap /\ sensor.shown # {} =>
    \E s \in Samples :
      /\ sensor.shown = s.axes \X {s}
      /\ sensor.before = Never \/ s.time >= sensor.before + RATE

\* A lost connection is closed although nothing tells main; then the program
\* ends, with the one that reads its device, or there is a new connection.
LossNoticed ==
  \A c \in Conns : link[c] = "lost" ~>
    \/ ~android /\ main = "gone" /\ ~reader
    \/ android /\ link[c] = "closed" /\ (c < MaxConns => link[c + 1] # "none")
=============================================================================
