------------------------------ MODULE TimerFd -------------------------------
(***************************************************************************)
(* timers/c/timerfd.c: one thread waits in select() for a single-shot      *)
(* timer, which it arms anew whenever it has expired, for an eventfd to    *)
(* which it posts the expirations of that timer, and for a periodic timer. *)
(* One descriptor is served a turn, in this order of preference.           *)
(*                                                                         *)
(* Timers run in the kernel while the thread does its work.  Times are     *)
(* kept as what is left of them, in ticks.  A turn of the loop takes at    *)
(* most PROMPT ticks (prompt), or any time up to SLOW: the process may be  *)
(* stopped or starved.                                                     *)
(***************************************************************************)
EXTENDS Naturals

CONSTANTS
  SEC,        (* ticks of a second                                         *)
  SHOT,       (* seconds to the end of the single shot: 5                  *)
  FIRST,      (* seconds to the first end of the period: 3                 *)
  PERIOD,     (* seconds of a period: 7                                    *)
  TIMEOUT,    (* seconds select() waits: 1                                 *)
  PROMPT,     (* ticks a turn takes at most if the thread is prompt        *)
  SLOW,       (* bound: ticks a turn takes at most if it is not            *)
  MaxMissed   (* bound: expirations that have not been read                *)

VARIABLES
  step,       (* where the thread is                                       *)
  phase,      (* ticks since the last full second                          *)
  goal,       (* ticks to the time computed for new_value                  *)
  interval,   (* ticks of new_value.it_interval                            *)
  tfd, pfd,   (* both timers: ticks left, ticks of the interval, and the   *)
              (* expirations not yet read                                  *)
  efd,        (* the value of the eventfd                                  *)
  exp,        (* exp, until it is printed or posted                        *)
  patience,   (* ticks until select() times out                            *)
  turn,       (* ticks this turn has taken                                 *)
  prompt,     (* whether no turn takes longer than PROMPT                  *)
  owed        (* expirations of the single shot not yet told from efd      *)

timerVars == <<tfd, pfd, efd, owed>>
timeVars == <<phase, goal, patience, turn, prompt>>
tvars == <<step, interval, exp, timerVars, timeVars>>

Timer == [left : 0..(PERIOD * SEC), interval : {0, PERIOD * SEC}, expired : 0..MaxMissed]

TypeOK ==
  /\ step \in {"now_shot", "set_shot", "now_period", "set_period", "wait",
               "read_shot", "now", "set", "post", "read_event", "read_period", "gone"}
  /\ phase \in 0..(SEC - 1) /\ goal \in 0..(SHOT * SEC)
  /\ interval \in {0, PERIOD * SEC} /\ exp \in 0..MaxMissed
  /\ tfd \in Timer /\ pfd \in Timer /\ efd \in 0..MaxMissed /\ owed \in 0..MaxMissed
  /\ patience \in 0..(TIMEOUT * SEC) /\ turn \in 0..SLOW /\ prompt \in BOOLEAN

Disarmed == [left |-> 0, interval |-> 0, expired |-> 0]

TInit ==
  /\ step = "now_shot" /\ phase \in 0..(SEC - 1) /\ goal = 0 /\ interval = 0
  /\ tfd = Disarmed /\ pfd = Disarmed /\ efd = 0 /\ exp = 0 /\ owed = 0
  /\ patience = TIMEOUT * SEC /\ turn = 0 /\ prompt \in BOOLEAN

-----------------------------------------------------------------------------
(* Time *)

\* An expiration starts the next interval, if there is one.
Run(t) ==
  IF t.left = 1
    THEN [left |-> t.interval, interval |-> t.interval, expired |-> t.expired + 1]
    ELSE IF t.left = 0 THEN t ELSE [t EXCEPT !.left = @ - 1]

Ready ==
  {f \in {"tfd", "efd", "pfd"} :
     CASE f = "tfd" -> tfd.expired > 0 [] f = "pfd" -> pfd.expired > 0 [] f = "efd" -> efd > 0}

Asleep == step = "wait" /\ Ready = {} /\ patience > 0

Tick ==
  /\ step # "gone"
  /\ Asleep \/ turn < IF prompt THEN PROMPT ELSE SLOW
  /\ turn' = IF Asleep THEN turn ELSE turn + 1
  /\ patience' = IF Asleep THEN patience - 1 ELSE patience
  /\ phase' = (phase + 1) % SEC
  /\ goal' = IF goal = 0 THEN 0 ELSE goal - 1
  /\ tfd' = Run(tfd) /\ pfd' = Run(pfd)
  /\ owed' = owed + tfd'.expired - tfd.expired
  /\ owed' <= MaxMissed /\ pfd'.expired <= MaxMissed
  /\ UNCHANGED <<step, interval, exp, efd, prompt>>

-----------------------------------------------------------------------------
(* The thread *)

\* The time to expire is a full second: seconds after the last one.
Now(where, seconds, next) ==
  /\ step = where /\ step' = next
  /\ goal' = seconds * SEC - phase
  /\ UNCHANGED <<interval, exp, timerVars, phase, patience, turn, prompt>>

\* timerfd_settime() discards what has not been read; a time already past
\* expires at once.
Armed == [left |-> IF goal = 0 THEN 1 ELSE goal, interval |-> interval, expired |-> 0]

ArmShot(where, next) ==
  /\ step = where /\ step' = next
  /\ tfd' = Armed
  /\ owed' = owed - tfd.expired
  /\ goal' = 0 /\ UNCHANGED <<interval, exp, pfd, efd, phase, patience, turn, prompt>>

\* timerfd_gettime() leaves the interval in new_value.
ArmPeriod ==
  /\ step = "set_period" /\ step' = "wait"
  /\ pfd' = [Armed EXCEPT !.interval = PERIOD * SEC]
  /\ interval' = PERIOD * SEC
  /\ goal' = 0 /\ turn' = 0
  /\ UNCHANGED <<exp, tfd, efd, owed, phase, patience, prompt>>

Setup ==
  \/ Now("now_shot", SHOT, "set_shot") \/ ArmShot("set_shot", "now_period")
  \/ Now("now_period", FIRST, "set_period") \/ ArmPeriod

\* Back to the head of the loop.
Again == step' = "wait" /\ turn' = 0 /\ patience' = TIMEOUT * SEC

\* Variant: the periodic timer is missing in the set that select() watches.
SelectTwo ==
  /\ step = "wait"
  /\ \/ "tfd" \in Ready /\ step' = "read_shot" /\ UNCHANGED <<patience, turn>>
     \/ "tfd" \notin Ready /\ "efd" \in Ready /\ step' = "read_event" /\ UNCHANGED <<patience, turn>>
     \/ Ready \in {{}, {"pfd"}} /\ patience = 0 /\ Again
  /\ UNCHANGED <<interval, exp, timerVars, phase, goal, prompt>>

Select ==
  /\ step = "wait"
  /\ \/ "tfd" \in Ready /\ step' = "read_shot" /\ UNCHANGED <<patience, turn>>
     \/ "tfd" \notin Ready /\ "efd" \in Ready /\ step' = "read_event" /\ UNCHANGED <<patience, turn>>
     \/ Ready = {"pfd"} /\ step' = "read_period" /\ UNCHANGED <<patience, turn>>
     \/ Ready = {} /\ patience = 0 /\ Again
  /\ UNCHANGED <<interval, exp, timerVars, phase, goal, prompt>>

ReadShot ==
  /\ step = "read_shot" /\ tfd.expired > 0 /\ step' = "now"
  /\ exp' = tfd.expired /\ tfd' = [tfd EXCEPT !.expired = 0]
  /\ interval' = 0
  /\ UNCHANGED <<pfd, efd, owed, timeVars>>

Post ==
  /\ step = "post" /\ Again
  /\ efd' = efd + exp /\ exp' = 0
  /\ UNCHANGED <<interval, tfd, pfd, owed, phase, goal, prompt>>

ReadEvent ==
  /\ step = "read_event" /\ efd > 0 /\ Again
  /\ efd' = 0 /\ owed' = owed - efd
  /\ UNCHANGED <<interval, exp, tfd, pfd, phase, goal, prompt>>

ReadPeriod ==
  /\ step = "read_period" /\ pfd.expired > 0 /\ Again
  /\ pfd' = [pfd EXCEPT !.expired = 0]
  /\ UNCHANGED <<interval, exp, tfd, efd, owed, phase, goal, prompt>>

ShotTurn == ReadShot \/ Now("now", SHOT, "set") \/ ArmShot("set", "post") \/ Post

\* The handler of SIGINT calls exit().
SigInt ==
  /\ step # "gone" /\ step' = "gone"
  /\ UNCHANGED <<interval, exp, timerVars, timeVars>>

Thread == Setup \/ Select \/ ShotTurn \/ ReadEvent \/ ReadPeriod

TNext == Thread \/ Tick \/ SigInt

TFairness == WF_tvars(Thread)

TSpec == TInit /\ [][TNext]_tvars /\ TFairness

-----------------------------------------------------------------------------
(* Properties *)

\* However late the thread is, the single shot expires once each time it is
\* armed, and each expiration is told once from the eventfd: until then it is
\* in the timer, in exp or in the eventfd.  Always the types are right.
ShotsCounted ==
  /\ TypeOK
  /\ tfd.expired <= 1 /\ (tfd.left > 0 => tfd.expired = 0)
  /\ owed = tfd.expired + exp + efd

\* No expiration is lost or told twice, and a prompt thread comes to each
\* descriptor although it prefers others.
AllServed ==
  /\ []ShotsCounted
  /\ prompt =>
       /\ tfd.expired > 0 ~> tfd.expired = 0 \/ step = "gone"
       /\ efd > 0 ~> efd = 0 \/ step = "gone"
       /\ pfd.expired > 0 ~> pfd.expired = 0 \/ step = "gone"
=============================================================================
