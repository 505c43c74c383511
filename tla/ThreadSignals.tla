--------------------------- MODULE ThreadSignals ----------------------------
(***************************************************************************)
(* pthread/p4.cpp: the main thread blocks SIGUSR1 and SIGUSR2, starts a    *)
(* worker thread for each, and sends both signals to the process three     *)
(* times; the masks see to it that each worker handles its own.  Thread-   *)
(* specific data tell the handler which worker it runs in.                 *)
(*                                                                         *)
(* Nothing in the program waits for another thread: sleep() only makes an  *)
(* order likely.  Both are covered: that each sleep of main is long enough *)
(* for all the others (timely), and that it is not.  A worker is named by  *)
(* its signal.                                                             *)
(***************************************************************************)
EXTENDS Naturals, SequencesExt

CONSTANTS
  Main,    (* the thread of main                                           *)
  ROUNDS,  (* how often main sends the signals: 3                          *)
  NoData   (* pthread_getspecific returns NULL                             *)

\* The workers in the order of their creation.
Order == <<"SIGUSR1", "SIGUSR2">>
Workers == ToSet(Order)
Threads == {Main} \cup Workers

ASSUME ThreadAssumption ==
  Main \notin Workers /\ ROUNDS \in Nat \ {0} /\ NoData \notin 0..Len(Order)

VARIABLES
  main,       (* where main is                                             *)
  n,          (* how far main is in the list of workers, or in gc          *)
  round,      (* the loop counter of the three rounds                      *)
  at,         (* where each worker is                                      *)
  mask,       (* the signals each thread blocks                            *)
  pending,    (* signals pending for the process                           *)
  handling,   (* the signals each thread is in the handler for             *)
  shown,      (* what id the handlers of each signal last printed          *)
  pool,       (* the workers main has put into the map                     *)
  id,         (* the id each worker found there, 0 if none                 *)
  data,       (* id in the thread-specific td of each worker, or NoData    *)
  gc,         (* owners of the td objects in the vector gc                 *)
  oldgc,      (* gc as a worker saw it when push_back began                *)
  freed,      (* owners of the td objects main has deleted                 *)
  cancelled,  (* workers main has cancelled                                *)
  handled,    (* how often the handler of each signal has run              *)
  timely      (* whether main's sleeps let the workers get everything done *)

mainVars == <<main, n, round>>
dataVars == <<pool, id, data, gc, oldgc, freed>>
signalVars == <<pending, handling, shown, handled>>
vars == <<mainVars, at, mask, signalVars, dataVars, cancelled, timely>>

Ids == 0..Len(Order)

TypeOK ==
  /\ main \in {"block", "create", "insert", "kill", "cancel", "clean", "bye", "gone"}
  /\ n \in 1..(Len(Order) + 1) /\ round \in 1..ROUNDS
  /\ at \in [Workers -> {"none", "lookup", "missed", "key", "push", "pushing",
                         "mask", "unmask", "loop", "gone"}]
  /\ mask \in [Threads -> SUBSET Workers]
  /\ pending \subseteq Workers
  /\ handling \in [Threads -> SUBSET Workers]
  /\ shown \in [Workers -> Ids \cup {NoData}]
  /\ pool \subseteq Workers /\ freed \subseteq Workers /\ cancelled \subseteq Workers
  /\ id \in [Workers -> Ids] /\ data \in [Workers -> Ids \cup {NoData}]
  /\ gc \in Seq(Workers) /\ oldgc \in [Workers -> Seq(Workers)]
  /\ handled \in [Workers -> 0..ROUNDS] /\ timely \in BOOLEAN

\* The handlers are installed.
Init ==
  /\ main = "block" /\ n = 1 /\ round = 1
  /\ at = [w \in Workers |-> "none"]
  /\ mask = [t \in Threads |-> {}]
  /\ handling = mask
  /\ shown = [w \in Workers |-> NoData] /\ data = shown
  /\ id = [w \in Workers |-> 0]
  /\ gc = <<>> /\ oldgc = [w \in Workers |-> <<>>]
  /\ pending = {} /\ pool = {} /\ freed = {} /\ cancelled = {}
  /\ handled = id /\ timely \in BOOLEAN

Number(w) == CHOOSE k \in DOMAIN Order : Order[k] = w

-----------------------------------------------------------------------------
(* The main thread *)

MainAt(where) == main = where /\ handling[Main] = {}

Block ==
  /\ MainAt("block") /\ main' = "create"
  /\ mask' = [mask EXCEPT ![Main] = Workers]
  /\ UNCHANGED <<n, round, at, signalVars, dataVars, cancelled, timely>>

\* A thread starts with the mask of its creator.
Create ==
  /\ MainAt("create") /\ main' = "insert"
  /\ at' = [at EXCEPT ![Order[n]] = "lookup"]
  /\ mask' = [mask EXCEPT ![Order[n]] = mask[Main]]
  /\ UNCHANGED <<n, round, signalVars, dataVars, cancelled, timely>>

\* On to the next worker, or to the next part of main.
Advance(same, next) ==
  /\ n' = IF n < Len(Order) THEN n + 1 ELSE 1
  /\ main' = IF n < Len(Order) THEN same ELSE next

\* The entry may come too late for the worker, which already runs.
Insert ==
  /\ MainAt("insert")
  /\ pool' = pool \cup {Order[n]}
  /\ Advance("create", "kill")
  /\ UNCHANGED <<round, at, mask, signalVars, id, data, gc, oldgc, freed, cancelled, timely>>

\* sleep(1) before the first signal of a round and before the cancelling: if
\* it is long enough, no thread has anything left to do.
Slept ==
  n = 1 /\ timely =>
    /\ \A w \in Workers : at[w] = "loop"
    /\ \A t \in Threads : handling[t] = {} /\ pending \subseteq mask[t]

\* A signal that is pending already stays pending once.
Kill ==
  /\ MainAt("kill") /\ Slept
  /\ pending' = pending \cup {Order[n]}
  /\ Advance("kill", IF round < ROUNDS THEN "kill" ELSE "cancel")
  /\ round' = IF n = Len(Order) /\ round < ROUNDS THEN round + 1 ELSE round
  /\ UNCHANGED <<at, mask, handling, shown, handled, dataVars, cancelled, timely>>

\* pthread_cancel() asks, it does not wait; pool is ordered by thread id.
Cancel ==
  /\ MainAt("cancel") /\ Slept
  /\ \E w \in Workers \ cancelled : cancelled' = cancelled \cup {w}
  /\ Advance("cancel", "clean")
  /\ UNCHANGED <<round, at, mask, signalVars, dataVars, timely>>

Clean ==
  /\ MainAt("clean")
  /\ IF n <= Len(gc)
       THEN freed' = freed \cup {gc[n]} /\ n' = n + 1 /\ UNCHANGED main
       ELSE main' = "bye" /\ UNCHANGED <<freed, n>>
  /\ UNCHANGED <<round, at, mask, signalVars, pool, id, data, gc, oldgc, cancelled, timely>>

\* Returning from main ends the process and all its threads.
Bye ==
  /\ MainAt("bye") /\ main' = "gone"
  /\ at' = [w \in Workers |-> "gone"]
  /\ handling' = [t \in Threads |-> {}]
  /\ UNCHANGED <<n, round, mask, pending, shown, handled, dataVars, cancelled, timely>>

-----------------------------------------------------------------------------
(* The workers *)

Goto(w, to) == at' = [at EXCEPT ![w] = to]

\* A thread in the handler does nothing else.
Ready(w, where) == at[w] = where /\ handling[w] = {}

Lookup(w) ==
  /\ Ready(w, "lookup")
  /\ id' = [id EXCEPT ![w] = IF w \in pool THEN Number(w) ELSE 0]
  /\ Goto(w, IF w \in pool THEN "key" ELSE "missed")
  /\ UNCHANGED <<mainVars, mask, signalVars, pool, data, gc, oldgc, freed, cancelled, timely>>

\* "ERROR: can't get index": the write is a cancellation point.
Missed(w) ==
  /\ Ready(w, "missed")
  /\ Goto(w, IF w \in cancelled THEN "gone" ELSE "key")
  /\ UNCHANGED <<mainVars, mask, signalVars, dataVars, cancelled, timely>>

SetData(w) ==
  /\ Ready(w, "key")
  /\ data' = [data EXCEPT ![w] = id[w]]
  /\ Goto(w, "push")
  /\ UNCHANGED <<mainVars, mask, signalVars, pool, id, gc, oldgc, freed, cancelled, timely>>

\* gc.push_back() in two steps: no lock keeps the workers apart, and the vector
\* of the one that stores last may lack the entry of the other.
PushBack(w) ==
  \/ /\ Ready(w, "push")
     /\ oldgc' = [oldgc EXCEPT ![w] = gc]
     /\ Goto(w, "pushing")
     /\ UNCHANGED <<mainVars, mask, signalVars, pool, id, data, gc, freed, cancelled, timely>>
  \/ /\ Ready(w, "pushing")
     /\ gc' \in {Append(gc, w), Append(oldgc[w], w)}
     /\ Goto(w, "mask")
     /\ UNCHANGED <<mainVars, mask, signalVars, pool, id, data, oldgc, freed, cancelled, timely>>

\* Variant: the worker lets every signal through.
UnmaskAll(w) ==
  /\ Ready(w, "mask")
  /\ mask' = [mask EXCEPT ![w] = {}]
  /\ Goto(w, "loop")
  /\ UNCHANGED <<mainVars, signalVars, dataVars, cancelled, timely>>

\* Variant: the worker's own signal stays blocked.
BlockAll(w) ==
  /\ Ready(w, "mask")
  /\ mask' = [mask EXCEPT ![w] = Workers]
  /\ Goto(w, "loop")
  /\ UNCHANGED <<mainVars, signalVars, dataVars, cancelled, timely>>

SetMask(w) ==
  \/ /\ Ready(w, "mask")
     /\ mask' = [mask EXCEPT ![w] = Workers]
     /\ Goto(w, "unmask")
     /\ UNCHANGED <<mainVars, signalVars, dataVars, cancelled, timely>>
  \/ /\ Ready(w, "unmask")
     /\ mask' = [mask EXCEPT ![w] = @ \ {w}]
     /\ Goto(w, "loop")
     /\ UNCHANGED <<mainVars, signalVars, dataVars, cancelled, timely>>

\* From line 146 on: writing, sleeping and testing are cancellation points,
\* and so is the handler's output.
Stop(w) ==
  /\ at[w] = "loop" /\ w \in cancelled
  /\ Goto(w, "gone")
  /\ handling' = [handling EXCEPT ![w] = {}]
  /\ UNCHANGED <<mainVars, mask, pending, shown, handled, dataVars, cancelled, timely>>

-----------------------------------------------------------------------------
(* Signals *)

Alive(t) == IF t = Main THEN main # "gone" ELSE at[t] \notin {"none", "gone"}

\* The kernel takes any thread that does not block the signal.
Deliver(t) ==
  \E s \in pending \ (mask[t] \cup handling[t]) :
    /\ Alive(t)
    /\ pending' = pending \ {s}
    /\ handling' = [handling EXCEPT ![t] = @ \cup {s}]
    /\ UNCHANGED <<mainVars, at, mask, shown, handled, dataVars, cancelled, timely>>

\* The handler prints the id of the thread it runs in, 0 without data.  What
\* is left of deleted data is anything.
Handler(t) ==
  \E s \in handling[t] :
    /\ \E printed \in IF t = Main \/ data[t] = NoData THEN {0}
                      ELSE IF t \in freed THEN Ids ELSE {data[t]} :
         shown' = [shown EXCEPT ![s] = printed]
    /\ handled' = [handled EXCEPT ![s] = @ + 1]
    /\ handling' = [handling EXCEPT ![t] = @ \ {s}]
    /\ UNCHANGED <<mainVars, at, mask, pending, dataVars, cancelled, timely>>

MainThread == Block \/ Create \/ Insert \/ Kill \/ Cancel \/ Clean \/ Bye
Worker(w) ==
  Lookup(w) \/ Missed(w) \/ SetData(w) \/ PushBack(w) \/ SetMask(w) \/ Stop(w)
Signal(t) == Deliver(t) \/ Handler(t)

Next ==
  \/ MainThread
  \/ \E w \in Workers : Worker(w)
  \/ \E t \in Threads : Signal(t)

Spec == Init /\ [][Next]_vars

-----------------------------------------------------------------------------
(* Properties *)

\* Each signal is handled in the worker made for it and nowhere else, although
\* both are sent to the process as a whole and threads come up at any time.
RightThread == \A t \in Threads : handling[t] \subseteq {t}

\* No handler runs without a signal, and if the sleeps are long enough each
\* worker has handled all its signals when main comes to cancel it, and no handler
\* can look at data that main deletes without joining the workers.  As long as main
\* does not clean up, a handler that has run printed the number of its worker, or 0
\* if the worker looked into the map before main wrote it.  Always the types are
\* right.
SignalsCounted ==
  /\ TypeOK
  /\ \A w \in Workers :
       /\ handled[w] <= round
       /\ timely /\ main \in {"clean", "bye"} => handled[w] = ROUNDS
       /\ timely /\ freed # {} => handling[w] = {} /\ w \notin pending
       /\ freed = {} /\ shown[w] # NoData =>
            shown[w] = id[w] /\ id[w] \in {0, Number(w)}
=============================================================================
