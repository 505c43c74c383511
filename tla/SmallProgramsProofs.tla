------------------------ MODULE SmallProgramsProofs -------------------------
(***************************************************************************)
(* Proofs about the small programs, for all constants.                     *)
(*                                                                         *)
(* pthread/p4.cpp: each signal is handled in its own worker only, as often *)
(* as it is sent if the sleeps are long enough.  The first argument is     *)
(* about masks: main blocks both signals before it starts a thread, a new  *)
(* thread has main's mask, and a worker only ever unblocks its own signal. *)
(* The second one is about what a sleep that suffices leaves for main.     *)
(*                                                                         *)
(* pthread/p1.cpp and p2.cpp: how much the races may lose, and what they   *)
(* may not touch.  p3.cpp: its two barriers keep the threads together.     *)
(*                                                                         *)
(* timerfd.c: the single shot is told once (ShotsCounted).  fork_pty.c:    *)
(* what comes back is the child's answer (OwnEcho).  netlink_ipc: requests *)
(* and replies stay apart (RequestsKept).  pipe.c and xmit: the commands   *)
(* are printed by turns (CommandsInTurn).                                  *)
(***************************************************************************)
EXTENDS SmallPrograms, FiniteSetTheorems, SequenceTheorems, TLAPS

\* What a worker in this place may have in its mask.
WorkerMask(w) ==
  /\ at[w] \notin {"none", "gone"} => Workers \ {w} \subseteq mask[w]
  /\ at[w] \in {"lookup", "missed", "key", "push", "pushing", "mask", "unmask"} =>
       Workers \subseteq mask[w]

\* The inductive invariant.
MaskInv ==
  /\ DOMAIN at = Workers /\ DOMAIN mask = Threads /\ DOMAIN handling = Threads
  /\ main = "block" => pending = {} /\ \A w \in Workers : at[w] = "none"
  /\ main # "block" => Workers \subseteq mask[Main]
  /\ pending \subseteq Workers
  /\ main \in {"block", "create", "insert", "kill"} => n \in 1..Len(Order)
  /\ \A w \in Workers : WorkerMask(w)
  /\ RightThread

\* The workers are the two signals, and main is another thread.
LEMMA OrderFacts ==
  /\ Order[1] \in Workers /\ Order[2] \in Workers /\ Len(Order) = 2
  /\ Main \notin Workers /\ Workers \subseteq Threads /\ Main \in Threads
  BY ThreadAssumption DEF Order, Workers, Threads, ToSet

\* At first nothing is pending and nobody is in a handler.
LEMMA InitMaskInv == Init => MaskInv
  BY OrderFacts DEF Init, MaskInv, WorkerMask, RightThread, Threads

-----------------------------------------------------------------------------
(* Every step preserves the invariant *)

\* Steps of main: Create hands main's mask over, Kill makes a signal pending.
LEMMA MainStep == ASSUME MaskInv, MainThread PROVE MaskInv'
<1> USE OrderFacts DEF MainAt, MaskInv, WorkerMask, RightThread
<1>1. CASE Block
  BY <1>1 DEF Block, signalVars
<1>2. CASE Create
  BY <1>2 DEF Create, signalVars
<1>3. CASE Insert
  BY <1>3 DEF Insert, Advance, signalVars
<1>4. CASE Kill
  <2>1. pending' \subseteq Workers
    <3>1. Order[n] \in Workers
      BY <1>4 DEF Kill
    <3>2. QED
      BY <1>4, <3>1 DEF Kill
  <2>2. QED
    BY <1>4, <2>1 DEF Kill, Advance
<1>5. CASE Cancel
  BY <1>5 DEF Cancel, Advance, signalVars
<1>6. CASE Clean
  BY <1>6 DEF Clean, signalVars
<1>7. CASE Bye
  BY <1>7 DEF Bye
<1>8. QED
  BY <1>1, <1>2, <1>3, <1>4, <1>5, <1>6, <1>7 DEF MainThread

\* Steps of a worker: only SetMask changes a mask, and only the worker's own.
LEMMA WorkerStep ==
  ASSUME MaskInv, NEW w \in Workers, Worker(w) PROVE MaskInv'
<1> USE OrderFacts DEF Ready, Goto, MaskInv, WorkerMask, RightThread, mainVars, signalVars
<1>1. CASE Lookup(w)
  BY <1>1 DEF Lookup
<1>2. CASE Missed(w)
  BY <1>2 DEF Missed
<1>3. CASE SetData(w)
  BY <1>3 DEF SetData
<1>4. CASE PushBack(w)
  BY <1>4 DEF PushBack
<1>5. CASE SetMask(w)
  BY <1>5 DEF SetMask
<1>6. CASE Stop(w)
  BY <1>6 DEF Stop
<1>7. QED
  BY <1>1, <1>2, <1>3, <1>4, <1>5, <1>6 DEF Worker

\* A signal is delivered to a thread that does not block it: its worker.
LEMMA SignalStep ==
  ASSUME MaskInv, NEW t \in Threads, Signal(t) PROVE MaskInv'
<1> USE OrderFacts DEF MaskInv, WorkerMask, RightThread, mainVars
<1>1. CASE Deliver(t)
  <2>1. PICK s \in pending \ (mask[t] \cup handling[t]) :
          /\ Alive(t)
          /\ pending' = pending \ {s}
          /\ handling' = [handling EXCEPT ![t] = @ \cup {s}]
          /\ UNCHANGED <<mainVars, at, mask>>
    BY <1>1 DEF Deliver
  <2>2. s = t
    <3>1. CASE t = Main
      BY <2>1, <3>1
    <3>2. CASE t \in Workers
      BY <2>1, <3>2 DEF Alive
    <3>3. QED
      BY <3>1, <3>2 DEF Threads
  <2>3. QED
    BY <2>1, <2>2
<1>2. CASE Handler(t)
  BY <1>2 DEF Handler
<1>3. QED
  BY <1>1, <1>2 DEF Signal

\* SIGUSR1 and SIGUSR2, although sent to the process, are each handled in the
\* worker made for it, whatever the order in which the threads get on.
THEOREM HandledInRightThread == Spec => []RightThread
<1>1. MaskInv /\ [Next]_vars => MaskInv'
  <2> SUFFICES ASSUME MaskInv, [Next]_vars PROVE MaskInv'
    OBVIOUS
  <2>1. CASE Next
    BY <2>1, MainStep, WorkerStep, SignalStep DEF Next
  <2>2. CASE UNCHANGED vars
    BY <2>2 DEF vars, MaskInv, WorkerMask, RightThread, mainVars, signalVars
  <2>3. QED
    BY <2>1, <2>2
<1>2. MaskInv => RightThread
  BY DEF MaskInv
<1>3. QED
  BY InitMaskInv, <1>1, <1>2, PTL DEF Spec

-----------------------------------------------------------------------------
(* How often the handlers run, and what they print *)

Bit(b) == IF b THEN 1 ELSE 0

\* What became of the signals that main sent for w ...
Counted(w) == handled[w] + Bit(w \in pending) + Bit(w \in handling[w])

\* ... and how many main has sent.
Sent(w) ==
  IF main \in {"block", "create", "insert"} THEN 0
  ELSE IF main = "kill" THEN round - 1 + Bit(Number(w) < n)
  ELSE ROUNDS

Before == {"none", "lookup", "missed", "key", "push", "pushing"}

\* A worker appends to gc once, so that gc never has more than two entries.
GcInv ==
  /\ Len(gc) + Bit(at["SIGUSR1"] \in Before) + Bit(at["SIGUSR2"] \in Before) <= 2
  /\ Len(oldgc["SIGUSR1"]) + Bit(at["SIGUSR2"] \in Before) <= 1
  /\ Len(oldgc["SIGUSR2"]) + Bit(at["SIGUSR1"] \in Before) <= 1

\* The handler of w runs in w when w has found its id and stored it.
DataInv ==
  \A w \in Workers :
    /\ id[w] \in {0, Number(w)}
    /\ at[w] \in {"push", "pushing", "mask", "unmask", "loop"} => data[w] = id[w]
    /\ handling[w] # {} => at[w] = "loop"
    /\ shown[w] # NoData => at[w] \in {"loop", "gone"}
    /\ shown[w] # NoData /\ freed = {} => shown[w] = id[w]
    /\ at[w] = "loop" => w \notin mask[w]

MainInv ==
  /\ main \in {"block", "create", "insert", "kill", "cancel"} => n \in 1..2
  /\ main \in {"block", "create", "insert"} => round = 1
  /\ main = "block" => n = 1
  /\ main \in {"block", "create"} => \A k \in n..2 : at[Order[k]] = "none"
  /\ main = "insert" /\ n = 1 => at[Order[2]] = "none"
  /\ main \in {"cancel", "clean", "bye", "gone"} => round = ROUNDS
  /\ freed # {} => main \in {"clean", "bye", "gone"}
  /\ cancelled # {} => (main \in {"clean", "bye", "gone"} \/ (main = "cancel" /\ n = 2))

\* No signal is lost: before it sends one, main has waited for the last one.
TimelyInv ==
  timely =>
    /\ \A w \in Workers : Counted(w) = Sent(w)
    /\ main = "kill" /\ n = 2 =>
         "SIGUSR2" \notin pending /\ handling["SIGUSR2"] = {}
    /\ (main \in {"clean", "bye", "gone"} \/ (main = "cancel" /\ n = 2)) =>
         pending = {} /\ \A w \in Workers : handling[w] = {}

CountInv ==
  /\ TypeOK /\ MaskInv /\ GcInv /\ DataInv /\ MainInv /\ TimelyInv
  /\ \A w \in Workers : Counted(w) <= Sent(w)

LEMMA NumberFacts ==
  /\ Workers = {"SIGUSR1", "SIGUSR2"} /\ Order[1] = "SIGUSR1" /\ Order[2] = "SIGUSR2"
  /\ Len(Order) = 2 /\ Number("SIGUSR1") = 1 /\ Number("SIGUSR2") = 2
  /\ ROUNDS \in Nat \ {0} /\ Main \notin Workers /\ Ids = 0..2 /\ NoData \notin Ids
<1>1. Order = <<"SIGUSR1", "SIGUSR2">> /\ DOMAIN Order = 1..2 /\ Len(Order) = 2
      /\ Order[1] = "SIGUSR1" /\ Order[2] = "SIGUSR2"
  BY DEF Order
<1>2. Workers = {"SIGUSR1", "SIGUSR2"} BY <1>1 DEF Workers, ToSet
<1>3. Number("SIGUSR1") = 1 BY <1>1 DEF Number
<1>4. Number("SIGUSR2") = 2 BY <1>1 DEF Number
<1> QED BY <1>1, <1>2, <1>3, <1>4, ThreadAssumption DEF Ids

\* Both are numbers.
LEMMA CountTypes ==
  /\ TypeOK => \A w \in Workers : Counted(w) \in Nat /\ Sent(w) \in Int
  /\ TypeOK' => \A w \in Workers : Counted(w)' \in Nat /\ Sent(w)' \in Int
<1>1. ASSUME NEW w \in Workers PROVE
        /\ TypeOK => Counted(w) \in Nat /\ Sent(w) \in Int
        /\ TypeOK' => Counted(w)' \in Nat /\ Sent(w)' \in Int
  <2>1. /\ Bit(w \in pending) \in {0, 1} /\ Bit(w \in handling[w]) \in {0, 1}
        /\ Bit(w \in pending)' \in {0, 1} /\ Bit(w \in handling[w])' \in {0, 1}
        /\ Bit(Number(w) < n) \in {0, 1} /\ Bit(Number(w) < n)' \in {0, 1}
    BY DEF Bit
  <2>2. TypeOK => handled[w] \in Nat /\ round \in Nat BY NumberFacts DEF TypeOK
  <2>3. TypeOK' => handled'[w] \in Nat /\ round' \in Nat BY NumberFacts DEF TypeOK
  <2> QED BY <2>1, <2>2, <2>3, NumberFacts DEF Counted, Sent
<1> QED BY <1>1

LEMMA InitCountInv == Init => CountInv
<1> SUFFICES ASSUME Init PROVE CountInv OBVIOUS
<1> USE NumberFacts DEF Init
<1>1. TypeOK BY DEF TypeOK, Threads
<1>2. MaskInv BY InitMaskInv
<1>3. GcInv BY DEF GcInv, Bit, Before
<1>4. DataInv BY DEF DataInv, Threads
<1>5. MainInv BY DEF MainInv
<1>6. \A w \in Workers : Counted(w) = 0 /\ Sent(w) = 0
  BY DEF Counted, Sent, Bit, Threads
<1>7. TimelyInv BY <1>6 DEF TimelyInv
<1> QED BY <1>1, <1>2, <1>3, <1>4, <1>5, <1>6, <1>7 DEF CountInv

\* Starting a worker sends nothing.
LEMMA CreateCount == CountInv /\ (Block \/ Create \/ Insert) => CountInv'
<1> SUFFICES ASSUME CountInv, Block \/ Create \/ Insert PROVE CountInv'
  OBVIOUS
<1> USE NumberFacts DEF CountInv, MainAt
<1>1. MaskInv' BY MainStep DEF MainThread
<1>2. /\ UNCHANGED <<signalVars, id, data, gc, oldgc, freed, cancelled, timely, round>>
      /\ main \in {"block", "create", "insert"} /\ main' \in {"create", "insert", "kill"}
      /\ main' = "kill" => n' = 1
      /\ n \in 1..2 /\ round = 1 /\ n' \in 1..2
  BY DEF Block, Create, Insert, Advance, dataVars, MainInv
<1>3. /\ at' = at \/ \E w \in Workers : at[w] = "none" /\ at' = [at EXCEPT ![w] = "lookup"]
      /\ \A w \in Workers : at[w] # "none" => mask'[w] = mask[w]
  <2>1. CASE Block BY <2>1 DEF Block, MaskInv
  <2>2. CASE Create
    <3>1. Order[n] \in Workers BY <1>2
    <3>2. main = "create" /\ n \in 1..2 BY <1>2, <2>2 DEF Create
    <3>3. at[Order[n]] = "none" BY <3>2 DEF MainInv
    <3> QED BY <2>2, <3>1, <3>3 DEF Create, TypeOK, Threads
  <2>3. CASE Insert BY <2>3 DEF Insert
  <2> QED BY <2>1, <2>2, <2>3
<1>4. TypeOK'
  <2>1. at' \in [Workers -> {"none", "lookup", "missed", "key", "push", "pushing",
                             "mask", "unmask", "loop", "gone"}]
    BY <1>3 DEF TypeOK
  <2>2. mask' \in [Threads -> SUBSET Workers]
    BY DEF Block, Create, Insert, TypeOK, Threads
  <2>3. pool' = pool \/ pool' = pool \cup {Order[n]}
    BY DEF Block, Create, Insert, dataVars
  <2>4. pool' \subseteq Workers
    <3>1. Order[n] \in Workers BY <1>2
    <3> QED BY <2>3, <3>1 DEF TypeOK
  <2> QED BY <1>2, <2>1, <2>2, <2>4 DEF TypeOK, signalVars
<1>5. \A w \in Workers : Counted(w)' = Counted(w) /\ Sent(w)' = 0 /\ Sent(w) = 0
  <2>1. round' = 1 BY <1>2
  <2>2. \A w \in Workers : Sent(w)' = 0 BY <1>2, <2>1 DEF Sent, Bit
  <2> QED BY <1>2, <2>2 DEF Counted, Sent, signalVars
<1>6. GcInv' BY <1>2, <1>3 DEF GcInv, Before, Bit, TypeOK
<1>7. DataInv' BY <1>2, <1>3 DEF DataInv, signalVars, TypeOK
<1>8. MainInv' BY <1>2, <1>3 DEF MainInv, Block, Create, Insert, Advance, TypeOK
<1>9. TimelyInv' BY <1>2, <1>5 DEF TimelyInv
<1> QED BY <1>1, <1>4, <1>5, <1>6, <1>7, <1>8, <1>9

\* Main sends a signal: if the workers got everything done, the last one has
\* been handled.
LEMMA KillCount == CountInv /\ Kill => CountInv'
<1> SUFFICES ASSUME CountInv, Kill PROVE CountInv'
  OBVIOUS
<1> USE NumberFacts DEF CountInv, MainAt, Kill
<1>1. MaskInv' BY MainStep DEF MainThread
<1>2. /\ UNCHANGED <<at, mask, handling, shown, handled, dataVars, cancelled, timely>>
      /\ main = "kill" /\ n \in 1..2 /\ pending' = pending \cup {Order[n]}
      /\ freed = {} /\ cancelled = {}
  BY DEF MainInv
<1>3. \/ n = 1 /\ n' = 2 /\ main' = "kill" /\ round' = round
      \/ n = 2 /\ n' = 1 /\ main' = "kill" /\ round < ROUNDS /\ round' = round + 1
      \/ n = 2 /\ n' = 1 /\ main' = "cancel" /\ round = ROUNDS /\ round' = round
  BY <1>2 DEF Advance, TypeOK
<1>4. pending' \subseteq Workers
  <2>1. Order[n] \in Workers BY <1>2
  <2> QED BY <1>2, <2>1 DEF TypeOK
<1>5. TypeOK' BY <1>2, <1>3, <1>4 DEF TypeOK, dataVars
<1>6. GcInv' BY <1>2 DEF GcInv, dataVars
<1>7. DataInv' BY <1>2 DEF DataInv, dataVars
<1>8. MainInv' BY <1>2, <1>3 DEF MainInv, dataVars
<1>9. \A w \in Workers : Sent(w)' = Sent(w) + Bit(w = Order[n])
  <2>1. CASE n = 1 BY <1>2, <1>3, <2>1 DEF Sent, Bit, TypeOK
  <2>2. CASE n = 2 BY <1>2, <1>3, <2>2 DEF Sent, Bit, TypeOK
  <2> QED BY <1>2, <2>1, <2>2
<1>10. \A w \in Workers : Counted(w)' <= Counted(w) + Bit(w = Order[n])
  BY <1>2 DEF Counted, Bit, TypeOK
<1>11. \A w \in Workers : Counted(w)' <= Sent(w)'
  <2> TAKE w \in Workers
  <2>1. Bit(w = Order[n]) \in Nat BY DEF Bit
  <2> QED BY <1>5, <1>9, <1>10, <2>1, CountTypes
<1>12. TimelyInv'
  <2> SUFFICES ASSUME timely PROVE TimelyInv'
    BY <1>2 DEF TimelyInv
  <2>1. n = 1 => pending = {} /\ \A w \in Workers : handling[w] = {}
    BY DEF Slept, DataInv, TypeOK, Threads
  <2>2. Order[n] \notin pending BY <1>2, <2>1 DEF TimelyInv
  <2>3. \A w \in Workers : Counted(w)' = Sent(w)'
    BY <1>2, <1>9, <2>2 DEF TimelyInv, Counted, Bit, TypeOK
  <2>4. main' = "kill" /\ n' = 2 => "SIGUSR2" \notin pending' /\ handling'["SIGUSR2"] = {}
    BY <1>2, <1>3, <2>1
  <2> QED BY <1>3, <2>3, <2>4 DEF TimelyInv
<1> QED BY <1>1, <1>5, <1>6, <1>7, <1>8, <1>11, <1>12

\* Main cancels the workers when everything it sent has been counted.
LEMMA CancelCount == CountInv /\ Cancel => CountInv'
<1> SUFFICES ASSUME CountInv, Cancel PROVE CountInv'
  OBVIOUS
<1> USE NumberFacts DEF CountInv, MainAt, Cancel
<1>1. MaskInv' BY MainStep DEF MainThread
<1>2. /\ UNCHANGED <<round, at, mask, signalVars, dataVars, timely>>
      /\ main = "cancel" /\ n \in 1..2 /\ round = ROUNDS
      /\ freed = {} /\ cancelled' \subseteq Workers
  BY DEF MainInv, TypeOK
<1>3. \/ n = 1 /\ n' = 2 /\ main' = "cancel"
      \/ n = 2 /\ n' = 1 /\ main' = "clean"
  BY <1>2 DEF Advance
<1>4. TypeOK' BY <1>2, <1>3 DEF TypeOK, dataVars, signalVars
<1>5. GcInv' BY <1>2 DEF GcInv, dataVars
<1>6. DataInv' BY <1>2 DEF DataInv, dataVars, signalVars
<1>7. MainInv' BY <1>2, <1>3 DEF MainInv, dataVars
<1>8. \A w \in Workers : Counted(w)' = Counted(w) /\ Sent(w)' = Sent(w)
  BY <1>2, <1>3 DEF Counted, Sent, signalVars
<1>9. TimelyInv'
  <2> SUFFICES ASSUME timely PROVE TimelyInv'
    BY <1>2 DEF TimelyInv
  <2>1. pending = {} /\ \A w \in Workers : handling[w] = {}
    <3>1. CASE n = 1
      <4>1. \A w \in Workers : at[w] = "loop" /\ handling[w] = {} /\ pending \subseteq mask[w]
        BY <3>1 DEF Slept, Threads
      <4> QED BY <4>1 DEF DataInv, TypeOK
    <3>2. CASE n = 2 BY <1>2, <3>2 DEF TimelyInv
    <3> QED BY <1>2, <3>1, <3>2
  <2> QED BY <1>2, <1>3, <1>8, <2>1 DEF TimelyInv, signalVars
<1> QED BY <1>1, <1>4, <1>5, <1>6, <1>7, <1>8, <1>9

\* Main deletes what the handlers look at.
LEMMA CleanCount == CountInv /\ Clean => CountInv'
<1> SUFFICES ASSUME CountInv, Clean PROVE CountInv'
  OBVIOUS
<1> USE NumberFacts DEF CountInv, MainAt, Clean
<1>1. MaskInv' BY MainStep DEF MainThread
<1>2. /\ UNCHANGED <<round, at, mask, signalVars, pool, id, data, gc, oldgc, cancelled, timely>>
      /\ main = "clean" /\ main' \in {"clean", "bye"} /\ round = ROUNDS
  BY DEF MainInv
<1>3. TypeOK'
  <2>1. Len(gc) \in Nat /\ Len(gc) <= 2
    <3>1. gc \in Seq(Workers) BY DEF TypeOK
    <3>2. Len(gc) \in Nat BY <3>1
    <3>3. Bit(at["SIGUSR1"] \in Before) \in {0, 1} /\ Bit(at["SIGUSR2"] \in Before) \in {0, 1}
      BY DEF Bit
    <3> QED BY <3>2, <3>3 DEF GcInv
  <2>2. n' \in 1..3 BY <2>1 DEF TypeOK
  <2>3. freed' \subseteq Workers
    <3>1. gc \in Seq(Workers) /\ n \in 1..3 BY DEF TypeOK
    <3>2. n <= Len(gc) => gc[n] \in Workers BY <2>1, <3>1
    <3>3. freed' = freed \/ (n <= Len(gc) /\ freed' = freed \cup {gc[n]}) OBVIOUS
    <3> QED BY <3>2, <3>3 DEF TypeOK
  <2> QED BY <1>2, <2>2, <2>3 DEF TypeOK, signalVars
<1>4. GcInv' BY <1>2 DEF GcInv
<1>5. DataInv' 
  <2>1. freed' = {} => freed = {} OBVIOUS
  <2> QED BY <1>2, <2>1 DEF DataInv, signalVars
<1>6. MainInv' BY <1>2 DEF MainInv
<1>7. \A w \in Workers : Counted(w)' = Counted(w) /\ Sent(w)' = Sent(w)
  BY <1>2 DEF Counted, Sent, signalVars
<1>8. TimelyInv' BY <1>2, <1>7 DEF TimelyInv, signalVars
<1> QED BY <1>1, <1>3, <1>4, <1>5, <1>6, <1>7, <1>8

\* The process ends.
LEMMA ByeCount == CountInv /\ Bye => CountInv'
<1> SUFFICES ASSUME CountInv, Bye PROVE CountInv'
  OBVIOUS
<1> USE NumberFacts DEF CountInv, MainAt, Bye
<1>1. MaskInv' BY MainStep DEF MainThread
<1>2. /\ UNCHANGED <<n, round, mask, pending, shown, handled, dataVars, cancelled, timely>>
      /\ main = "bye" /\ main' = "gone" /\ round = ROUNDS
      /\ \A w \in Workers : at'[w] = "gone" /\ handling'[w] = {}
  BY DEF MainInv, Threads
<1>3. TypeOK' BY <1>2 DEF TypeOK, dataVars
<1>4. GcInv'
  <2>1. /\ Len(gc) \in Nat /\ \A w \in Workers : Len(oldgc[w]) \in Nat
        /\ gc' = gc /\ oldgc' = oldgc
    BY <1>2 DEF dataVars, TypeOK
  <2>2. /\ Bit(at["SIGUSR1"] \in Before) \in {0, 1} /\ Bit(at["SIGUSR2"] \in Before) \in {0, 1}
        /\ Bit(at["SIGUSR1"] \in Before)' = 0 /\ Bit(at["SIGUSR2"] \in Before)' = 0
    BY <1>2 DEF Bit, Before
  <2> QED BY <2>1, <2>2 DEF GcInv
<1>5. DataInv' BY <1>2 DEF DataInv, dataVars
<1>6. MainInv' BY <1>2 DEF MainInv, dataVars
<1>7. \A w \in Workers : Counted(w)' <= Counted(w) /\ Sent(w)' = Sent(w)
  <2> TAKE w \in Workers
  <2>1. Sent(w)' = Sent(w) BY <1>2 DEF Sent
  <2>2. handled' = handled /\ pending' = pending /\ handling'[w] = {} BY <1>2
  <2>3. Bit(w \in handling[w])' = 0 /\ Bit(w \in handling[w]) \in {0, 1}
        /\ Bit(w \in pending) \in {0, 1} /\ Bit(w \in pending)' = Bit(w \in pending)
    BY <2>2 DEF Bit
  <2>4. handled[w] \in Nat BY DEF TypeOK
  <2> QED BY <2>1, <2>2, <2>3, <2>4 DEF Counted
<1>8. TimelyInv'
  <2>1. timely => \A w \in Workers : handling[w] = {} BY <1>2 DEF TimelyInv
  <2>2. timely => \A w \in Workers : Counted(w)' = Counted(w)
    BY <1>2, <2>1 DEF Counted
  <2>3. timely' = timely /\ main' = "gone" /\ pending' = pending BY <1>2
  <2>4. timely => pending = {} /\ \A w \in Workers : Counted(w) = Sent(w) BY <1>2 DEF TimelyInv
  <2>5. timely => \A w \in Workers : Counted(w)' = Sent(w)' BY <1>7, <2>2, <2>4
  <2>6. \A w \in Workers : handling'[w] = {} BY <1>2
  <2>7. timely' => pending' = {} /\ \A w \in Workers : Counted(w)' = Sent(w)'
    BY <2>3, <2>4, <2>5
  <2> QED BY ONLY <2>3, <2>6, <2>7 DEF TimelyInv
<1>9. \A w \in Workers : Counted(w)' <= Sent(w)'
  BY <1>3, <1>7, CountTypes
<1> QED BY <1>1, <1>3, <1>4, <1>5, <1>6, <1>8, <1>9

\* What the steps of a worker outside the handler have in common.
WorkerMoves(w, from, to) ==
  /\ at[w] \in from /\ handling[w] = {}
  /\ \E there \in to : at' = [at EXCEPT ![w] = there]
  /\ UNCHANGED <<mainVars, signalVars, freed, cancelled, timely>>

\* Such a step changes no count.
LEMMA MoveCount ==
  ASSUME CountInv, NEW w \in Workers, NEW from, NEW to, WorkerMoves(w, from, to),
         "none" \notin from
  PROVE  /\ MainInv' /\ TimelyInv'
         /\ \A v \in Workers : Counted(v)' <= Sent(v)'
<1> USE NumberFacts DEF WorkerMoves, mainVars, signalVars, CountInv
<1>1. \A v \in Workers : Counted(v)' = Counted(v) /\ Sent(v)' = Sent(v)
  BY DEF Counted, Sent
<1>2. TimelyInv' BY <1>1 DEF TimelyInv
<1>3. \A v \in Workers : at[v] = "none" => at'[v] = "none"
  BY DEF TypeOK
<1>4. MainInv'
  <2>1. main' \in {"block", "create"} => \A k \in n'..2 : at'[Order[k]] = "none"
    BY <1>3 DEF MainInv, TypeOK
  <2>2. main' = "insert" /\ n' = 1 => at'[Order[2]] = "none"
    BY <1>3 DEF MainInv
  <2> QED BY <2>1, <2>2 DEF MainInv
<1> QED BY <1>1, <1>2, <1>4

\* A worker looks for its number and stores it where its handler will look.
LEMMA FindCount ==
  ASSUME CountInv, NEW w \in Workers, Lookup(w) \/ Missed(w) \/ SetData(w)
  PROVE  CountInv'
<1> USE NumberFacts DEF CountInv
<1>1. MaskInv' BY WorkerStep DEF Worker
<1>2. WorkerMoves(w, {"lookup", "missed", "key"}, {"missed", "key", "gone", "push"})
  BY DEF WorkerMoves, Lookup, Missed, SetData, Ready, Goto, dataVars
<1>3. MainInv' /\ TimelyInv' /\ \A v \in Workers : Counted(v)' <= Sent(v)'
  BY <1>2, MoveCount
<1>4. /\ UNCHANGED <<mainVars, mask, signalVars, gc, oldgc, pool, freed, cancelled, timely>>
      /\ \A v \in Workers \ {w} : at'[v] = at[v] /\ id'[v] = id[v] /\ data'[v] = data[v]
      /\ at[w] \in {"lookup", "missed", "key"} /\ handling[w] = {}
      /\ at'[w] \in {"missed", "key", "gone", "push"}
      /\ id' \in [Workers -> Ids] /\ data' \in [Workers -> Ids \cup {NoData}]
      /\ id'[w] \in {0, Number(w)} /\ (at'[w] = "push" => data'[w] = id'[w])
  BY DEF Lookup, Missed, SetData, Ready, Goto, TypeOK, dataVars, DataInv
<1>5. TypeOK'
  BY <1>2, <1>4 DEF TypeOK, WorkerMoves, mainVars, signalVars
<1>6. GcInv'
  <2>1. /\ Len(gc) \in Nat /\ \A v \in Workers : Len(oldgc[v]) \in Nat
    BY DEF TypeOK
  <2>2. \A v \in Workers : Bit(at[v] \in Before)' \in {0, 1} /\ Bit(at[v] \in Before) \in {0, 1}
                          /\ Bit(at[v] \in Before)' <= Bit(at[v] \in Before)
    BY <1>4 DEF Bit, Before
  <2> QED BY <1>4, <2>1, <2>2 DEF GcInv
<1>7. DataInv'
  BY <1>4 DEF DataInv, signalVars
<1> QED BY <1>1, <1>3, <1>5, <1>6, <1>7

\* A worker appends to gc, in two steps.
LEMMA PushCount == ASSUME CountInv, NEW w \in Workers, PushBack(w) PROVE CountInv'
<1> USE NumberFacts DEF CountInv
<1>1. MaskInv' BY WorkerStep DEF Worker
<1>2. WorkerMoves(w, {"push", "pushing"}, {"pushing", "mask"})
  BY DEF WorkerMoves, PushBack, Ready, Goto
<1>3. MainInv' /\ TimelyInv' /\ \A v \in Workers : Counted(v)' <= Sent(v)'
  BY <1>2, MoveCount
<1>4. /\ UNCHANGED <<mainVars, mask, signalVars, pool, id, data, freed, cancelled, timely>>
      /\ \A v \in Workers \ {w} : at'[v] = at[v] /\ oldgc'[v] = oldgc[v]
      /\ \/ at[w] = "push" /\ at'[w] = "pushing" /\ gc' = gc /\ oldgc'[w] = gc
         \/ /\ at[w] = "pushing" /\ at'[w] = "mask" /\ oldgc' = oldgc
            /\ gc' \in {Append(gc, w), Append(oldgc[w], w)}
  BY DEF PushBack, Ready, Goto, TypeOK
<1>5. gc' \in Seq(Workers) /\ oldgc' \in [Workers -> Seq(Workers)]
  <2>1. gc \in Seq(Workers) /\ oldgc[w] \in Seq(Workers) BY DEF TypeOK
  <2>2. Append(gc, w) \in Seq(Workers) /\ Append(oldgc[w], w) \in Seq(Workers) BY <2>1
  <2>3. gc' \in {gc, Append(gc, w), Append(oldgc[w], w)}
        /\ oldgc' \in {oldgc, [oldgc EXCEPT ![w] = gc]}
    BY DEF PushBack
  <2>4. oldgc \in [Workers -> Seq(Workers)] BY DEF TypeOK
  <2>5. [oldgc EXCEPT ![w] = gc] \in [Workers -> Seq(Workers)] BY <2>1, <2>4
  <2> QED BY <2>1, <2>2, <2>3, <2>4, <2>5
<1>6. TypeOK'
  BY <1>2, <1>4, <1>5 DEF TypeOK, WorkerMoves, mainVars, signalVars
<1>7. GcInv'
  <2>1. /\ Len(gc) \in Nat /\ \A v \in Workers : Len(oldgc[v]) \in Nat
        /\ Len(Append(gc, w)) = Len(gc) + 1 /\ Len(Append(oldgc[w], w)) = Len(oldgc[w]) + 1
    BY DEF TypeOK
  <2>2. \A v \in Workers : Bit(at[v] \in Before) \in {0, 1} BY DEF Bit
  <2>3. \A v \in Workers \ {w} : Bit(at[v] \in Before)' = Bit(at[v] \in Before)
    BY <1>4 DEF Bit
  <2>4. Bit(at[w] \in Before) = 1 BY <1>4 DEF Bit, Before
  <2>5. Bit(at[w] \in Before)' = IF at[w] = "push" THEN 1 ELSE 0
    BY <1>4 DEF Bit, Before
  <2> QED BY <1>4, <2>1, <2>2, <2>3, <2>4, <2>5 DEF GcInv
<1>8. DataInv'
  BY <1>2, <1>4 DEF DataInv, signalVars, WorkerMoves
<1> QED BY <1>1, <1>3, <1>6, <1>7, <1>8

\* A worker lets its own signal through.
LEMMA SetMaskCount == ASSUME CountInv, NEW w \in Workers, SetMask(w) PROVE CountInv'
<1> USE NumberFacts DEF CountInv
<1>1. MaskInv' BY WorkerStep DEF Worker
<1>2. WorkerMoves(w, {"mask", "unmask"}, {"unmask", "loop"})
  BY DEF WorkerMoves, SetMask, Ready, Goto, dataVars
<1>3. MainInv' /\ TimelyInv' /\ \A v \in Workers : Counted(v)' <= Sent(v)'
  BY <1>2, MoveCount
<1>4. /\ UNCHANGED <<mainVars, signalVars, dataVars, cancelled, timely>>
      /\ \A v \in Workers \ {w} : at'[v] = at[v] /\ mask'[v] = mask[v]
      /\ \/ at[w] = "mask" /\ at'[w] = "unmask"
         \/ at[w] = "unmask" /\ at'[w] = "loop" /\ mask'[w] = mask[w] \ {w}
  BY DEF SetMask, Ready, Goto, TypeOK, Threads
<1>5. mask' \in [Threads -> SUBSET Workers]
  <2>1. mask[w] \subseteq Workers BY DEF TypeOK, Threads
  <2>2. \E m \in SUBSET Workers : mask' = [mask EXCEPT ![w] = m] BY <2>1 DEF SetMask
  <2> QED BY <2>2 DEF TypeOK, Threads
<1>6. TypeOK'
  BY <1>2, <1>4, <1>5 DEF TypeOK, WorkerMoves, mainVars, signalVars, dataVars
<1>7. GcInv'
  <2>1. \A v \in Workers : (at'[v] \in Before) = (at[v] \in Before)
    BY <1>4 DEF Before
  <2> QED BY <1>4, <2>1 DEF GcInv, Bit, dataVars
<1>8. DataInv'
  BY <1>4 DEF DataInv, signalVars, dataVars
<1> QED BY <1>1, <1>3, <1>6, <1>7, <1>8

\* A cancelled worker ends: then main has counted everything, if the workers
\* got everything done.
LEMMA StopCount == ASSUME CountInv, NEW w \in Workers, Stop(w) PROVE CountInv'
<1> USE NumberFacts DEF CountInv
<1>1. MaskInv' BY WorkerStep DEF Worker
<1>2. /\ UNCHANGED <<mainVars, mask, pending, shown, handled, dataVars, cancelled, timely>>
      /\ \A v \in Workers \ {w} : at'[v] = at[v] /\ handling'[v] = handling[v]
      /\ at[w] = "loop" /\ at'[w] = "gone" /\ handling'[w] = {} /\ cancelled # {}
  BY DEF Stop, Goto, TypeOK, Threads
<1>3. TypeOK'
  <2>1. handling' \in [Threads -> SUBSET Workers] BY DEF Stop, TypeOK, Threads
  <2>2. at' \in [Workers -> {"none", "lookup", "missed", "key", "push", "pushing",
                             "mask", "unmask", "loop", "gone"}]
    BY DEF Stop, Goto, TypeOK
  <2> QED BY <1>2, <2>1, <2>2 DEF TypeOK, mainVars, dataVars
<1>4. GcInv'
  <2>1. \A v \in Workers : (at'[v] \in Before) = (at[v] \in Before)
    BY <1>2 DEF Before
  <2> QED BY <1>2, <2>1 DEF GcInv, Bit, dataVars
<1>5. DataInv' BY <1>2 DEF DataInv, dataVars
<1>6. MainInv'
  <2>1. \A v \in Workers : at[v] = "none" => at'[v] = "none" BY <1>2
  <2>2. main' \in {"block", "create"} => \A k \in n'..2 : at'[Order[k]] = "none"
    BY <1>2, <2>1 DEF MainInv, TypeOK, mainVars
  <2> QED BY <1>2, <2>1, <2>2 DEF MainInv, mainVars, dataVars
<1>7. \A v \in Workers : Sent(v)' = Sent(v)
  BY <1>2 DEF Sent, mainVars
<1>8. \A v \in Workers : Counted(v)' <= Counted(v)
  <2> TAKE v \in Workers
  <2>1. handled'[v] = handled[v] /\ handled[v] \in Nat BY <1>2 DEF TypeOK
  <2>2. Bit(v \in pending)' = Bit(v \in pending) /\ Bit(v \in pending) \in {0, 1}
    BY <1>2 DEF Bit
  <2>3. Bit(v \in handling[v])' <= Bit(v \in handling[v]) /\ Bit(v \in handling[v]) \in {0, 1}
        /\ Bit(v \in handling[v])' \in {0, 1}
    BY <1>2 DEF Bit
  <2> QED BY <2>1, <2>2, <2>3 DEF Counted
<1>9. TimelyInv'
  <2> SUFFICES ASSUME timely PROVE TimelyInv'
    BY <1>2 DEF TimelyInv
  <2>1. main \in {"clean", "bye", "gone"} \/ (main = "cancel" /\ n = 2)
    BY <1>2 DEF MainInv
  <2>2. pending = {} /\ \A v \in Workers : handling[v] = {}
    BY <2>1 DEF TimelyInv
  <2>3. \A v \in Workers : handling'[v] = {} BY <1>2, <2>2
  <2>4. \A v \in Workers : Counted(v)' = Counted(v)
    BY <1>2, <2>2, <2>3 DEF Counted
  <2> QED BY <1>2, <1>7, <2>2, <2>3, <2>4 DEF TimelyInv, mainVars
<1>10. \A v \in Workers : Counted(v)' <= Sent(v)'
  BY <1>3, <1>7, <1>8, CountTypes
<1> QED BY <1>1, <1>3, <1>4, <1>5, <1>6, <1>9, <1>10

\* A pending signal is counted on when its worker takes it.
LEMMA DeliverCount == ASSUME CountInv, NEW t \in Threads, Deliver(t) PROVE CountInv'
<1> USE NumberFacts DEF CountInv
<1>1. MaskInv' BY SignalStep DEF Signal
<1>2. PICK s \in pending \ (mask[t] \cup handling[t]) :
        /\ Alive(t)
        /\ pending' = pending \ {s}
        /\ handling' = [handling EXCEPT ![t] = @ \cup {s}]
        /\ UNCHANGED <<mainVars, at, mask, shown, handled, dataVars, cancelled, timely>>
  BY DEF Deliver
<1>3. s = t /\ t \in Workers
  <2>1. s \in handling'[t] /\ s \in Workers BY <1>2 DEF TypeOK
  <2>2. handling'[t] \subseteq {t} BY <1>1 DEF MaskInv, RightThread
  <2> QED BY <2>1, <2>2
<1>4. at[t] = "loop"
  <2>1. at[t] \notin {"none", "gone"} /\ t \notin mask[t]
    BY <1>2, <1>3 DEF Alive
  <2>2. WorkerMask(t) BY <1>3 DEF MaskInv
  <2> QED BY <1>3, <2>1, <2>2 DEF WorkerMask, TypeOK
<1>5. \A v \in Workers \ {t} : handling'[v] = handling[v] /\ (v \in pending' <=> v \in pending)
  BY <1>2, <1>3 DEF TypeOK, Threads
<1>6. t \in handling'[t] /\ t \notin handling[t] /\ t \in pending /\ t \notin pending'
  BY <1>2, <1>3 DEF TypeOK, Threads
<1>7. TypeOK'
  <2>1. handling' \in [Threads -> SUBSET Workers] BY <1>2, <1>3 DEF TypeOK
  <2>2. pending' \subseteq Workers BY <1>2 DEF TypeOK
  <2> QED BY <1>2, <2>1, <2>2 DEF TypeOK, mainVars, dataVars
<1>8. GcInv' BY <1>2 DEF GcInv, dataVars
<1>9. DataInv' BY <1>2, <1>4, <1>5 DEF DataInv, dataVars
<1>10. MainInv' BY <1>2 DEF MainInv, mainVars, dataVars
<1>11. \A v \in Workers : Counted(v)' = Counted(v) /\ Sent(v)' = Sent(v)
  <2> TAKE v \in Workers
  <2>1. Sent(v)' = Sent(v) BY <1>2 DEF Sent, mainVars
  <2>2. handled'[v] = handled[v] /\ handled[v] \in Nat BY <1>2 DEF TypeOK
  <2>3. CASE v = t
    <3>1. Bit(v \in pending)' = 0 /\ Bit(v \in handling[v])' = 1
          /\ Bit(v \in pending) = 1 /\ Bit(v \in handling[v]) = 0
      BY <1>6, <2>3 DEF Bit
    <3> QED BY <2>1, <2>2, <3>1 DEF Counted
  <2>4. CASE v # t
    <3>1. Bit(v \in pending)' = Bit(v \in pending) /\ Bit(v \in handling[v])' = Bit(v \in handling[v])
      BY <1>5, <2>4 DEF Bit
    <3> QED BY <2>1, <2>2, <3>1 DEF Counted
  <2> QED BY <2>3, <2>4
<1>12. TimelyInv'
  <2>1. timely => ~(main \in {"clean", "bye", "gone"} \/ (main = "cancel" /\ n = 2))
    BY <1>2 DEF TimelyInv
  <2>2. timely /\ main = "kill" /\ n = 2 => t # "SIGUSR2" BY <1>6 DEF TimelyInv
  <2>3. timely /\ main = "kill" /\ n = 2 => "SIGUSR2" \notin pending' /\ handling'["SIGUSR2"] = {}
    BY <1>5, <2>2 DEF TimelyInv
  <2>4. UNCHANGED <<main, n, timely>> BY <1>2 DEF mainVars
  <2> QED BY <1>11, <2>1, <2>3, <2>4 DEF TimelyInv
<1> QED BY <1>1, <1>7, <1>8, <1>9, <1>10, <1>11, <1>12

\* The handler finds the number of its worker, as long as it is there.
LEMMA HandlerCount == ASSUME CountInv, NEW t \in Threads, Handler(t) PROVE CountInv'
<1> USE NumberFacts DEF CountInv
<1>1. MaskInv' BY SignalStep DEF Signal
<1>2. PICK s \in handling[t] :
        /\ \E told \in IF t = Main \/ data[t] = NoData THEN {0}
                          ELSE IF t \in freed THEN Ids ELSE {data[t]} :
             shown' = [shown EXCEPT ![s] = told]
        /\ handled' = [handled EXCEPT ![s] = @ + 1]
        /\ handling' = [handling EXCEPT ![t] = @ \ {s}]
        /\ UNCHANGED <<mainVars, at, mask, pending, dataVars, cancelled, timely>>
  BY DEF Handler
<1>3. s = t /\ t \in Workers
  <2>1. handling[t] \subseteq {t} BY DEF MaskInv, RightThread
  <2>2. s \in Workers BY <1>2 DEF TypeOK
  <2> QED BY <1>2, <2>1, <2>2
<1>4. /\ at[t] = "loop" /\ data[t] = id[t] /\ id[t] \in {0, Number(t)} /\ data[t] # NoData
  <2>1. at[t] = "loop" /\ data[t] = id[t] /\ id[t] \in {0, Number(t)}
    BY <1>2, <1>3 DEF DataInv
  <2> QED BY <1>3, <2>1 DEF TypeOK
<1>5. /\ shown'[t] \in Ids /\ (freed = {} => shown'[t] = id[t])
      /\ shown' \in [Workers -> Ids \cup {NoData}]
      /\ \A v \in Workers \ {t} : shown'[v] = shown[v]
  BY <1>2, <1>3, <1>4 DEF TypeOK
<1>6. \A v \in Workers \ {t} : handling'[v] = handling[v] /\ handled'[v] = handled[v]
  BY <1>2, <1>3 DEF TypeOK, Threads
<1>7. t \in handling[t] /\ t \notin handling'[t] /\ handled'[t] = handled[t] + 1
      /\ \A v \in Workers : handling'[v] \subseteq handling[v]
  BY <1>2, <1>3 DEF TypeOK, Threads
<1>8. \A v \in Workers : Counted(v)' = Counted(v) /\ Sent(v)' = Sent(v)
  <2> TAKE v \in Workers
  <2>1. Sent(v)' = Sent(v) BY <1>2 DEF Sent, mainVars
  <2>2. handled[v] \in Nat /\ Bit(v \in pending)' = Bit(v \in pending) /\ Bit(v \in pending) \in {0, 1}
    BY <1>2 DEF TypeOK, Bit
  <2>3. CASE v = t
    <3>1. Bit(v \in handling[v])' = 0 /\ Bit(v \in handling[v]) = 1
      BY <1>7, <2>3 DEF Bit
    <3> QED BY <1>7, <2>1, <2>2, <2>3, <3>1 DEF Counted
  <2>4. CASE v # t
    <3>1. Bit(v \in handling[v])' = Bit(v \in handling[v])
      BY <1>6, <2>4 DEF Bit
    <3> QED BY <1>6, <2>1, <2>2, <2>4, <3>1 DEF Counted
  <2> QED BY <2>3, <2>4
<1>9. handled'[t] <= ROUNDS
  <2>1. /\ Counted(t) <= Sent(t) /\ Bit(t \in handling[t]) = 1 /\ Bit(t \in pending) \in {0, 1}
        /\ handled[t] \in Nat
    BY <1>3, <1>7 DEF Bit, TypeOK
  <2>2. Sent(t) <= ROUNDS
    <3>1. Bit(Number(t) < n) \in {0, 1} BY DEF Bit
    <3> QED BY <3>1 DEF Sent, TypeOK
  <2>3. Sent(t) \in Int BY <1>3, CountTypes
  <2> QED BY <1>7, <2>1, <2>2, <2>3 DEF Counted
<1>10. TypeOK'
  <2>1. handling' \in [Threads -> SUBSET Workers] BY <1>2, <1>3 DEF TypeOK
  <2>2. handled' \in [Workers -> 0..ROUNDS]
    <3>1. handled'[t] \in 0..ROUNDS BY <1>3, <1>7, <1>9 DEF TypeOK
    <3> QED BY <1>2, <1>3, <3>1 DEF TypeOK
  <2> QED BY <1>2, <1>5, <2>1, <2>2 DEF TypeOK, mainVars, dataVars
<1>11. GcInv' BY <1>2 DEF GcInv, dataVars
<1>12. DataInv'
  <2>1. UNCHANGED <<at, id, data, freed, mask>> BY <1>2 DEF dataVars
  <2> QED BY <1>4, <1>5, <1>6, <1>7, <2>1 DEF DataInv
<1>13. MainInv' BY <1>2 DEF MainInv, mainVars, dataVars
<1>14. TimelyInv'
  <2>1. UNCHANGED <<main, n, timely, pending>> BY <1>2 DEF mainVars
  <2> QED BY <1>7, <1>8, <2>1 DEF TimelyInv
<1> QED BY <1>1, <1>8, <1>10, <1>11, <1>12, <1>13, <1>14

\* No handler runs without a signal and none too late; what it prints is the
\* number of its worker, or 0.
THEOREM CountedAsSent == Spec => []SignalsCounted
<1>1. CountInv /\ [Next]_vars => CountInv'
  <2> SUFFICES ASSUME CountInv, [Next]_vars PROVE CountInv'
    OBVIOUS
  <2>1. CASE MainThread
    BY <2>1, CreateCount, KillCount, CancelCount, CleanCount, ByeCount DEF MainThread
  <2>2. ASSUME NEW w \in Workers, Worker(w) PROVE CountInv'
    BY <2>2, FindCount, PushCount, SetMaskCount, StopCount DEF Worker
  <2>3. ASSUME NEW t \in Threads, Signal(t) PROVE CountInv'
    BY <2>3, DeliverCount, HandlerCount DEF Signal
  <2>4. CASE UNCHANGED vars
    <3>1. UNCHANGED <<main, n, round, at, mask, pending, handling, shown, handled, pool, id,
                      data, gc, oldgc, freed, cancelled, timely>>
      BY <2>4 DEF vars, mainVars, dataVars, signalVars
    <3>2. /\ \A w \in Workers : Counted(w)' = Counted(w) /\ Sent(w)' = Sent(w)
          /\ \A w \in Workers : WorkerMask(w)' = WorkerMask(w)
      BY <3>1 DEF Counted, Sent, WorkerMask
    <3>3. TypeOK' /\ MaskInv' /\ GcInv' /\ DataInv' /\ MainInv'
      BY <3>1, <3>2 DEF CountInv, TypeOK, MaskInv, RightThread, GcInv, DataInv, MainInv
    <3>4. TimelyInv' BY <3>1, <3>2 DEF CountInv, TimelyInv
    <3> QED BY <3>2, <3>3, <3>4 DEF CountInv
  <2> QED BY <2>1, <2>2, <2>3, <2>4 DEF Next
<1>2. CountInv => SignalsCounted
  <2> SUFFICES ASSUME CountInv, NEW w \in Workers
      PROVE  /\ handled[w] <= round
             /\ timely /\ main \in {"clean", "bye"} => handled[w] = ROUNDS
             /\ timely /\ freed # {} => handling[w] = {} /\ w \notin pending
             /\ freed = {} /\ shown[w] # NoData =>
                  shown[w] = id[w] /\ id[w] \in {0, Number(w)}
    BY DEF SignalsCounted, CountInv
  <2> USE NumberFacts DEF CountInv
  <2>1. /\ Bit(w \in pending) \in {0, 1} /\ Bit(w \in handling[w]) \in {0, 1}
        /\ Bit(Number(w) < n) \in {0, 1}
        /\ handled[w] \in Nat /\ round \in Nat
    BY DEF Bit, TypeOK
  <2>2. Sent(w) \in Int /\ Sent(w) <= round
    BY <2>1, CountTypes DEF Sent, MainInv, TypeOK
  <2>3. handled[w] <= round BY <2>1, <2>2 DEF Counted
  <2>4. timely /\ main \in {"clean", "bye", "gone"} => pending = {} /\ handling[w] = {}
    BY DEF TimelyInv
  <2>5. timely /\ main \in {"clean", "bye"} => handled[w] = ROUNDS
    <3> SUFFICES ASSUME timely, main \in {"clean", "bye"} PROVE handled[w] = ROUNDS
      OBVIOUS
    <3>1. Bit(w \in pending) = 0 /\ Bit(w \in handling[w]) = 0 BY <2>4 DEF Bit
    <3>2. Counted(w) = Sent(w) /\ Sent(w) = ROUNDS BY DEF TimelyInv, Sent
    <3> QED BY <2>1, <3>1, <3>2 DEF Counted
  <2> QED BY <2>3, <2>4, <2>5 DEF DataInv, MainInv
<1> QED BY InitCountInv, <1>1, <1>2, PTL DEF Spec

-----------------------------------------------------------------------------
(* p1 and p2: what races make of data without a lock, for every number of    *)
(* threads and of turns                                                      *)

Runners == Racers \cup Demos

\* Where the threads of each program can be.
Stations ==
  CASE prog = "p1" -> {"none", "get1", "put1", "get2", "put2", "getback", "putback", "end"}
    [] prog = "p2" -> {"none", "once", "making", "data", "push", "pushing", "end"}
    [] OTHER -> {"none", "lock", "find", "unlock", "start", "blocked", "work", "stop",
                 "stopped", "end"}

\* A thread that main has not made is nowhere.
StationInv ==
  /\ prog \in {"p1", "p2", "p3"}
  /\ made \in Seq(Runners) /\ P!ToSet(made) \subseteq P!Mine
  /\ place \in [Runners -> Stations]
  /\ \A t \in Runners \ P!ToSet(made) : place[t] = "none"

\* Main only goes on when it has joined all of them.
JoinInv ==
  /\ joined \subseteq P!Mine /\ \A t \in joined : place[t] = "end"
  /\ boss \notin {"join", "clear", "done"} => joined = {}
  /\ boss \in {"clear", "done"} => joined = P!Mine

\* p1: the turns whose update of V2 has been written, by thread and number.
Turns ==
  {x \in Racers \X (0..(LOOPS - 1)) :
     \/ x[2] < loop[x[1]]
     \/ x[2] = loop[x[1]] /\ place[x[1]] \in {"getback", "putback"}}

CounterTypeInv ==
  /\ v1 \in Int /\ v2 \in Nat
  /\ tmp \in [Runners -> Int] /\ loop \in [Runners -> 0..LOOPS]
  /\ \A t \in Runners :
       /\ place[t] = "none" => loop[t] = 0
       /\ place[t] \notin {"none", "end"} => loop[t] < LOOPS
       /\ place[t] = "end" => loop[t] = LOOPS

EvenInv ==
  /\ v1 % 2 = 0
  /\ \A t \in Runners : place[t] \in {"put1", "putback"} => tmp[t] % 2 = 0

\* Once one update is written V2 is never 0 again, so that the last turn of each
\* thread reads at least 1 and writes at least 2; and no update adds more than 1.
V2Inv ==
  /\ v2 <= Cardinality(Turns) /\ (Turns # {} => v2 > 0)
  /\ \A t \in Runners :
       place[t] = "put2" =>
         tmp[t] \in 0..Cardinality(Turns) /\ (loop[t] > 0 => tmp[t] > 0)
  /\ v2 > 1 \/ \E t \in Racers : <<t, LOOPS - 1>> \notin Turns

CounterInv == CounterTypeInv /\ EvenInv /\ V2Inv

\* p2: one thread makes the key, and until it has none goes on.
KeyInv ==
  /\ once \in {"no", "running", "done"}
  /\ key = (IF once = "done" THEN 1 ELSE 0)
  /\ \A t \in Runners :
       /\ place[t] = "making" => once = "running"
                                 /\ \A u \in Runners : place[u] = "making" => u = t
       /\ place[t] \in {"data", "push", "pushing", "end"} => once = "done"

\* p2: until two threads push_back at once the vector has the data of all that are
\* through, and nobody works on an old one.
VectorInv ==
  /\ vec \in Seq(Demos) /\ seen \in [Demos -> Seq(Demos)] /\ raced \in BOOLEAN
  /\ ~raced => \A t \in Demos :
       /\ place[t] = "end" => t \in P!ToSet(vec)
       /\ place[t] = "pushing" => seen[t] = vec
                                  /\ \A u \in Demos : place[u] = "pushing" => u = t

DeletedInv ==
  /\ boss = "clear" => prog = "p2"
  /\ deleted # {} => prog = "p2" /\ boss = "done"
  /\ prog = "p2" /\ boss = "done" /\ ~raced => deleted = Demos

RaceInv ==
  /\ StationInv /\ JoinInv /\ DeletedInv
  /\ prog = "p1" => CounterInv
  /\ prog = "p2" => KeyInv /\ VectorInv

LEMMA RaceNames ==
  /\ P!Everyone = Runners /\ P!Mine = (IF prog = "p1" THEN Racers ELSE Demos)
  /\ \A S : P!Cardinality(S) = Cardinality(S)
<1>1. \A S : P!Cardinality(S) = Cardinality(S)
  BY Zenon DEF P!Cardinality, Cardinality
<1> QED BY <1>1 DEF P!Everyone, P!Mine, Runners

\* All turns of all threads.
LEMMA AllTurns ==
  /\ IsFiniteSet(Racers \X (0..(LOOPS - 1)))
  /\ Cardinality(Racers \X (0..(LOOPS - 1))) = LOOPS * Cardinality(Racers)
  /\ Cardinality(Racers) \in Nat
<1>1. IsFiniteSet(Racers) /\ Cardinality(Racers) \in Nat
  BY RacersAssumption, FS_CardinalityType
<1>2. IsFiniteSet(0..(LOOPS - 1)) /\ Cardinality(0..(LOOPS - 1)) = LOOPS
  BY RacersAssumption, FS_Interval
<1>3. Cardinality(Racers \X (0..(LOOPS - 1))) = Cardinality(Racers) * Cardinality(0..(LOOPS - 1))
      /\ IsFiniteSet(Racers \X (0..(LOOPS - 1)))
  BY <1>1, <1>2, FS_Product
<1>4. Cardinality(Racers) * LOOPS = LOOPS * Cardinality(Racers) BY <1>1, RacersAssumption
<1> QED BY <1>1, <1>2, <1>3, <1>4

LEMMA SomeTurns ==
  /\ IsFiniteSet(Turns) /\ Cardinality(Turns) \in Nat
  /\ Cardinality(Turns) <= LOOPS * Cardinality(Racers)
<1>1. Turns \subseteq Racers \X (0..(LOOPS - 1)) BY DEF Turns
<1> QED BY <1>1, AllTurns, FS_Subset, FS_CardinalityType

\* The numbers main prints in p1, and what it deletes in p2.
LEMMA RaceInv_Bounded == RaceInv => RacesBounded
<1> SUFFICES ASSUME RaceInv PROVE RacesBounded
  OBVIOUS
<1>1. ASSUME prog = "p1", boss = "done"
      PROVE  v2 \in 2..(LOOPS * Cardinality(Racers)) /\ v1 % 2 = 0
  <2>1. CounterInv /\ \A t \in Racers : t \in Runners /\ place[t] = "end"
    BY <1>1, RaceNames DEF RaceInv, JoinInv, Runners
  <2>2. \A t \in Racers : loop[t] = LOOPS BY <2>1 DEF CounterInv, CounterTypeInv
  <2>3. \A t \in Racers : <<t, LOOPS - 1>> \in Turns
    <3> SUFFICES ASSUME NEW t \in Racers PROVE <<t, LOOPS - 1>> \in Turns
      OBVIOUS
    <3>1. LOOPS - 1 < LOOPS /\ LOOPS - 1 \in 0..(LOOPS - 1) BY RacersAssumption
    <3> QED BY <2>2, <3>1 DEF Turns
  <2>4. v2 \in Nat /\ v2 > 1 /\ v2 <= Cardinality(Turns) /\ v1 % 2 = 0
    BY <2>1, <2>3 DEF CounterInv, CounterTypeInv, V2Inv, EvenInv
  <2>5. LOOPS * Cardinality(Racers) \in Nat BY AllTurns, RacersAssumption
  <2> QED BY <2>4, <2>5, SomeTurns
<1>2. ASSUME NEW t \in Demos, place[t] \in {"data", "push", "pushing"}
      PROVE  key = 1
  <2>1. prog = "p2" /\ t \in Runners BY <1>2 DEF RaceInv, StationInv, Stations, Runners
  <2> QED BY <1>2, <2>1 DEF RaceInv, KeyInv
<1>3. ASSUME deleted # {}, NEW t \in Demos PROVE place[t] = "end"
  BY <1>3, RaceNames DEF RaceInv, DeletedInv, JoinInv
<1>4. prog = "p2" /\ boss = "done" /\ ~raced => deleted = Demos
  BY DEF RaceInv, DeletedInv
<1>5. P!CountersBounded BY <1>1, RaceNames DEF P!CountersBounded
<1>6. P!DataDeleted BY <1>2, <1>3, <1>4 DEF P!DataDeleted
<1> QED BY <1>5, <1>6 DEF RacesBounded, P!RacesBounded

LEMMA RaceInit_Inv == P!PInit => RaceInv
<1> SUFFICES ASSUME P!PInit PROVE RaceInv
  OBVIOUS
<1>1. /\ prog \in {"p1", "p2", "p3"} /\ boss = "create" /\ made = <<>> /\ joined = {}
      /\ place = [t \in Runners |-> "none"]
      /\ v1 = 0 /\ v2 = 0 /\ tmp = [t \in Runners |-> 0] /\ loop = [t \in Runners |-> 0]
      /\ once = "no" /\ key = 0 /\ vec = <<>> /\ seen = [t \in Demos |-> <<>>]
      /\ raced = FALSE /\ deleted = {}
  BY RaceNames DEF P!PInit
<1>2. StationInv
  <2>1. P!ToSet(made) = {} BY <1>1 DEF P!ToSet
  <2>2. "none" \in Stations BY DEF Stations
  <2>3. made \in Seq(Runners) BY <1>1
  <2> QED BY <1>1, <2>1, <2>2, <2>3 DEF StationInv
<1>3. JoinInv /\ DeletedInv BY <1>1 DEF JoinInv, DeletedInv
<1>4. CounterTypeInv BY <1>1, RacersAssumption DEF CounterTypeInv
<1>5. EvenInv BY <1>1 DEF EvenInv
<1>6. V2Inv
  <2>1. Turns = {}
    <3>1. \A t \in Racers : loop[t] = 0 /\ place[t] = "none" BY <1>1 DEF Runners
    <3> QED BY <3>1 DEF Turns
  <2>2. Cardinality(Turns) = 0 BY <2>1, FS_EmptySet
  <2> HIDE DEF Turns
  <2> QED BY <1>1, <2>1, <2>2, RacersAssumption DEF V2Inv
<1>7. KeyInv BY <1>1 DEF KeyInv
<1>8. VectorInv
  <2>1. <<>> \in Seq(Demos) OBVIOUS
  <2>2. \A t \in Demos : place[t] = "none" BY <1>1 DEF Runners
  <2> QED BY <1>1, <2>1, <2>2 DEF VectorInv
<1> QED BY <1>2, <1>3, <1>4, <1>5, <1>6, <1>7, <1>8 DEF RaceInv, CounterInv

\* The steps of a thread: it goes from one place to another.
Moves(t, from, to) ==
  /\ place[t] = from /\ place' = [place EXCEPT ![t] = to]
  /\ UNCHANGED <<prog, boss, made, joined>>

LEMMA MovesOn ==
  ASSUME RaceInv, NEW t \in Runners, NEW from, NEW to, Moves(t, from, to),
         from \notin {"none", "end"}, to \in Stations
  PROVE  /\ StationInv' /\ JoinInv'
         /\ place'[t] = to /\ \A u \in Runners \ {t} : place'[u] = place[u]
         /\ t \in P!Mine /\ boss \notin {"clear", "done"}
<1> USE DEF Moves
<1>1. StationInv /\ JoinInv /\ Stations' = Stations /\ P!Mine' = P!Mine
      /\ P!ToSet(made)' = P!ToSet(made)
  BY DEF RaceInv, Stations, P!Mine, P!ToSet
<1>2. place \in [Runners -> Stations] BY <1>1 DEF StationInv
<1>3. place'[t] = to /\ \A u \in Runners \ {t} : place'[u] = place[u] BY <1>2
<1>4. t \in P!ToSet(made) /\ t \in P!Mine BY <1>1 DEF StationInv
<1>5. t \notin joined /\ boss \notin {"clear", "done"} BY <1>1, <1>4 DEF JoinInv
<1>6. StationInv'
  <2>1. place' \in [Runners -> Stations'] BY <1>1, <1>2
  <2>2. \A u \in Runners \ P!ToSet(made)' : place'[u] = "none" BY <1>1, <1>3, <1>4 DEF StationInv
  <2> QED BY <1>1, <2>1, <2>2 DEF StationInv
<1>7. JoinInv'
  <2>1. joined \subseteq Runners BY <1>1, RaceNames DEF JoinInv, Runners
  <2> QED BY <1>1, <1>3, <1>5, <2>1 DEF JoinInv
<1> QED BY <1>3, <1>4, <1>5, <1>6, <1>7

LEMMA Parity == \A x \in Int : x % 2 = 0 => (x + 2) % 2 = 0 /\ (x - 2) % 2 = 0
OBVIOUS

\* A turn of p1 that has not written V2 adds nothing to the turns.
LEMMA SameTurns ==
  ASSUME UNCHANGED loop, NEW t \in Runners, \A u \in Runners \ {t} : place'[u] = place[u],
         place[t] \in {"getback", "putback"} <=> place'[t] \in {"getback", "putback"}
  PROVE  Turns' = Turns
<1>1. \A u \in Racers : place[u] \in {"getback", "putback"} <=> place'[u] \in {"getback", "putback"}
  BY DEF Runners
<1> QED BY <1>1 DEF Turns

LEMMA GetInv ==
  ASSUME RaceInv, NEW t \in Runners, NEW from, NEW to, NEW v,
         <<from, v, to>> \in {<<"get1", v1, "put1">>, <<"get2", v2, "put2">>,
                              <<"getback", v1, "putback">>},
         P!Get(t, from, v, to)
  PROVE  RaceInv'
<1>1. /\ Moves(t, from, to) /\ tmp' = [tmp EXCEPT ![t] = v]
      /\ UNCHANGED <<v1, v2, loop, once, key, vec, seen, raced, deleted>>
  BY DEF P!Get, P!Go, P!mainVars, P!p2Vars, Moves
<1>2. prog = "p1" /\ from \notin {"none", "end"}
  <2>1. from \in Stations /\ from \in {"get1", "get2", "getback"}
    BY <1>1 DEF RaceInv, StationInv, Moves
  <2> QED BY <2>1 DEF Stations, RaceInv, StationInv
<1>3. to \in Stations BY <1>2 DEF Stations
<1>4. /\ StationInv' /\ JoinInv' /\ place'[t] = to
      /\ \A u \in Runners \ {t} : place'[u] = place[u]
      /\ t \in P!Mine
  BY <1>1, <1>2, <1>3, MovesOn
<1>5. DeletedInv' /\ prog' = "p1" BY <1>1, <1>2 DEF RaceInv, DeletedInv, Moves
<1>6. CounterInv /\ t \in Racers BY <1>2, <1>4, RaceNames DEF RaceInv
<1>7. place[t] = from BY <1>1 DEF Moves
<1>8. tmp'[t] = v /\ (\A u \in Runners \ {t} : tmp'[u] = tmp[u]) /\ tmp' \in [Runners -> Int]
      /\ v \in Int
  BY <1>1, <1>6 DEF CounterInv, CounterTypeInv
<1>9. CounterTypeInv' BY <1>1, <1>4, <1>6, <1>7, <1>8 DEF CounterInv, CounterTypeInv
<1>10. EvenInv' BY <1>1, <1>4, <1>6, <1>8 DEF CounterInv, EvenInv
<1>11. V2Inv'
  <2>1. Turns' = Turns BY <1>1, <1>4, <1>7, SameTurns
  <2>2. v2 \in Nat /\ loop[t] \in 0..LOOPS /\ loop[t] < LOOPS
    BY <1>6, <1>7 DEF CounterInv, CounterTypeInv
  <2>3. ASSUME to = "put2" PROVE tmp'[t] \in 0..Cardinality(Turns) /\ (loop[t] > 0 => tmp'[t] > 0)
    <3>1. v = v2 BY <2>3
    <3>2. v2 <= Cardinality(Turns) /\ (Turns # {} => v2 > 0) BY <1>6 DEF CounterInv, V2Inv
    <3>3. ASSUME loop[t] > 0 PROVE Turns # {}
      <4>1. 0 \in 0..(LOOPS - 1) /\ 0 < loop[t] BY <2>2, <3>3, RacersAssumption
      <4>2. <<t, 0>> \in Turns BY <1>6, <4>1 DEF Turns
      <4> QED BY <4>2
    <3> QED BY <1>8, <2>2, <3>1, <3>2, <3>3, SomeTurns
  <2>4. \A u \in Runners : place'[u] = "put2" =>
          tmp'[u] \in 0..Cardinality(Turns) /\ (loop[u] > 0 => tmp'[u] > 0)
    BY <1>4, <1>6, <1>8, <2>3 DEF CounterInv, V2Inv
  <2> HIDE DEF Turns
  <2> QED BY <1>1, <1>6, <2>1, <2>4 DEF CounterInv, V2Inv
<1> QED BY <1>4, <1>5, <1>9, <1>10, <1>11 DEF RaceInv, CounterInv

\* The first write of V1 in a turn, and the one at its end.
LEMMA PutV1Inv ==
  ASSUME RaceInv, NEW t \in Runners,
         \/ P!Go(t, "put1", "get2") /\ v1' = tmp[t] + 2 /\ UNCHANGED loop
         \/ /\ P!Go(t, "putback", IF loop[t] + 1 < LOOPS THEN "get1" ELSE "end")
            /\ v1' = tmp[t] - 2 /\ loop' = [loop EXCEPT ![t] = @ + 1],
         UNCHANGED <<prog, boss, made, joined, v2, tmp, once, key, vec, seen, raced, deleted>>
  PROVE  RaceInv'
<1>1. PICK from \in {"put1", "putback"}, to \in {"get2", "get1", "end"} :
        /\ Moves(t, from, to)
        /\ from = "put1" => to = "get2" /\ v1' = tmp[t] + 2 /\ loop' = loop
        /\ from = "putback" => /\ to = (IF loop[t] + 1 < LOOPS THEN "get1" ELSE "end")
                               /\ v1' = tmp[t] - 2 /\ loop' = [loop EXCEPT ![t] = @ + 1]
  <2>1. CASE P!Go(t, "put1", "get2") /\ v1' = tmp[t] + 2 /\ UNCHANGED loop
    <3>1. Moves(t, "put1", "get2") BY <2>1 DEF P!Go, Moves
    <3> QED BY <2>1, <3>1
  <2>2. CASE /\ P!Go(t, "putback", IF loop[t] + 1 < LOOPS THEN "get1" ELSE "end")
             /\ v1' = tmp[t] - 2 /\ loop' = [loop EXCEPT ![t] = @ + 1]
    <3>1. Moves(t, "putback", IF loop[t] + 1 < LOOPS THEN "get1" ELSE "end")
      BY <2>2 DEF P!Go, Moves
    <3>2. (IF loop[t] + 1 < LOOPS THEN "get1" ELSE "end") \in {"get1", "end"} OBVIOUS
    <3> QED BY <2>2, <3>1, <3>2
  <2> QED BY <2>1, <2>2
<1>2. prog = "p1" /\ to \in Stations /\ place[t] = from
  <2>1. from \in Stations /\ place[t] = from BY <1>1 DEF RaceInv, StationInv, Moves
  <2>2. prog = "p1" BY <2>1 DEF Stations, RaceInv, StationInv
  <2> QED BY <2>1, <2>2 DEF Stations
<1>3. /\ StationInv' /\ JoinInv' /\ place'[t] = to
      /\ \A u \in Runners \ {t} : place'[u] = place[u]
      /\ t \in P!Mine
  BY <1>1, <1>2, MovesOn
<1>4. DeletedInv' /\ prog' = "p1" BY <1>1, <1>2 DEF RaceInv, DeletedInv
<1>5. CounterInv /\ t \in Racers BY <1>2, <1>3, RaceNames DEF RaceInv
<1>6. loop[t] \in 0..LOOPS /\ loop[t] < LOOPS /\ tmp[t] \in Int /\ tmp[t] % 2 = 0
      /\ loop \in [Runners -> 0..LOOPS] /\ LOOPS \in Nat
  BY <1>2, <1>5, RacersAssumption DEF CounterInv, CounterTypeInv, EvenInv
<1>7. v1' \in Int /\ v1' % 2 = 0 BY <1>1, <1>6, Parity
<1>8. /\ loop' \in [Runners -> 0..LOOPS] /\ \A u \in Runners \ {t} : loop'[u] = loop[u]
      /\ from = "put1" => loop'[t] = loop[t]
      /\ from = "putback" => loop'[t] = loop[t] + 1
  <2>1. loop[t] + 1 \in 0..LOOPS BY <1>6
  <2> QED BY <1>1, <1>6, <2>1
<1>9. CounterTypeInv'
  <2>1. to = "end" => loop'[t] = LOOPS BY <1>1, <1>6, <1>8
  <2>2. to # "end" => loop'[t] < LOOPS BY <1>1, <1>6, <1>8
  <2> QED BY <1>3, <1>5, <1>7, <1>8, <2>1, <2>2 DEF CounterInv, CounterTypeInv
<1>10. EvenInv' BY <1>3, <1>5, <1>7 DEF CounterInv, EvenInv
<1>11. Turns' = Turns
  <2>1. CASE from = "put1" BY <1>1, <1>2, <1>3, <2>1, SameTurns
  <2>2. CASE from = "putback"
    <3>1. \A u \in Racers, k \in 0..(LOOPS - 1) :
            (\/ k < loop'[u]
             \/ k = loop'[u] /\ place'[u] \in {"getback", "putback"})
            <=> (\/ k < loop[u]
                 \/ k = loop[u] /\ place[u] \in {"getback", "putback"})
      <4> SUFFICES ASSUME NEW u \in Racers, NEW k \in 0..(LOOPS - 1)
                   PROVE  (\/ k < loop'[u]
                           \/ k = loop'[u] /\ place'[u] \in {"getback", "putback"})
                          <=> (\/ k < loop[u]
                               \/ k = loop[u] /\ place[u] \in {"getback", "putback"})
        OBVIOUS
      <4>1. CASE u = t
        <5>1. loop'[u] = loop[u] + 1 /\ place'[u] \in {"get1", "end"} /\ place[u] = "putback"
          BY <1>1, <1>2, <1>3, <1>8, <2>2, <4>1
        <5>2. k \in Nat /\ loop[u] \in Nat BY <1>6, <4>1
        <5>3. k < loop[u] + 1 <=> k < loop[u] \/ k = loop[u] BY <5>2
        <5> QED BY <5>1, <5>3
      <4>2. CASE u # t BY <1>3, <1>8, <4>2 DEF Runners
      <4> QED BY <4>1, <4>2
    <3>2. \A x \in Racers \X (0..(LOOPS - 1)) : x[1] \in Racers /\ x[2] \in 0..(LOOPS - 1)
      OBVIOUS
    <3> QED BY <3>1, <3>2 DEF Turns
  <2> QED BY <2>1, <2>2
<1>12. V2Inv'
  <2>1. \A u \in Runners : place'[u] = "put2" => u # t /\ place[u] = "put2" /\ loop'[u] = loop[u]
    BY <1>3, <1>8
  <2> HIDE DEF Turns
  <2> QED BY <1>5, <1>11, <2>1 DEF CounterInv, V2Inv
<1> QED BY <1>3, <1>4, <1>9, <1>10, <1>12 DEF RaceInv, CounterInv

\* The write of V2: this turn is one more, and its update one more at most.
LEMMA PutV2Inv ==
  ASSUME RaceInv, NEW t \in Runners, P!Go(t, "put2", "getback"), v2' = tmp[t] + 1,
         UNCHANGED <<prog, boss, made, joined, v1, tmp, loop, once, key, vec, seen, raced, deleted>>
  PROVE  RaceInv'
<1>1. Moves(t, "put2", "getback") /\ place[t] = "put2" BY DEF P!Go, Moves
<1>2. prog = "p1" /\ "getback" \in Stations
  <2>1. "put2" \in Stations BY <1>1 DEF RaceInv, StationInv
  <2>2. prog = "p1" BY <2>1 DEF Stations, RaceInv, StationInv
  <2> QED BY <2>2 DEF Stations
<1>3. /\ StationInv' /\ JoinInv' /\ place'[t] = "getback"
      /\ \A u \in Runners \ {t} : place'[u] = place[u]
      /\ t \in P!Mine
  BY <1>1, <1>2, MovesOn
<1>4. DeletedInv' /\ prog' = "p1" BY <1>2 DEF RaceInv, DeletedInv
<1>5. CounterInv /\ t \in Racers BY <1>2, <1>3, RaceNames DEF RaceInv
<1>6. loop[t] \in Nat /\ loop[t] \in 0..(LOOPS - 1) /\ LOOPS \in Nat /\ LOOPS > 1
  <2>1. loop[t] \in 0..LOOPS /\ loop[t] < LOOPS
    BY <1>1, <1>5 DEF CounterInv, CounterTypeInv
  <2> QED BY <2>1, RacersAssumption
<1> DEFINE new == <<t, loop[t]>>
<1>7. new \notin Turns /\ Turns' = Turns \cup {new}
  <2>1. new \notin Turns BY <1>1, <1>6 DEF Turns
  <2>2. \A u \in Racers, k \in 0..(LOOPS - 1) :
          (\/ k < loop[u]
           \/ k = loop[u] /\ place'[u] \in {"getback", "putback"})
          <=> (\/ k < loop[u]
               \/ k = loop[u] /\ place[u] \in {"getback", "putback"}
               \/ u = t /\ k = loop[t])
    BY <1>1, <1>3 DEF Runners
  <2>3. \A x \in Racers \X (0..(LOOPS - 1)) :
          x[1] \in Racers /\ x[2] \in 0..(LOOPS - 1) /\ x = <<x[1], x[2]>>
    OBVIOUS
  <2>4. new \in Racers \X (0..(LOOPS - 1)) /\ new[1] = t /\ new[2] = loop[t] BY <1>5, <1>6
  <2>5. \A x \in Racers \X (0..(LOOPS - 1)) : x = new <=> x[1] = t /\ x[2] = loop[t]
    BY <2>3, <2>4
  <2>6. Turns' = {x \in Racers \X (0..(LOOPS - 1)) :
                    \/ x[2] < loop[x[1]]
                    \/ x[2] = loop[x[1]] /\ place'[x[1]] \in {"getback", "putback"}}
    BY DEF Turns
  <2> HIDE DEF new
  <2>7. \A x \in Racers \X (0..(LOOPS - 1)) : x \in Turns' <=> x \in Turns \/ x = new
    BY <2>2, <2>3, <2>5, <2>6 DEF Turns
  <2>8. Turns' \subseteq Racers \X (0..(LOOPS - 1)) /\ Turns \subseteq Racers \X (0..(LOOPS - 1))
    BY <2>6 DEF Turns
  <2> QED BY <2>1, <2>4, <2>7, <2>8
<1> DEFINE turns == Cardinality(Turns)
<1>8. Cardinality(Turns') = turns + 1 /\ turns \in Nat
  <2> HIDE DEF new, Turns
  <2> QED BY <1>7, SomeTurns, FS_AddElement
<1>9. tmp[t] \in 0..turns /\ (loop[t] > 0 => tmp[t] > 0)
  BY <1>1, <1>5 DEF CounterInv, V2Inv
<1>10. CounterTypeInv'
  <2>1. v2' \in Nat BY <1>8, <1>9
  <2> QED BY <1>1, <1>3, <1>5, <2>1 DEF CounterInv, CounterTypeInv
<1>11. EvenInv' BY <1>3, <1>5 DEF CounterInv, EvenInv
<1>12. V2Inv'
  <2>1. v2' <= Cardinality(Turns') /\ v2' > 0 BY <1>8, <1>9
  <2>2. \A u \in Runners : place'[u] = "put2" =>
          tmp[u] \in 0..Cardinality(Turns') /\ (loop[u] > 0 => tmp[u] > 0)
    <3> SUFFICES ASSUME NEW u \in Runners, place'[u] = "put2"
                 PROVE  tmp[u] \in 0..Cardinality(Turns') /\ (loop[u] > 0 => tmp[u] > 0)
      OBVIOUS
    <3>1. u # t /\ place[u] = "put2" BY <1>3
    <3>2. tmp[u] \in 0..turns /\ (loop[u] > 0 => tmp[u] > 0)
      BY <1>5, <3>1 DEF CounterInv, V2Inv
    <3> HIDE DEF turns
    <3> QED BY <1>8, <3>2
  <2>3. v2' > 1 \/ \E u \in Racers : <<u, LOOPS - 1>> \notin Turns'
    <3>1. CASE loop[t] > 0 BY <1>8, <1>9, <3>1
    <3>2. CASE ~(loop[t] > 0)
      <4>1. <<t, LOOPS - 1>> # new BY <1>6, <3>2
      <4>2. <<t, LOOPS - 1>> \notin Turns BY <1>1, <1>6, <3>2 DEF Turns
      <4> HIDE DEF new, Turns
      <4> QED BY <1>5, <1>7, <4>1, <4>2
    <3> QED BY <3>1, <3>2
  <2> HIDE DEF Turns
  <2> QED BY <2>1, <2>2, <2>3 DEF V2Inv
<1> QED BY <1>3, <1>4, <1>10, <1>11, <1>12 DEF RaceInv, CounterInv

LEMMA TurnStepInv == ASSUME RaceInv, NEW t \in Runners, P!Count(t) PROVE RaceInv'
<1>1. CASE \/ P!Get(t, "get1", v1, "put1") \/ P!Get(t, "get2", v2, "put2")
           \/ P!Get(t, "getback", v1, "putback")
  BY <1>1, GetInv
<1>2. CASE P!Go(t, "put2", "getback") /\ v2' = tmp[t] + 1
           /\ UNCHANGED <<P!mainVars, v1, tmp, loop, P!p2Vars, P!p3Vars>>
  BY <1>2, PutV2Inv DEF P!mainVars, P!p2Vars
<1>3. CASE P!Go(t, "put1", "get2") /\ v1' = tmp[t] + 2
           /\ UNCHANGED <<P!mainVars, v2, tmp, loop, P!p2Vars, P!p3Vars>>
  BY <1>3, PutV1Inv DEF P!mainVars, P!p2Vars
<1>4. CASE /\ P!Go(t, "putback", IF loop[t] + 1 < LOOPS THEN "get1" ELSE "end")
           /\ v1' = tmp[t] - 2 /\ loop' = [loop EXCEPT ![t] = @ + 1]
           /\ UNCHANGED <<P!mainVars, v2, tmp, P!p2Vars, P!p3Vars>>
  BY <1>4, PutV1Inv DEF P!mainVars, P!p2Vars
<1> QED BY <1>1, <1>2, <1>3, <1>4 DEF P!Count

\* The vector as it is, seen by threads that go to and from other places.
LEMMA OnceStepInv == ASSUME RaceInv, NEW t \in Demos, P!Once(t) PROVE RaceInv'
<1>1. /\ UNCHANGED <<vec, seen, raced, deleted>>
      /\ \/ /\ once # "running" /\ key' = key
            /\ Moves(t, "once", IF once = "no" THEN "making" ELSE "data")
            /\ once' = (IF once = "no" THEN "running" ELSE once)
         \/ Moves(t, "making", "data") /\ once' = "done" /\ key' = key + 1
  BY DEF P!Once, P!Go, Moves, P!mainVars
<1>2. PICK from \in {"once", "making"}, to \in {"making", "data"} : Moves(t, from, to)
  <2>1. (IF once = "no" THEN "making" ELSE "data") \in {"making", "data"} OBVIOUS
  <2> QED BY <1>1, <2>1
<1>3. t \in Runners /\ place[t] = from BY <1>2 DEF Runners, Moves
<1>4. prog = "p2" /\ to \in Stations
  <2>1. from \in Stations BY <1>3 DEF RaceInv, StationInv
  <2>2. prog = "p2" BY <2>1 DEF Stations, RaceInv, StationInv
  <2> QED BY <2>2 DEF Stations
<1>5. /\ StationInv' /\ JoinInv' /\ place'[t] = to
      /\ \A u \in Runners \ {t} : place'[u] = place[u]
  BY <1>2, <1>3, <1>4, MovesOn
<1>6. DeletedInv' /\ prog' = "p2" BY <1>1, <1>2, <1>4 DEF RaceInv, DeletedInv, Moves
<1>7. KeyInv /\ VectorInv BY <1>4 DEF RaceInv
<1>8. KeyInv'
  <2>1. CASE once = "no" /\ key' = key /\ once' = "running" /\ Moves(t, "once", "making")
    <3>1. place'[t] = "making" BY <1>3, <2>1, <1>5 DEF Moves, RaceInv, StationInv
    <3> QED BY <1>5, <1>7, <2>1, <3>1 DEF KeyInv
  <2>2. CASE once = "done" /\ key' = key /\ once' = "done" /\ Moves(t, "once", "data")
    <3>1. place'[t] = "data" BY <1>3, <2>2, <1>5 DEF Moves, RaceInv, StationInv
    <3> QED BY <1>5, <1>7, <2>2, <3>1 DEF KeyInv
  <2>3. CASE Moves(t, "making", "data") /\ once' = "done" /\ key' = key + 1
    <3>1. once = "running" /\ key = 0 /\ \A u \in Runners : place[u] = "making" => u = t
      BY <1>3, <1>7, <2>3 DEF KeyInv, Moves
    <3>2. place'[t] = "data" BY <1>3, <1>5, <2>3 DEF Moves, RaceInv, StationInv
    <3>3. \A u \in Runners : place'[u] # "making" BY <1>5, <3>1, <3>2
    <3>4. 0 + 1 = 1 OBVIOUS
    <3> QED BY <2>3, <3>1, <3>3, <3>4 DEF KeyInv
  <2> QED BY <1>1, <1>7, <2>1, <2>2, <2>3 DEF KeyInv
<1>9. VectorInv'
  <2>1. \A u \in Demos : place'[u] \in {"end", "pushing"} => place[u] = place'[u]
    BY <1>5 DEF Runners
  <2>2. P!ToSet(vec)' = P!ToSet(vec) BY <1>1 DEF P!ToSet
  <2> QED BY <1>1, <1>7, <2>1, <2>2 DEF VectorInv
<1> QED BY <1>5, <1>6, <1>8, <1>9 DEF RaceInv

LEMMA Appended ==
  ASSUME NEW S, NEW s \in Seq(S), NEW t \in S
  PROVE  /\ Append(s, t) \in Seq(S)
         /\ P!ToSet(Append(s, t)) = P!ToSet(s) \cup {t}
<1>1. /\ Append(s, t) \in Seq(S) /\ Len(Append(s, t)) = Len(s) + 1
      /\ Append(s, t)[Len(s) + 1] = t
      /\ \A k \in 1..Len(s) : Append(s, t)[k] = s[k]
      /\ Len(s) \in Nat
  BY AppendProperties, LenProperties
<1>2. DOMAIN s = 1..Len(s) /\ DOMAIN Append(s, t) = 1..(Len(s) + 1) BY <1>1
<1>3. 1..(Len(s) + 1) = 1..Len(s) \cup {Len(s) + 1} BY <1>1
<1> QED BY <1>1, <1>2, <1>3 DEF P!ToSet

\* The entry into the vector in two steps, and what came before.
LEMMA DataStepInv == ASSUME RaceInv, NEW t \in Demos, P!Data(t) PROVE RaceInv'
<1>1. PICK from \in {"data", "push", "pushing"}, to \in {"push", "pushing", "end"} :
        /\ Moves(t, from, to)
        /\ UNCHANGED <<once, key, deleted>>
        /\ \/ from = "data" /\ to = "push" /\ UNCHANGED <<vec, seen, raced>>
           \/ /\ from = "push" /\ to = "pushing" /\ vec' = vec
              /\ seen' = [seen EXCEPT ![t] = vec]
              /\ raced' = (raced \/ \E u \in Demos : place[u] = "pushing")
           \/ /\ from = "pushing" /\ to = "end" /\ raced' = raced
              /\ vec' \in {Append(vec, t), Append(seen[t], t)}
              /\ seen' = [seen EXCEPT ![t] = <<>>]
  BY DEF P!Data, P!Go, Moves, P!mainVars, P!p2Vars
<1>2. t \in Runners /\ place[t] = from BY <1>1 DEF Runners, Moves
<1>3. prog = "p2" /\ to \in Stations
  <2>1. from \in Stations BY <1>2 DEF RaceInv, StationInv
  <2>2. prog = "p2" BY <2>1 DEF Stations, RaceInv, StationInv
  <2> QED BY <2>2 DEF Stations
<1>4. /\ StationInv' /\ JoinInv' /\ place'[t] = to
      /\ \A u \in Runners \ {t} : place'[u] = place[u]
      /\ boss \notin {"clear", "done"}
  BY <1>1, <1>2, <1>3, MovesOn
<1>5. KeyInv /\ VectorInv BY <1>3 DEF RaceInv
<1>6. DeletedInv' /\ prog' = "p2" BY <1>1, <1>3, <1>4 DEF RaceInv, DeletedInv, Moves
<1>7. KeyInv' BY <1>1, <1>2, <1>4, <1>5 DEF KeyInv
<1>8. vec \in Seq(Demos) /\ seen \in [Demos -> Seq(Demos)] /\ raced \in BOOLEAN
  BY <1>5 DEF VectorInv
<1>9. \A u \in Demos \ {t} : place'[u] = place[u] BY <1>4 DEF Runners
<1>10. CASE from = "data" /\ to = "push" /\ UNCHANGED <<vec, seen, raced>>
  <2>1. P!ToSet(vec)' = P!ToSet(vec) BY <1>10 DEF P!ToSet
  <2>2. VectorInv' BY <1>4, <1>5, <1>9, <1>10, <2>1 DEF VectorInv
  <2> QED BY <1>4, <1>6, <1>7, <2>2 DEF RaceInv
<1>11. CASE /\ from = "push" /\ to = "pushing" /\ vec' = vec
            /\ seen' = [seen EXCEPT ![t] = vec]
            /\ raced' = (raced \/ \E u \in Demos : place[u] = "pushing")
  <2>1. P!ToSet(vec)' = P!ToSet(vec) BY <1>11 DEF P!ToSet
  <2>2. seen' \in [Demos -> Seq(Demos)] /\ seen'[t] = vec BY <1>8, <1>11
  <2>3. raced' \in BOOLEAN BY <1>11
  <2>4. ASSUME ~raced'
        PROVE  ~raced /\ \A u \in Demos : place[u] # "pushing"
    BY <1>11, <2>4
  <2>5. ASSUME ~raced', NEW u \in Demos
        PROVE  /\ place'[u] = "end" => u \in P!ToSet(vec)
               /\ place'[u] = "pushing" => u = t
    <3>1. CASE u = t BY <1>4, <1>11, <3>1
    <3>2. CASE u # t BY <1>5, <1>9, <2>4, <2>5, <3>2 DEF VectorInv
    <3> QED BY <3>1, <3>2
  <2>6. VectorInv' BY <1>8, <1>11, <2>1, <2>2, <2>3, <2>5 DEF VectorInv
  <2> QED BY <1>4, <1>6, <1>7, <2>6 DEF RaceInv
<1>12. CASE /\ from = "pushing" /\ to = "end" /\ raced' = raced
            /\ vec' \in {Append(vec, t), Append(seen[t], t)}
            /\ seen' = [seen EXCEPT ![t] = <<>>]
  <2>1. vec' \in Seq(Demos)
    <3>1. Append(vec, t) \in Seq(Demos) /\ Append(seen[t], t) \in Seq(Demos)
      BY <1>8, Appended
    <3> QED BY <1>12, <3>1
  <2>2. seen' \in [Demos -> Seq(Demos)]
    <3>1. <<>> \in Seq(Demos) OBVIOUS
    <3> QED BY <1>8, <1>12, <3>1
  <2>3. ASSUME ~raced
        PROVE  P!ToSet(vec') = P!ToSet(vec) \cup {t} /\ \A u \in Demos : place[u] = "pushing" => u = t
    <3>1. seen[t] = vec /\ \A u \in Demos : place[u] = "pushing" => u = t
      BY <1>2, <1>5, <1>12, <2>3 DEF VectorInv
    <3>2. vec' = Append(vec, t) BY <1>12, <3>1
    <3>3. P!ToSet(Append(vec, t)) = P!ToSet(vec) \cup {t} BY <1>8, Appended
    <3> QED BY <3>1, <3>2, <3>3
  <2>4. ASSUME ~raced, NEW u \in Demos
        PROVE  /\ place'[u] = "end" => u \in P!ToSet(vec')
               /\ place'[u] # "pushing"
    <3>1. CASE u = t BY <1>4, <1>12, <2>3, <2>4, <3>1
    <3>2. CASE u # t
      <4>1. place[u] = "end" => u \in P!ToSet(vec) BY <1>5, <2>4 DEF VectorInv
      <4> QED BY <1>9, <2>3, <2>4, <3>2, <4>1
    <3> QED BY <3>1, <3>2
  <2>5. P!ToSet(vec)' = P!ToSet(vec') BY DEF P!ToSet
  <2>6. VectorInv' BY <1>8, <1>12, <2>1, <2>2, <2>4, <2>5 DEF VectorInv
  <2> QED BY <1>4, <1>6, <1>7, <2>6 DEF RaceInv
<1> QED BY <1>1, <1>10, <1>11, <1>12

\* p3: nothing of it is used in the other two.
LEMMA OtherStepInv ==
  ASSUME RaceInv, NEW t \in Demos, P!Lookup(t) \/ P!Meet(t)
  PROVE  RaceInv'
<1> DEFINE Here == {"lock", "find", "unlock", "start", "blocked", "work", "stop", "stopped"}
           There == {"find", "unlock", "start", "blocked", "work", "stop", "stopped", "end"}
<1>1. PICK from \in Here, to \in There : Moves(t, from, to)
  BY DEF P!Lookup, P!Meet, P!Go, Moves, P!mainVars
<1>2. deleted' = deleted /\ raced' = raced BY DEF P!Lookup, P!Meet, P!p2Vars
<1>3. t \in Runners /\ place[t] = from BY <1>1 DEF Runners, Moves
<1>4. prog = "p3" /\ to \in Stations
  <2>1. from \in Stations BY <1>3 DEF RaceInv, StationInv
  <2>2. prog = "p3" BY <2>1 DEF Stations, RaceInv, StationInv
  <2> QED BY <2>2 DEF Stations
<1>5. StationInv' /\ JoinInv' BY <1>1, <1>3, <1>4, MovesOn
<1>6. DeletedInv' /\ prog' = "p3" BY <1>1, <1>2, <1>4 DEF RaceInv, DeletedInv, Moves
<1> QED BY <1>5, <1>6 DEF RaceInv

\* Steps of main that leave the threads and their data alone.
LEMMA KeptInv ==
  ASSUME RaceInv, UNCHANGED <<prog, made, place, v1, v2, tmp, loop, once, key, vec, seen, raced>>
  PROVE  /\ StationInv' /\ P!Mine' = P!Mine
         /\ (prog' = "p1" => CounterInv') /\ (prog' = "p2" => KeyInv' /\ VectorInv')
<1>1. Stations' = Stations /\ P!Mine' = P!Mine /\ P!ToSet(made)' = P!ToSet(made)
      /\ P!ToSet(vec)' = P!ToSet(vec) /\ Turns' = Turns
  BY DEF Stations, P!Mine, P!ToSet, Turns
<1>2. StationInv' BY <1>1 DEF RaceInv, StationInv
<1>3. ASSUME prog = "p1" PROVE CounterInv'
  <2>1. CounterInv BY <1>3 DEF RaceInv
  <2>2. CounterTypeInv' /\ EvenInv' BY <2>1 DEF CounterInv, CounterTypeInv, EvenInv
  <2>3. V2Inv'
    <3> HIDE DEF Turns
    <3> QED BY <1>1, <2>1 DEF CounterInv, V2Inv
  <2> QED BY <2>2, <2>3 DEF CounterInv
<1>4. ASSUME prog = "p2" PROVE KeyInv' /\ VectorInv'
  <2>1. KeyInv /\ VectorInv BY <1>4 DEF RaceInv
  <2> QED BY <1>1, <2>1 DEF KeyInv, VectorInv
<1> QED BY <1>1, <1>2, <1>3, <1>4

\* pthread_create(): the thread begins with nothing done.
LEMMA CreateInv == RaceInv /\ P!Create => RaceInv'
<1> SUFFICES ASSUME RaceInv, P!Create PROVE RaceInv'
  OBVIOUS
<1>1. PICK t \in P!Mine \ P!ToSet(made) :
        made' = Append(made, t) /\ place' = [place EXCEPT ![t] = P!First[prog]]
  BY DEF P!Create
<1>2. /\ boss = "create" /\ boss' \in {"insert", "join", "create"}
      /\ UNCHANGED <<prog, joined, v1, v2, tmp, loop, once, key, vec, seen, raced, deleted>>
  BY DEF P!Create, P!p1Vars, P!p2Vars
<1>3. StationInv /\ JoinInv /\ joined = {} /\ deleted = {}
  BY <1>2 DEF RaceInv, JoinInv, DeletedInv
<1>4. Stations' = Stations /\ P!Mine' = P!Mine BY <1>2 DEF Stations, P!Mine
<1>5. t \in Runners /\ place[t] = "none" /\ P!Mine \subseteq Runners
  <2>1. P!Mine \subseteq Runners BY RaceNames DEF Runners
  <2> QED BY <1>1, <1>3, <2>1 DEF StationInv
<1> DEFINE to == P!First[prog]
<1>6. /\ to \in Stations
      /\ prog = "p1" => to = "get1"
      /\ prog = "p2" => to = "once"
  <2>1. CASE prog = "p1" BY <2>1 DEF P!First, Stations
  <2>2. CASE prog = "p2" BY <2>2 DEF P!First, Stations
  <2>3. CASE prog = "p3" BY <2>3 DEF P!First, Stations
  <2> QED BY <1>3, <2>1, <2>2, <2>3 DEF StationInv
<1> HIDE DEF to
<1>7. place' = [place EXCEPT ![t] = to] BY <1>1 DEF to
<1>8. /\ place' \in [Runners -> Stations] /\ place'[t] = to
      /\ \A u \in Runners \ {t} : place'[u] = place[u]
  BY <1>3, <1>5, <1>6, <1>7 DEF StationInv
<1>9. StationInv'
  <2>1. made' \in Seq(Runners) /\ P!ToSet(made)' = P!ToSet(made) \cup {t}
    <3>1. P!ToSet(made)' = P!ToSet(made') BY DEF P!ToSet
    <3> QED BY <1>1, <1>3, <1>5, <3>1, Appended DEF StationInv
  <2>2. \A u \in Runners \ P!ToSet(made)' : place'[u] = "none"
    BY <1>3, <1>8, <2>1 DEF StationInv
  <2>3. P!ToSet(made)' \subseteq P!Mine' BY <1>1, <1>3, <1>4, <2>1 DEF StationInv
  <2> QED BY <1>2, <1>3, <1>4, <1>8, <2>1, <2>2, <2>3 DEF StationInv
<1>10. JoinInv' BY <1>2, <1>3 DEF JoinInv
<1>11. DeletedInv' BY <1>2, <1>3 DEF DeletedInv
<1>12. ASSUME prog = "p1" PROVE CounterInv'
  <2>1. CounterInv /\ to = "get1" BY <1>6, <1>12 DEF RaceInv
  <2>2. CounterTypeInv'
    <3>1. loop[t] = 0 /\ 0 < LOOPS
      BY <1>5, <2>1, RacersAssumption DEF CounterInv, CounterTypeInv
    <3> QED BY <1>2, <1>8, <2>1, <3>1 DEF CounterInv, CounterTypeInv
  <2>3. EvenInv' BY <1>2, <1>8, <2>1 DEF CounterInv, EvenInv
  <2>4. Turns' = Turns BY <1>2, <1>5, <1>8, <2>1, SameTurns
  <2>5. \A u \in Runners : place'[u] = "put2" => place[u] = "put2" BY <1>8, <2>1
  <2>6. V2Inv'
    <3> HIDE DEF Turns
    <3> QED BY <1>2, <2>1, <2>4, <2>5 DEF CounterInv, V2Inv
  <2> QED BY <2>2, <2>3, <2>6 DEF CounterInv
<1>13. ASSUME prog = "p2" PROVE KeyInv' /\ VectorInv'
  <2>1. KeyInv /\ VectorInv /\ to = "once" BY <1>6, <1>13 DEF RaceInv
  <2>2. KeyInv' BY <1>2, <1>8, <2>1 DEF KeyInv
  <2>3. \A u \in Demos : place'[u] \in {"end", "pushing"} => place[u] = place'[u]
    BY <1>8, <2>1 DEF Runners
  <2>4. P!ToSet(vec)' = P!ToSet(vec) BY <1>2 DEF P!ToSet
  <2>5. VectorInv' BY <1>2, <2>1, <2>3, <2>4 DEF VectorInv
  <2> QED BY <2>2, <2>5
<1> QED BY <1>2, <1>9, <1>10, <1>11, <1>12, <1>13 DEF RaceInv

LEMMA JoiningInv == RaceInv /\ P!Join => RaceInv'
<1> SUFFICES ASSUME RaceInv, P!Join PROVE RaceInv'
  OBVIOUS
<1>1. PICK t \in P!Mine \ joined : place[t] = "end" /\ joined' = joined \cup {t}
  BY DEF P!Join
<1>2. /\ boss = "join"
      /\ boss' = (IF joined' # P!Mine THEN "join" ELSE IF prog = "p2" THEN "clear" ELSE "done")
      /\ UNCHANGED <<prog, made, place, v1, v2, tmp, loop, once, key, vec, seen, raced, deleted>>
  BY DEF P!Join, P!p1Vars, P!p2Vars
<1>3. JoinInv /\ deleted = {} BY <1>2 DEF RaceInv, DeletedInv
<1>4. /\ boss' \in {"join", "clear", "done"}
      /\ boss' = "clear" => prog = "p2" /\ joined' = P!Mine
      /\ boss' = "done" => prog # "p2" /\ joined' = P!Mine
  <2>1. CASE joined' # P!Mine BY <1>2, <2>1
  <2>2. CASE joined' = P!Mine /\ prog = "p2" BY <1>2, <2>2
  <2>3. CASE joined' = P!Mine /\ prog # "p2" BY <1>2, <2>3
  <2> QED BY <2>1, <2>2, <2>3
<1>5. P!Mine' = P!Mine BY <1>2, KeptInv
<1>6. JoinInv' BY <1>1, <1>2, <1>3, <1>4, <1>5 DEF JoinInv
<1>7. DeletedInv' BY <1>2, <1>3, <1>4 DEF DeletedInv
<1> QED BY <1>2, <1>6, <1>7, KeptInv DEF RaceInv

\* All that is in the vector is deleted, when all threads are joined.
LEMMA ClearInv == RaceInv /\ P!Clear => RaceInv'
<1> SUFFICES ASSUME RaceInv, P!Clear PROVE RaceInv'
  OBVIOUS
<1>1. /\ boss = "clear" /\ boss' = "done" /\ deleted' = P!ToSet(vec)
      /\ UNCHANGED <<prog, made, joined, place, v1, v2, tmp, loop, once, key, vec, seen, raced>>
  BY DEF P!Clear, P!p1Vars
<1>2. prog = "p2" /\ joined = Demos /\ VectorInv
  BY <1>1, RaceNames DEF RaceInv, JoinInv, DeletedInv
<1>3. \A t \in Demos : place[t] = "end" BY <1>2 DEF RaceInv, JoinInv
<1>4. P!ToSet(vec) \subseteq Demos
  <2>1. vec \in [1..Len(vec) -> Demos] BY <1>2 DEF VectorInv
  <2> QED BY <2>1 DEF P!ToSet
<1>5. ~raced => P!ToSet(vec) = Demos BY <1>2, <1>3, <1>4 DEF VectorInv
<1>6. DeletedInv' BY <1>1, <1>2, <1>5 DEF DeletedInv
<1>7. JoinInv'
  <2>1. P!Mine' = P!Mine BY <1>1, KeptInv
  <2> QED BY <1>1, <2>1 DEF RaceInv, JoinInv
<1> QED BY <1>1, <1>6, <1>7, KeptInv DEF RaceInv

LEMMA BossInv == RaceInv /\ P!MainStep => RaceInv'
<1> SUFFICES ASSUME RaceInv, P!MainStep PROVE RaceInv'
  OBVIOUS
<1>1. CASE P!Insert \/ P!StartAll \/ P!Released
  <2>1. /\ boss \in {"insert", "start", "blocked"}
        /\ boss' \in {"start", "create", "blocked", "join"}
        /\ UNCHANGED <<prog, made, joined, place, v1, v2, tmp, loop, once, key, vec, seen, raced,
                       deleted>>
    BY <1>1 DEF P!Insert, P!StartAll, P!Released, P!p1Vars, P!p2Vars
  <2>2. joined = {} /\ deleted = {} BY <2>1 DEF RaceInv, JoinInv, DeletedInv
  <2>3. JoinInv' /\ DeletedInv' BY <2>1, <2>2 DEF JoinInv, DeletedInv
  <2> QED BY <2>1, <2>3, KeptInv DEF RaceInv
<1> QED BY <1>1, CreateInv, JoiningInv, ClearInv DEF P!MainStep

LEMMA RaceStepInv == RaceInv /\ [AllNext]_all => RaceInv'
<1> SUFFICES ASSUME RaceInv, [AllNext]_all PROVE RaceInv'
  OBVIOUS
<1>1. CASE P!MainStep BY <1>1, BossInv
<1>2. ASSUME NEW t \in Runners, P!Thread(t) PROVE RaceInv'
  BY <1>2, TurnStepInv, OnceStepInv, DataStepInv, OtherStepInv DEF P!Thread
<1>3. CASE UNCHANGED pvars
  <2>1. UNCHANGED <<prog, boss, made, joined, place, v1, v2, tmp, loop, once, key, vec, seen,
                    raced, deleted>>
    BY <1>3 DEF pvars
  <2>2. JoinInv' /\ DeletedInv'
    <3>1. P!Mine' = P!Mine BY <2>1, KeptInv
    <3> QED BY <2>1, <3>1 DEF RaceInv, JoinInv, DeletedInv
  <2> QED BY <2>1, <2>2, KeptInv DEF RaceInv
<1>4. P!PNext \/ UNCHANGED pvars
  BY DEF AllNext, P4Step, PthreadStep, TimerStep, PtyStep, NetlinkStep, PipeStep, all, ipc
<1>5. P!PNext => P!MainStep \/ \E t \in Runners : P!Thread(t)
  BY RaceNames DEF P!PNext
<1> QED BY <1>1, <1>2, <1>3, <1>4, <1>5

\* For every number of threads and of turns p1 prints a V2 of at least 2 and at most
\* one for each turn, and an even V1; in p2 the key is made once and before it is
\* used, and main deletes what nobody uses any more, all of it unless two threads
\* entered theirs at once.
THEOREM RacesStayBounded == AllSpec => []RacesBounded
<1>1. AllInit => RaceInv BY RaceInit_Inv DEF AllInit
<1> QED BY <1>1, RaceStepInv, RaceInv_Bounded, PTL DEF AllSpec

-----------------------------------------------------------------------------
(* p3: two barriers that keep the threads together, for any number of them   *)

\* What the invariant above does not say of the types: a program leaves the variables
\* of the others alone.
IdleInv ==
  /\ boss \in {"create", "insert", "start", "blocked", "join", "clear", "done"}
  /\ prog # "p3" => boss \notin {"insert", "start", "blocked"}
  /\ prog # "p1" =>
       v1 \in Int /\ v2 \in Nat /\ tmp \in [Runners -> Int] /\ loop \in [Runners -> 0..LOOPS]
  /\ prog # "p2" => /\ once \in {"no", "running", "done"} /\ key \in Nat /\ raced \in BOOLEAN
                    /\ vec \in Seq(Demos) /\ seen \in [Demos -> Seq(Demos)]
  /\ deleted \subseteq Demos
  /\ prog # "p3" => /\ known = {} /\ mutex = {} /\ number = [t \in Demos |-> 0]
                    /\ waiting = [b \in {"start", "stop"} |-> {}]

\* The map has the threads that were made, the last one once main has entered it; and
\* a number other than 0 is the place of its thread among them.
MapInv ==
  /\ \A j, k \in 1..Len(made) : made[j] = made[k] => j = k
  /\ known \subseteq P!ToSet(made)
  /\ IF boss = "insert" THEN made # <<>> /\ known \cup {P!Last(made)} = P!ToSet(made)
                        ELSE known = P!ToSet(made)
  /\ boss \in {"start", "blocked", "join", "done"} => P!ToSet(made) = Demos
  /\ mutex \subseteq Demos /\ number \in [Demos -> 0..Cardinality(Demos)]
  /\ \A t \in Demos : number[t] # 0 => \E k \in 1..Len(made) : made[k] = t /\ number[t] = k - 1

Beyond == {"work", "stop", "stopped", "end"}

\* Who has come to a barrier.
AtStart == {t \in Demos : place[t] = "blocked"} \cup (IF boss = "blocked" THEN {"main"} ELSE {})
AtStop == {t \in Demos : place[t] = "stopped"}

\* A barrier holds all that have come to it, or it has let all go.
StartInv ==
  \/ /\ waiting["start"] = AtStart /\ boss \notin {"join", "done"}
     /\ \A t \in Demos : place[t] \notin Beyond
  \/ /\ waiting["start"] = {} /\ boss \in {"blocked", "join", "done"}
     /\ \A t \in Demos : place[t] \in {"blocked"} \cup Beyond

StopInv ==
  \/ waiting["stop"] = AtStop /\ \A t \in Demos : place[t] # "end"
  \/ waiting["stop"] = {} /\ \A t \in Demos : place[t] \in {"stopped", "end"}

BarrierInv ==
  /\ waiting \in [{"start", "stop"} -> SUBSET (Demos \cup {"main"})]
  /\ StartInv /\ StopInv

TogetherInv == RaceInv /\ IdleInv /\ (prog = "p3" => MapInv /\ BarrierInv)

\* The one who makes a set whole.
LEMMA LastToCome ==
  ASSUME NEW W, IsFiniteSet(W), NEW S \in SUBSET W, NEW x \in W \ S
  PROVE  Cardinality(S) + 1 = Cardinality(W) <=> S \cup {x} = W
<1>1. IsFiniteSet(S) /\ Cardinality(S) \in Nat BY FS_Subset, FS_CardinalityType
<1>2. Cardinality(S \cup {x}) = Cardinality(S) + 1 BY <1>1, FS_AddElement
<1>3. S \cup {x} \in SUBSET W OBVIOUS
<1> QED BY <1>2, <1>3, FS_Subset

LEMMA BarrierSizes ==
  /\ P!BarrierSize("stop") = Cardinality(Demos)
  /\ P!BarrierSize("start") = Cardinality(Demos \cup {"main"})
  /\ IsFiniteSet(Demos \cup {"main"})
<1>1. Cardinality(Demos \cup {"main"}) = Cardinality(Demos) + 1
      /\ IsFiniteSet(Demos \cup {"main"})
  BY DemosAssumption, FS_AddElement
<1> QED BY <1>1, RaceNames DEF P!BarrierSize

\* What an arrival makes of a barrier.
LEMMA ArriveFacts ==
  ASSUME NEW who, NEW b \in {"start", "stop"}, P!Arrive(who, b), BarrierInv,
         NEW Comers \in SUBSET (Demos \cup {"main"}), P!BarrierSize(b) = Cardinality(Comers),
         waiting[b] \subseteq Comers, who \in Comers, who \notin waiting[b]
  PROVE  /\ waiting' \in [{"start", "stop"} -> SUBSET (Demos \cup {"main"})]
         /\ \A c \in {"start", "stop"} : c # b => waiting'[c] = waiting[c]
         /\ waiting[b] \cup {who} = Comers => waiting'[b] = {}
         /\ waiting[b] \cup {who} # Comers => waiting'[b] = waiting[b] \cup {who}
<1> DEFINE Now == IF P!Cardinality(waiting[b]) + 1 = P!BarrierSize(b)
                    THEN {} ELSE waiting[b] \cup {who}
<1>1. waiting' = [waiting EXCEPT ![b] = Now] BY DEF P!Arrive
<1>2. P!Cardinality(waiting[b]) + 1 = P!BarrierSize(b) <=> waiting[b] \cup {who} = Comers
  <2>1. IsFiniteSet(Comers) BY BarrierSizes, FS_Subset
  <2> QED BY <2>1, LastToCome, RaceNames
<1>3. Now = IF waiting[b] \cup {who} = Comers THEN {} ELSE waiting[b] \cup {who} BY <1>2
<1> HIDE DEF Now
<1>4. waiting \in [{"start", "stop"} -> SUBSET (Demos \cup {"main"})] BY DEF BarrierInv
<1>5. Now \subseteq Demos \cup {"main"} BY <1>3
<1> QED BY <1>1, <1>3, <1>4, <1>5

LEMMA CountedTo == \A k \in Nat : IsFiniteSet(1..k) /\ Cardinality(1..k) = k
<1> SUFFICES ASSUME NEW k \in Nat PROVE IsFiniteSet(1..k) /\ Cardinality(1..k) = k
  OBVIOUS
<1>1. 1 \in Int /\ k \in Int OBVIOUS
<1>2. IsFiniteSet(1..k) BY ONLY <1>1, FS_Interval
<1>3. Cardinality(1..k) = IF 1 > k THEN 0 ELSE k - 1 + 1 BY ONLY <1>1, FS_Interval
<1> QED BY <1>2, <1>3

\* A sequence without repetition is no longer than the set of its elements.
LEMMA MadeLength ==
  ASSUME MapInv, made \in Seq(Runners), P!ToSet(made) \subseteq Demos
  PROVE  Len(made) <= Cardinality(Demos) /\ Len(made) \in Nat /\ Cardinality(Demos) \in Nat
<1>1. Len(made) \in Nat /\ Cardinality(Demos) \in Nat
  BY DemosAssumption, FS_CardinalityType
<1>2. made \in [1..Len(made) -> Demos] BY DEF P!ToSet
<1>3. IsFiniteSet(1..Len(made)) /\ Cardinality(1..Len(made)) = Len(made) BY <1>1, CountedTo
<1>4. ~(Cardinality(Demos) < Len(made))
  <2> SUFFICES ASSUME Cardinality(Demos) < Len(made) PROVE FALSE
    OBVIOUS
  <2>1. \E j, k \in 1..Len(made) : j # k /\ made[j] = made[k]
    BY <1>2, <1>3, DemosAssumption, FS_PigeonHole
  <2> QED BY <2>1 DEF MapInv
<1> QED BY <1>1, <1>4

\* The position of a thread among those made.
LEMMA NumberIs ==
  ASSUME MapInv, NEW k \in 1..Len(made)
  PROVE  P!Number(made[k]) = k
BY DEF MapInv, P!Number

LEMMA TogetherInv_Together == TogetherInv => P!Together
<1> SUFFICES ASSUME TogetherInv PROVE P!Together
  OBVIOUS
<1> USE DEF TogetherInv
<1>1. /\ prog \in {"p1", "p2", "p3"} /\ made \in Seq(Runners) /\ joined \subseteq Runners
      /\ place \in [Runners -> Stations]
  BY RaceNames DEF RaceInv, StationInv, JoinInv, Runners
<1>2. prog = "p3" => waiting["start"] \subseteq Demos \cup {"main"} /\ waiting["stop"] \subseteq Demos
  BY DEF BarrierInv, StartInv, StopInv, AtStart, AtStop
<1>3. 0 \in 0..Cardinality(Demos) BY DemosAssumption, FS_CardinalityType
<1>4. P!TypeOK
  <2>1. Stations \subseteq {"none", "get1", "put1", "get2", "put2", "getback", "putback", "once",
          "making", "data", "push", "pushing", "lock", "find", "unlock", "start", "blocked",
          "work", "stop", "stopped", "end"}
    BY <1>1 DEF Stations
  <2>2. v1 \in Int /\ v2 \in Nat /\ tmp \in [Runners -> Int] /\ loop \in [Runners -> 0..LOOPS]
    BY DEF RaceInv, CounterInv, CounterTypeInv, IdleInv
  <2>3. once \in {"no", "running", "done"} /\ key \in Nat
    BY DEF RaceInv, KeyInv, IdleInv
  <2>4. vec \in Seq(Demos) /\ seen \in [Demos -> Seq(Demos)] /\ raced \in BOOLEAN
    BY DEF RaceInv, VectorInv, IdleInv
  <2>5. /\ known \subseteq Demos /\ mutex \subseteq Demos
        /\ number \in [Demos -> 0..Cardinality(Demos)]
    <3>1. CASE prog = "p3"
      <4>1. P!ToSet(made) \subseteq Demos BY <3>1, RaceNames DEF RaceInv, StationInv
      <4> QED BY <3>1, <4>1 DEF MapInv
    <3>2. CASE prog # "p3" BY <3>2, <1>3 DEF IdleInv
    <3> QED BY <3>1, <3>2
  <2>6. waiting \in [{"start", "stop"} -> SUBSET (Demos \cup {"main"})]
    <3>1. CASE prog = "p3" BY <3>1 DEF BarrierInv
    <3>2. CASE prog # "p3" BY <3>2 DEF IdleInv
    <3> QED BY <3>1, <3>2
  <2>7. boss \in {"create", "insert", "start", "blocked", "join", "clear", "done"}
        /\ deleted \subseteq Demos
    BY DEF IdleInv
  <2> QED BY <1>1, <2>1, <2>2, <2>3, <2>4, <2>5, <2>6, <2>7, RaceNames DEF P!TypeOK, P!Boss
<1>5. ASSUME NEW t \in Demos, number[t] # 0 PROVE number[t] = P!Number(t) - 1
  <2>1. MapInv BY <1>1, <1>5 DEF IdleInv
  <2>2. PICK k \in 1..Len(made) : made[k] = t /\ number[t] = k - 1 BY <1>5, <2>1 DEF MapInv
  <2> QED BY <2>1, <2>2, NumberIs
<1>6. ASSUME NEW t \in Demos, prog = "p3", place[t] \in Beyond
      PROVE  known = Demos /\ \A u \in Demos : place[u] \in {"blocked"} \cup Beyond
  <2>1. boss \in {"blocked", "join", "done"} /\ \A u \in Demos : place[u] \in {"blocked"} \cup Beyond
    BY <1>6 DEF BarrierInv, StartInv
  <2> QED BY <1>6, <2>1 DEF MapInv
<1>7. ASSUME NEW t \in Demos, prog = "p3", place[t] = "end"
      PROVE  \A u \in Demos : place[u] \in {"stopped", "end"}
  BY <1>7 DEF BarrierInv, StopInv
<1> QED BY <1>4, <1>5, <1>6, <1>7 DEF P!Together, Beyond

\* Which program a step belongs to.
LEMMA OwnSteps ==
  ASSUME RaceInv, NEW t \in Runners
  PROVE  /\ P!Count(t) => prog = "p1"
         /\ P!Once(t) \/ P!Data(t) => prog = "p2"
         /\ P!Lookup(t) \/ P!Meet(t) => prog = "p3"
<1>1. place[t] \in Stations /\ prog \in {"p1", "p2", "p3"} BY DEF RaceInv, StationInv
<1>2. P!Count(t) => place[t] \in {"get1", "put1", "get2", "put2", "getback", "putback"}
  BY DEF P!Count, P!Get, P!Go
<1>3. P!Once(t) \/ P!Data(t) => place[t] \in {"once", "making", "data", "push", "pushing"}
  BY DEF P!Once, P!Data, P!Go
<1>4. P!Lookup(t) \/ P!Meet(t) =>
        place[t] \in {"lock", "find", "unlock", "start", "blocked", "work", "stop", "stopped"}
  BY DEF P!Lookup, P!Meet, P!Go
<1> QED BY <1>1, <1>2, <1>3, <1>4 DEF Stations

\* Each step leaves the variables of the other programs alone.
LEMMA IdleStep == TogetherInv /\ P!PNext => IdleInv'
<1> SUFFICES ASSUME TogetherInv, P!PNext PROVE IdleInv'
  OBVIOUS
<1> USE DEF TogetherInv
<1>1. CASE P!Create
  <2>1. boss' \in {"insert", "join", "create"} BY <1>1 DEF P!Create
  <2> QED BY <1>1, <2>1 DEF P!Create, P!p1Vars, P!p2Vars, P!p3Vars, IdleInv
<1>2. CASE P!Insert \/ P!StartAll \/ P!Released
  <2>1. prog = "p3" => prog' = "p3" BY <1>2 DEF P!Insert, P!StartAll, P!Released
  <2>2. prog = "p3"
    <3>1. boss \in {"insert", "start", "blocked"} BY <1>2 DEF P!Insert, P!StartAll, P!Released
    <3> QED BY <3>1 DEF IdleInv
  <2> QED BY <1>2, <2>1, <2>2
          DEF P!Insert, P!StartAll, P!Released, P!p1Vars, P!p2Vars, P!p3Vars, IdleInv
<1>3. CASE P!Join
  <2>1. boss' \in {"join", "clear", "done"} BY <1>3 DEF P!Join
  <2> QED BY <1>3, <2>1 DEF P!Join, P!p1Vars, P!p2Vars, P!p3Vars, IdleInv
<1>4. CASE P!Clear
  <2>1. deleted' = P!ToSet(vec) /\ prog = "p2" /\ vec \in Seq(Demos)
    BY <1>4 DEF P!Clear, RaceInv, DeletedInv, VectorInv
  <2>2. P!ToSet(vec) \subseteq Demos BY <2>1 DEF P!ToSet
  <2> QED BY <1>4, <2>1, <2>2 DEF P!Clear, P!p1Vars, P!p3Vars, IdleInv
<1>5. ASSUME NEW t \in Runners, P!Count(t) PROVE IdleInv'
  <2>1. prog = "p1" /\ UNCHANGED <<prog, boss, P!p2Vars, P!p3Vars>>
    BY <1>5, OwnSteps DEF P!Count, P!Get, P!mainVars
  <2> QED BY <2>1 DEF P!p2Vars, P!p3Vars, IdleInv
<1>6. ASSUME NEW t \in Demos, P!Once(t) \/ P!Data(t) PROVE IdleInv'
  <2>1. prog = "p2" /\ UNCHANGED <<prog, boss, deleted, P!p1Vars, P!p3Vars>>
    BY <1>6, OwnSteps DEF P!Once, P!Data, P!mainVars, P!p2Vars, Runners
  <2> QED BY <2>1 DEF P!p1Vars, P!p3Vars, IdleInv
<1>7. ASSUME NEW t \in Demos, P!Lookup(t) \/ P!Meet(t) PROVE IdleInv'
  <2>1. prog = "p3" /\ UNCHANGED <<prog, boss, P!p1Vars, P!p2Vars>>
    BY <1>7, OwnSteps DEF P!Lookup, P!Meet, P!mainVars, Runners
  <2> QED BY <2>1 DEF P!p1Vars, P!p2Vars, IdleInv
<1> QED BY <1>1, <1>2, <1>3, <1>4, <1>5, <1>6, <1>7, RaceNames
        DEF P!PNext, P!MainStep, P!Thread

-----------------------------------------------------------------------------
(* The steps of p3 *)

\* What the barriers' invariant sees of a step that comes to none.
LEMMA AwayFromBarriers ==
  ASSUME BarrierInv, waiting' = waiting, NEW t, NEW from, NEW to,
         place[t] = from, place' = [place EXCEPT ![t] = to],
         Demos \subseteq DOMAIN place,
         boss' = boss \/ {boss, boss'} \cap {"blocked", "join", "done"} = {},
         \/ {from, to} \cap ({"blocked"} \cup Beyond) = {}
         \/ from = "blocked" /\ to = "work" /\ t \notin waiting["start"]
         \/ from = "work" /\ to = "stop"
         \/ from = "stopped" /\ to = "end" /\ t \notin waiting["stop"]
  PROVE  BarrierInv'
<1>1. \A u \in Demos : place'[u] = IF u = t THEN to ELSE place[u] OBVIOUS
<1>2. CASE t \in Demos
  <2>1. StartInv'
    <3>1. CASE /\ waiting["start"] = AtStart /\ boss \notin {"join", "done"}
               /\ \A u \in Demos : place[u] \notin Beyond
      <4>1. {from, to} \cap ({"blocked"} \cup Beyond) = {}
        BY <1>2, <3>1 DEF AtStart, Beyond
      <4>2. AtStart' = AtStart
        <5>1. boss' = "blocked" <=> boss = "blocked" OBVIOUS
        <5> QED BY <1>1, <4>1, <5>1 DEF AtStart
      <4>3. \A u \in Demos : place'[u] \notin Beyond BY <1>1, <3>1, <4>1
      <4> QED BY <3>1, <4>2, <4>3 DEF StartInv
    <3>2. CASE /\ waiting["start"] = {} /\ boss \in {"blocked", "join", "done"}
               /\ \A u \in Demos : place[u] \in {"blocked"} \cup Beyond
      <4>1. to \in {"blocked"} \cup Beyond BY <1>2, <3>2 DEF Beyond
      <4>2. \A u \in Demos : place'[u] \in {"blocked"} \cup Beyond BY <1>1, <3>2, <4>1
      <4> QED BY <3>2, <4>2 DEF StartInv
    <3> QED BY <3>1, <3>2 DEF BarrierInv, StartInv
  <2>2. StopInv'
    <3>1. CASE waiting["stop"] = AtStop /\ \A u \in Demos : place[u] # "end"
      <4>1. from # "stopped" /\ to # "stopped" /\ to # "end" BY <1>2, <3>1 DEF AtStop, Beyond
      <4>2. AtStop' = AtStop /\ \A u \in Demos : place'[u] # "end"
        BY <1>1, <3>1, <4>1 DEF AtStop
      <4> QED BY <3>1, <4>2 DEF StopInv
    <3>2. CASE waiting["stop"] = {} /\ \A u \in Demos : place[u] \in {"stopped", "end"}
      <4>1. to \in {"stopped", "end"} BY <1>2, <3>2 DEF Beyond
      <4> QED BY <1>1, <3>2, <4>1 DEF StopInv
    <3> QED BY <3>1, <3>2 DEF BarrierInv, StopInv
  <2> QED BY <2>1, <2>2 DEF BarrierInv
<1>3. CASE t \notin Demos
  <2>1. \A u \in Demos : place'[u] = place[u] BY <1>1, <1>3
  <2>2. AtStart' = AtStart /\ AtStop' = AtStop
    <3>1. boss' = "blocked" <=> boss = "blocked" OBVIOUS
    <3> QED BY <2>1, <3>1 DEF AtStart, AtStop
  <2> QED BY <2>1, <2>2 DEF BarrierInv, StartInv, StopInv
<1> QED BY <1>2, <1>3

LEMMA KeptMap ==
  ASSUME MapInv, UNCHANGED <<made, known, number>>, mutex' \subseteq Demos,
         \/ boss' = boss
         \/ {boss, boss'} \subseteq {"start", "blocked", "join", "done"}
  PROVE  MapInv'
<1>1. P!ToSet(made)' = P!ToSet(made) /\ P!Last(made)' = P!Last(made) BY DEF P!ToSet, P!Last
<1>2. boss' = "insert" <=> boss = "insert" OBVIOUS
<1> QED BY <1>1, <1>2 DEF MapInv

LEMMA CreateTogether ==
  TogetherInv /\ prog = "p3" /\ P!Create => MapInv' /\ BarrierInv'
<1> SUFFICES ASSUME TogetherInv, prog = "p3", P!Create PROVE MapInv' /\ BarrierInv'
  OBVIOUS
<1>1. PICK t \in Demos \ P!ToSet(made) :
        made' = Append(made, t) /\ place' = [place EXCEPT ![t] = "lock"]
  BY RaceNames DEF P!Create, P!First
<1>2. /\ boss = "create" /\ boss' = "insert"
      /\ UNCHANGED <<known, mutex, number, waiting>>
  BY DEF P!Create, P!p3Vars
<1>3. /\ made \in Seq(Runners) /\ t \in Runners /\ place[t] = "none"
      /\ place \in [Runners -> Stations] /\ MapInv /\ BarrierInv
  BY <1>1 DEF TogetherInv, RaceInv, StationInv, Runners
<1>4. /\ P!ToSet(made') = P!ToSet(made) \cup {t}
      /\ Len(made') = Len(made) + 1 /\ Len(made) \in Nat /\ made'[Len(made) + 1] = t
      /\ \A k \in 1..Len(made) : made'[k] = made[k]
  BY <1>1, <1>3, Appended
<1>5. \A k \in 1..Len(made) : made[k] # t
  BY <1>1, <1>3 DEF P!ToSet
<1>6. \A j, k \in 1..Len(made') : made'[j] = made'[k] => j = k
  <2> SUFFICES ASSUME NEW j \in 1..(Len(made) + 1), NEW k \in 1..(Len(made) + 1),
                      made'[j] = made'[k]
               PROVE  j = k
    BY <1>4
  <2>1. CASE j \in 1..Len(made) /\ k \in 1..Len(made) BY <2>1, <1>3, <1>4 DEF MapInv
  <2>2. CASE j \in 1..Len(made) /\ k = Len(made) + 1 BY <2>2, <1>4, <1>5
  <2>3. CASE j = Len(made) + 1 /\ k \in 1..Len(made) BY <2>3, <1>4, <1>5
  <2> QED BY <2>1, <2>2, <2>3, <1>4
<1>7. P!Last(made') = t /\ made' # <<>> BY <1>3, <1>4 DEF P!Last
<1>8. P!ToSet(made)' = P!ToSet(made') /\ P!Last(made)' = P!Last(made') BY DEF P!ToSet, P!Last
<1>9. known = P!ToSet(made) BY <1>2, <1>3 DEF MapInv
<1>10. ASSUME NEW u \in Demos, number[u] # 0
       PROVE  \E k \in 1..Len(made') : made'[k] = u /\ number[u] = k - 1
  BY <1>3, <1>4, <1>10 DEF MapInv
<1>11. MapInv'
  BY <1>2, <1>3, <1>4, <1>6, <1>7, <1>8, <1>9, <1>10 DEF MapInv
<1>12. BarrierInv'
  <2>1. Demos \subseteq DOMAIN place BY <1>3 DEF Runners
  <2>2. {"none", "lock"} \cap ({"blocked"} \cup Beyond) = {} BY DEF Beyond
  <2>3. {boss, boss'} \cap {"blocked", "join", "done"} = {} BY <1>2
  <2> QED BY <1>1, <1>2, <1>3, <2>1, <2>2, <2>3, AwayFromBarriers
<1> QED BY <1>11, <1>12

LEMMA MainTogether ==
  TogetherInv /\ prog = "p3" /\ (P!Insert \/ P!StartAll \/ P!Released \/ P!Join)
    => MapInv' /\ BarrierInv'
<1> SUFFICES ASSUME TogetherInv, prog = "p3",
                    P!Insert \/ P!StartAll \/ P!Released \/ P!Join
             PROVE  MapInv' /\ BarrierInv'
  OBVIOUS
<1>1. MapInv /\ BarrierInv /\ mutex \subseteq Demos BY DEF TogetherInv, MapInv
<1>2. P!Mine = Demos BY RaceNames
<1>3. CASE P!Insert
  <2>1. /\ boss = "insert" /\ known' = known \cup {P!Last(made)}
        /\ boss' = (IF Demos = P!ToSet(made) THEN "start" ELSE "create")
        /\ UNCHANGED <<made, place, mutex, number, waiting>>
    BY <1>2, <1>3 DEF P!Insert
  <2>2. P!ToSet(made)' = P!ToSet(made) BY <2>1 DEF P!ToSet
  <2>3. known' = P!ToSet(made) BY <1>1, <2>1 DEF MapInv
  <2>4. MapInv' BY <1>1, <2>1, <2>2, <2>3 DEF MapInv
  <2>5. AtStart' = AtStart /\ AtStop' = AtStop /\ boss' \notin {"join", "done"}
    BY <2>1 DEF AtStart, AtStop
  <2>6. BarrierInv' BY <1>1, <2>1, <2>5 DEF BarrierInv, StartInv, StopInv
  <2> QED BY <2>4, <2>6
<1>4. CASE P!StartAll
  <2>1. /\ boss = "start" /\ boss' = "blocked" /\ P!Arrive("main", "start")
        /\ UNCHANGED <<made, place, known, mutex, number>>
    BY <1>4 DEF P!StartAll, P!Boss
  <2>2. MapInv' BY <1>1, <2>1, KeptMap
  <2>3. waiting["start"] = AtStart /\ \A u \in Demos : place[u] \notin Beyond
    BY <1>1, <2>1 DEF BarrierInv, StartInv
  <2>4. AtStart = {u \in Demos : place[u] = "blocked"} /\ AtStart' = AtStart \cup {"main"}
    BY <2>1 DEF AtStart
  <2>5. /\ waiting' \in [{"start", "stop"} -> SUBSET (Demos \cup {"main"})]
        /\ waiting'["stop"] = waiting["stop"]
        /\ AtStart \cup {"main"} = Demos \cup {"main"} => waiting'["start"] = {}
        /\ AtStart \cup {"main"} # Demos \cup {"main"} => waiting'["start"] = AtStart \cup {"main"}
    <3>1. waiting["start"] \subseteq Demos \cup {"main"} /\ "main" \notin waiting["start"]
      BY <2>3, <2>4, DemosAssumption
    <3>2. /\ waiting' \in [{"start", "stop"} -> SUBSET (Demos \cup {"main"})]
          /\ \A c \in {"start", "stop"} : c # "start" => waiting'[c] = waiting[c]
          /\ waiting["start"] \cup {"main"} = Demos \cup {"main"} => waiting'["start"] = {}
          /\ waiting["start"] \cup {"main"} # Demos \cup {"main"} =>
               waiting'["start"] = waiting["start"] \cup {"main"}
      BY <1>1, <2>1, <3>1, ArriveFacts, BarrierSizes
    <3> QED BY <2>3, <3>2
  <2>6. StartInv'
    <3>1. CASE AtStart \cup {"main"} = Demos \cup {"main"}
      <4>1. \A u \in Demos : place[u] = "blocked" BY <2>4, <3>1, DemosAssumption
      <4> QED BY <2>1, <2>5, <3>1, <4>1 DEF StartInv
    <3>2. CASE AtStart \cup {"main"} # Demos \cup {"main"}
      BY <2>1, <2>3, <2>4, <2>5, <3>2 DEF StartInv
    <3> QED BY <3>1, <3>2
  <2>7. StopInv'
    <3>1. AtStop' = AtStop BY <2>1 DEF AtStop
    <3> QED BY <1>1, <2>1, <2>5, <3>1 DEF BarrierInv, StopInv
  <2> QED BY <2>2, <2>5, <2>6, <2>7 DEF BarrierInv
<1>5. CASE P!Released \/ P!Join
  <2>1. /\ boss \in {"blocked", "join"} /\ boss' \in {"join", "done"}
        /\ boss = "blocked" => "main" \notin waiting["start"]
        /\ UNCHANGED <<made, place, known, mutex, number, waiting>>
    <3>1. CASE P!Released BY <3>1 DEF P!Released, P!p3Vars, P!Boss
    <3>2. CASE P!Join
      <4>1. boss' \in {"join", "done"} /\ boss = "join" BY <3>2 DEF P!Join
      <4> QED BY <3>2, <4>1 DEF P!Join, P!p3Vars
    <3> QED BY <1>5, <3>1, <3>2
  <2>2. MapInv' BY <1>1, <2>1, KeptMap
  <2>3. /\ waiting["start"] = {} /\ \A u \in Demos : place[u] \in {"blocked"} \cup Beyond
    <3>1. ~(waiting["start"] = AtStart /\ boss \notin {"join", "done"})
      BY <2>1 DEF AtStart
    <3> QED BY <1>1, <3>1 DEF BarrierInv, StartInv
  <2>4. StartInv' BY <2>1, <2>3 DEF StartInv
  <2>5. AtStop' = AtStop BY <2>1 DEF AtStop
  <2> QED BY <1>1, <2>1, <2>2, <2>4, <2>5 DEF BarrierInv, StopInv
<1> QED BY <1>3, <1>4, <1>5

LEMMA LookupTogether ==
  ASSUME TogetherInv, prog = "p3", NEW t \in Demos, P!Lookup(t)
  PROVE  MapInv' /\ BarrierInv'
<1>1. MapInv /\ BarrierInv /\ mutex \subseteq Demos BY DEF TogetherInv, MapInv
<1>2. boss' = boss /\ UNCHANGED <<made, known, waiting>> BY DEF P!Lookup, P!mainVars
<1>3. PICK from \in {"lock", "find", "unlock"}, to \in {"find", "unlock", "start"} :
        place[t] = from /\ place' = [place EXCEPT ![t] = to]
  BY DEF P!Lookup, P!Go
<1>4. BarrierInv'
  <2>1. Demos \subseteq DOMAIN place BY DEF TogetherInv, RaceInv, StationInv, Runners
  <2>2. {from, to} \cap ({"blocked"} \cup Beyond) = {} BY DEF Beyond
  <2> QED BY <1>1, <1>2, <1>3, <2>1, <2>2, AwayFromBarriers
<1>5. CASE mutex' \subseteq Demos /\ number' = number BY <1>1, <1>2, <1>4, <1>5, KeptMap
<1>6. CASE mutex' = mutex /\ \E map \in SUBSET P!ToSet(made) :
               number' = [number EXCEPT ![t] = IF t \in map THEN P!Number(t) - 1 ELSE 0]
  <2>1. PICK map \in SUBSET P!ToSet(made) :
          number' = [number EXCEPT ![t] = IF t \in map THEN P!Number(t) - 1 ELSE 0]
    BY <1>6
  <2>2. number \in [Demos -> 0..Cardinality(Demos)] BY <1>1 DEF MapInv
  <2>3. /\ \A u \in Demos \ {t} : number'[u] = number[u]
        /\ number'[t] = IF t \in map THEN P!Number(t) - 1 ELSE 0
    BY <2>1, <2>2
  <2>4. made \in Seq(Runners) /\ P!ToSet(made) \subseteq Demos
    BY RaceNames DEF TogetherInv, RaceInv, StationInv
  <2>5. Len(made) <= Cardinality(Demos) /\ Len(made) \in Nat /\ Cardinality(Demos) \in Nat
    BY <1>1, <2>4, MadeLength
  <2>6. t \in map => \E k \in 1..Len(made) : made[k] = t /\ number'[t] = k - 1
    <3> SUFFICES ASSUME t \in map PROVE \E k \in 1..Len(made) : made[k] = t /\ number'[t] = k - 1
      OBVIOUS
    <3>1. PICK k \in 1..Len(made) : made[k] = t BY <2>4 DEF P!ToSet
    <3>2. P!Number(t) = k BY <1>1, <3>1, NumberIs
    <3> QED BY <2>3, <3>1, <3>2
  <2>7. number'[t] \in 0..Cardinality(Demos)
    <3>1. CASE t \in map
      <4>1. PICK k \in 1..Len(made) : number'[t] = k - 1 BY <2>6, <3>1
      <4> QED BY <2>5, <4>1
    <3>2. CASE t \notin map BY <2>3, <2>5, <3>2
    <3> QED BY <3>1, <3>2
  <2>8. number' \in [Demos -> 0..Cardinality(Demos)] BY <2>1, <2>2, <2>3, <2>7
  <2>9. ASSUME NEW u \in Demos, number'[u] # 0
        PROVE  \E k \in 1..Len(made) : made[k] = u /\ number'[u] = k - 1
    <3>1. CASE u = t BY <2>3, <2>6, <2>9, <3>1
    <3>2. CASE u # t BY <1>1, <2>3, <2>9, <3>2 DEF MapInv
    <3> QED BY <3>1, <3>2
  <2>10. P!ToSet(made)' = P!ToSet(made) /\ P!Last(made)' = P!Last(made)
    BY <1>2 DEF P!ToSet, P!Last
  <2> QED BY <1>1, <1>2, <1>4, <1>6, <2>8, <2>9, <2>10 DEF MapInv
<1>7. \/ mutex' \subseteq Demos /\ number' = number
      \/ mutex' = mutex /\ \E map \in SUBSET P!ToSet(made) :
           number' = [number EXCEPT ![t] = IF t \in map THEN P!Number(t) - 1 ELSE 0]
  <2>1. ASSUME NEW map \in {known} \cup (IF boss = "insert" THEN {known \cup {P!Last(made)}} ELSE {})
        PROVE  map \in SUBSET P!ToSet(made)
    BY <1>1 DEF MapInv
  <2> QED BY <2>1 DEF P!Lookup
<1> QED BY <1>4, <1>5, <1>6, <1>7

LEMMA MeetTogether ==
  ASSUME TogetherInv, prog = "p3", NEW t \in Demos, P!Meet(t)
  PROVE  MapInv' /\ BarrierInv'
<1>1. MapInv /\ BarrierInv /\ mutex \subseteq Demos BY DEF TogetherInv, MapInv
<1>2. boss' = boss /\ UNCHANGED <<made, known, mutex, number>>
  BY DEF P!Meet, P!mainVars, P!p3Vars
<1>3. MapInv' BY <1>1, <1>2, KeptMap
<1>4. Demos \subseteq DOMAIN place BY DEF TogetherInv, RaceInv, StationInv, Runners
<1>5. ASSUME NEW from, NEW to, P!Go(t, from, to), waiting' = waiting,
             \/ from = "blocked" /\ to = "work" /\ t \notin waiting["start"]
             \/ from = "work" /\ to = "stop"
             \/ from = "stopped" /\ to = "end" /\ t \notin waiting["stop"]
      PROVE  BarrierInv'
  BY <1>1, <1>2, <1>4, <1>5, AwayFromBarriers DEF P!Go
<1>6. CASE P!Go(t, "start", "blocked") /\ P!Arrive(t, "start")
  <2>1. place[t] = "start" /\ \A u \in Demos : place'[u] = IF u = t THEN "blocked" ELSE place[u]
    BY <1>4, <1>6 DEF P!Go
  <2>2. /\ waiting["start"] = AtStart /\ boss \notin {"join", "done"}
        /\ \A u \in Demos : place[u] \notin Beyond
    BY <1>1, <2>1 DEF BarrierInv, StartInv, Beyond
  <2>3. AtStart \subseteq Demos \cup {"main"} /\ t \notin AtStart
    BY <2>1, DemosAssumption DEF AtStart
  <2>4. AtStart' = AtStart \cup {t} BY <1>2, <2>1 DEF AtStart
  <2>5. /\ waiting' \in [{"start", "stop"} -> SUBSET (Demos \cup {"main"})]
        /\ waiting'["stop"] = waiting["stop"]
        /\ AtStart' = Demos \cup {"main"} => waiting'["start"] = {}
        /\ AtStart' # Demos \cup {"main"} => waiting'["start"] = AtStart'
    <3>1. /\ waiting' \in [{"start", "stop"} -> SUBSET (Demos \cup {"main"})]
          /\ \A c \in {"start", "stop"} : c # "start" => waiting'[c] = waiting[c]
          /\ waiting["start"] \cup {t} = Demos \cup {"main"} => waiting'["start"] = {}
          /\ waiting["start"] \cup {t} # Demos \cup {"main"} =>
               waiting'["start"] = waiting["start"] \cup {t}
      BY <1>1, <1>6, <2>2, <2>3, ArriveFacts, BarrierSizes
    <3> QED BY <2>2, <2>4, <3>1
  <2>6. StartInv'
    <3>1. CASE AtStart' = Demos \cup {"main"}
      <4>1. boss = "blocked" /\ \A u \in Demos : place'[u] = "blocked"
        BY <1>2, <3>1, DemosAssumption DEF AtStart
      <4> QED BY <1>2, <2>5, <3>1, <4>1 DEF StartInv
    <3>2. CASE AtStart' # Demos \cup {"main"}
      <4>1. \A u \in Demos : place'[u] \notin Beyond BY <2>1, <2>2 DEF Beyond
      <4> QED BY <1>2, <2>2, <2>5, <3>2, <4>1 DEF StartInv
    <3> QED BY <3>1, <3>2
  <2>7. StopInv'
    <3>1. AtStop' = AtStop BY <2>1 DEF AtStop
    <3>2. waiting["stop"] = AtStop /\ \A u \in Demos : place[u] # "end"
      BY <1>1, <2>1 DEF BarrierInv, StopInv
    <3> QED BY <2>1, <2>5, <3>1, <3>2 DEF StopInv
  <2> QED BY <1>3, <2>5, <2>6, <2>7 DEF BarrierInv
<1>7. CASE P!Go(t, "stop", "stopped") /\ P!Arrive(t, "stop")
  <2>1. place[t] = "stop" /\ \A u \in Demos : place'[u] = IF u = t THEN "stopped" ELSE place[u]
    BY <1>4, <1>7 DEF P!Go
  <2>2. waiting["stop"] = AtStop /\ \A u \in Demos : place[u] # "end"
    BY <1>1, <2>1 DEF BarrierInv, StopInv
  <2>3. AtStop \subseteq Demos /\ t \notin AtStop /\ AtStop' = AtStop \cup {t}
    BY <2>1 DEF AtStop
  <2>4. /\ waiting' \in [{"start", "stop"} -> SUBSET (Demos \cup {"main"})]
        /\ waiting'["start"] = waiting["start"]
        /\ AtStop' = Demos => waiting'["stop"] = {}
        /\ AtStop' # Demos => waiting'["stop"] = AtStop'
    <3>1. /\ waiting' \in [{"start", "stop"} -> SUBSET (Demos \cup {"main"})]
          /\ \A c \in {"start", "stop"} : c # "stop" => waiting'[c] = waiting[c]
          /\ waiting["stop"] \cup {t} = Demos => waiting'["stop"] = {}
          /\ waiting["stop"] \cup {t} # Demos => waiting'["stop"] = waiting["stop"] \cup {t}
      BY <1>1, <1>7, <2>2, <2>3, ArriveFacts, BarrierSizes
    <3> QED BY <2>2, <2>3, <3>1
  <2>5. StopInv'
    <3>1. CASE AtStop' = Demos
      <4>1. \A u \in Demos : place'[u] = "stopped" BY <3>1 DEF AtStop
      <4> QED BY <2>4, <3>1, <4>1 DEF StopInv
    <3>2. CASE AtStop' # Demos
      <4>1. \A u \in Demos : place'[u] # "end" BY <2>1, <2>2
      <4> QED BY <2>4, <3>2, <4>1 DEF StopInv
    <3> QED BY <3>1, <3>2
  <2>6. StartInv'
    <3>1. /\ waiting["start"] = {} /\ boss \in {"blocked", "join", "done"}
          /\ \A u \in Demos : place[u] \in {"blocked"} \cup Beyond
      BY <1>1, <2>1 DEF BarrierInv, StartInv, Beyond
    <3>2. \A u \in Demos : place'[u] \in {"blocked"} \cup Beyond BY <2>1, <3>1 DEF Beyond
    <3> QED BY <1>2, <2>4, <3>1, <3>2 DEF StartInv
  <2> QED BY <1>3, <2>4, <2>5, <2>6 DEF BarrierInv
<1>8. P!Meet(t) => \/ P!Go(t, "start", "blocked") /\ P!Arrive(t, "start")
                   \/ P!Go(t, "blocked", "work") /\ t \notin waiting["start"] /\ waiting' = waiting
                   \/ P!Go(t, "work", "stop") /\ waiting' = waiting
                   \/ P!Go(t, "stop", "stopped") /\ P!Arrive(t, "stop")
                   \/ P!Go(t, "stopped", "end") /\ t \notin waiting["stop"] /\ waiting' = waiting
  BY DEF P!Meet, P!p3Vars
<1> QED BY <1>3, <1>5, <1>6, <1>7, <1>8

LEMMA TogetherInit == P!PInit => TogetherInv
<1> SUFFICES ASSUME P!PInit PROVE TogetherInv
  OBVIOUS
<1>1. /\ boss = "create" /\ made = <<>> /\ place = [t \in Runners |-> "none"]
      /\ v1 = 0 /\ v2 = 0 /\ tmp = [t \in Runners |-> 0] /\ loop = [t \in Runners |-> 0]
      /\ once = "no" /\ key = 0 /\ vec = <<>> /\ seen = [t \in Demos |-> <<>>]
      /\ raced = FALSE /\ deleted = {} /\ known = {} /\ mutex = {}
      /\ number = [t \in Demos |-> 0] /\ waiting = [b \in {"start", "stop"} |-> {}]
  BY RaceNames DEF P!PInit
<1>2. IdleInv
  <2>1. 0 \in 0..LOOPS BY RacersAssumption
  <2>2. tmp \in [Runners -> Int] /\ loop \in [Runners -> 0..LOOPS] BY <1>1, <2>1
  <2>3. vec \in Seq(Demos) BY <1>1
  <2>4. seen \in [Demos -> Seq(Demos)]
    <3>1. <<>> \in Seq(Demos) OBVIOUS
    <3> QED BY <1>1, <3>1
  <2>5. v1 \in Int /\ v2 \in Nat /\ key \in Nat /\ raced \in BOOLEAN
    <3>1. v1 = 0 /\ v2 = 0 /\ key = 0 /\ raced = FALSE BY ONLY <1>1
    <3>2. v1 \in Int /\ v2 \in Nat /\ key \in Nat BY ONLY <3>1
    <3>3. raced \in BOOLEAN BY ONLY <3>1, Zenon
    <3> QED BY <3>2, <3>3
  <2>6. /\ boss = "create" /\ once = "no" /\ deleted = {} /\ known = {} /\ mutex = {}
        /\ number = [t \in Demos |-> 0] /\ waiting = [b \in {"start", "stop"} |-> {}]
    BY ONLY <1>1
  <2> QED BY ONLY <2>2, <2>3, <2>4, <2>5, <2>6 DEF IdleInv
<1>3. P!ToSet(made) = {} BY <1>1 DEF P!ToSet
<1>4. MapInv
  <2>1. number \in [Demos -> 0..Cardinality(Demos)]
    BY <1>1, DemosAssumption, FS_CardinalityType
  <2>2. Len(made) = 0 BY <1>1
  <2> QED BY <1>1, <1>3, <2>1, <2>2 DEF MapInv
<1>5. BarrierInv
  <2>1. \A u \in Demos : place[u] = "none" BY <1>1 DEF Runners
  <2>2. AtStart = {} /\ AtStop = {} BY <1>1, <2>1 DEF AtStart, AtStop
  <2> QED BY <1>1, <2>1, <2>2 DEF BarrierInv, StartInv, StopInv, Beyond
<1> QED BY <1>2, <1>4, <1>5, RaceInit_Inv DEF TogetherInv

\* For every number of threads no thread of p3 works before all have looked for their
\* number and main has entered them, none ends before all have worked, and each found
\* its own number or none.
THEOREM ThreadsStayTogether == AllSpec => []P!Together
<1>1. AllInit => TogetherInv BY TogetherInit DEF AllInit
<1>2. TogetherInv /\ [AllNext]_all => TogetherInv'
  <2> SUFFICES ASSUME TogetherInv, [AllNext]_all PROVE TogetherInv'
    OBVIOUS
  <2>1. RaceInv' BY RaceStepInv DEF TogetherInv
  <2>2. CASE UNCHANGED pvars
    <3>1. /\ UNCHANGED <<prog, boss, made, place, v1, v2, tmp, loop, once, key, vec, seen, raced>>
          /\ UNCHANGED <<deleted, known, mutex, number, waiting>>
      BY <2>2 DEF pvars
    <3>2. IdleInv' BY <3>1 DEF TogetherInv, IdleInv
    <3>3. ASSUME prog = "p3" PROVE MapInv' /\ BarrierInv'
      <4>1. AtStart' = AtStart /\ AtStop' = AtStop BY <3>1 DEF AtStart, AtStop
      <4>2. BarrierInv' BY <3>1, <3>3, <4>1 DEF TogetherInv, BarrierInv, StartInv, StopInv
      <4>3. mutex' \subseteq Demos /\ MapInv BY <3>1, <3>3 DEF TogetherInv, MapInv
      <4> QED BY <3>1, <4>2, <4>3, KeptMap
    <3> QED BY <2>1, <3>1, <3>2, <3>3 DEF TogetherInv
  <2>3. CASE P!PNext
    <3>1. IdleInv' BY <2>3, IdleStep
    <3>2. prog' = prog
      <4>1. P!MainStep => prog' = prog
        BY DEF P!MainStep, P!Create, P!Insert, P!StartAll, P!Released, P!Join, P!Clear
      <4>2. \A t : P!Thread(t) => prog' = prog
        BY DEF P!Thread, P!Count, P!Get, P!Once, P!Data, P!Lookup, P!Meet, P!mainVars
      <4> QED BY <2>3, <4>1, <4>2 DEF P!PNext
    <3>3. ASSUME prog = "p3" PROVE MapInv' /\ BarrierInv'
      <4>1. CASE P!MainStep
        <5>1. ~P!Clear BY <3>3 DEF P!Clear, TogetherInv, RaceInv, DeletedInv
        <5> QED BY <3>3, <4>1, <5>1, CreateTogether, MainTogether DEF P!MainStep
      <4>2. ASSUME NEW t \in Runners, P!Thread(t) PROVE MapInv' /\ BarrierInv'
        <5>1. ~P!Count(t) /\ ~P!Once(t) /\ ~P!Data(t) BY <3>3, OwnSteps DEF TogetherInv
        <5> QED BY <3>3, <4>2, <5>1, LookupTogether, MeetTogether DEF P!Thread
      <4> QED BY <2>3, <4>1, <4>2, RaceNames DEF P!PNext
    <3> QED BY <2>1, <3>1, <3>2, <3>3 DEF TogetherInv
  <2>4. P!PNext \/ UNCHANGED pvars
    BY DEF AllNext, P4Step, PthreadStep, TimerStep, PtyStep, NetlinkStep, PipeStep, all, ipc
  <2> QED BY <2>2, <2>3, <2>4
<1> QED BY <1>1, <1>2, TogetherInv_Together, PTL DEF AllSpec

-----------------------------------------------------------------------------
(* timerfd: each expiration once, for all times *)

\* Whenever the single shot is armed new_value has no interval, and exp is in use only
\* from the read of the timer to the post.
ShotInv ==
  /\ T!ShotsCounted
  /\ tfd.interval = 0
  /\ step \in {"now_shot", "set_shot", "now", "set"} => interval = 0
  /\ step \notin {"now", "set", "post", "gone"} => exp = 0

LEMMA SecondsInOrder ==
  /\ SEC \in Nat /\ SEC > 0 /\ FIRST * SEC \in Nat /\ SHOT * SEC \in Nat
  /\ PERIOD * SEC \in Nat /\ TIMEOUT * SEC \in Nat
  /\ SEC <= FIRST * SEC /\ FIRST * SEC <= SHOT * SEC /\ SHOT * SEC <= PERIOD * SEC
<1>1. /\ SEC \in Nat /\ FIRST \in Nat /\ SHOT \in Nat /\ PERIOD \in Nat /\ TIMEOUT \in Nat
      /\ SEC > 0 /\ 0 < FIRST /\ FIRST <= SHOT /\ SHOT <= PERIOD
  BY TimesAssumption
<1>2. \A a, b, c \in Nat : a <= b => a * c <= b * c /\ a * c \in Nat
  OBVIOUS
<1>3. 1 * SEC = SEC BY <1>1
<1> QED BY <1>1, <1>2, <1>3

\* A timer that runs for a tick.
LEMMA RunFacts ==
  ASSUME NEW t \in T!Timer, T!Run(t).expired <= MaxMissed
  PROVE  /\ T!Run(t) \in T!Timer /\ T!Run(t).interval = t.interval
         /\ T!Run(t).expired = IF t.left = 1 THEN t.expired + 1 ELSE t.expired
         /\ t.interval = 0 /\ T!Run(t).left > 0 => t.left > 1
<1> DEFINE Period == PERIOD * SEC
<1>1. /\ t.left \in 0..Period /\ t.interval \in {0, Period} /\ t.expired \in 0..MaxMissed
      /\ t = [left |-> t.left, interval |-> t.interval, expired |-> t.expired]
  BY DEF T!Timer
<1>2. Period \in Nat /\ MaxMissed \in Nat BY SecondsInOrder, TimesAssumption
<1> HIDE DEF Period
<1>3. CASE t.left = 1
  <2>1. T!Run(t) = [left |-> t.interval, interval |-> t.interval, expired |-> t.expired + 1]
    BY <1>3 DEF T!Run
  <2> QED BY <1>1, <1>2, <1>3, <2>1 DEF T!Timer, Period
<1>4. CASE t.left = 0
  <2>1. T!Run(t) = t BY <1>4 DEF T!Run
  <2> QED BY <1>1, <1>2, <1>4, <2>1
<1>5. CASE t.left > 1
  <2>1. T!Run(t) = [left |-> t.left - 1, interval |-> t.interval, expired |-> t.expired]
    BY <1>1, <1>2, <1>5 DEF T!Run
  <2> QED BY <1>1, <1>2, <1>5, <2>1 DEF T!Timer, Period
<1> QED BY <1>1, <1>2, <1>3, <1>4, <1>5

\* What the steps below need of the types.
LEMMA TimerFacts ==
  ASSUME T!TypeOK
  PROVE  /\ phase \in Nat /\ phase < SEC /\ goal \in Nat /\ goal <= SHOT * SEC
         /\ exp \in Nat /\ efd \in Nat /\ owed \in Nat /\ owed <= MaxMissed
         /\ tfd.expired \in Nat /\ tfd.left \in Nat /\ MaxMissed \in Nat
         /\ patience \in Nat /\ turn \in Nat /\ PROMPT \in Nat /\ SLOW \in Nat /\ PROMPT <= SLOW
BY SecondsInOrder, TimesAssumption DEF T!TypeOK, T!Timer

LEMMA ShotTick == ShotInv /\ T!Tick => ShotInv'
<1> SUFFICES ASSUME ShotInv, T!Tick PROVE ShotInv'
  OBVIOUS
<1>1. T!TypeOK BY DEF ShotInv, T!ShotsCounted
<1>2. /\ tfd.expired <= 1 /\ (tfd.left > 0 => tfd.expired = 0) /\ tfd.interval = 0
      /\ owed = tfd.expired + exp + efd
  BY DEF ShotInv, T!ShotsCounted
<1>3. /\ tfd' = T!Run(tfd) /\ pfd' = T!Run(pfd) /\ owed' = owed + tfd'.expired - tfd.expired
      /\ owed' <= MaxMissed /\ pfd'.expired <= MaxMissed
      /\ phase' = (phase + 1) % SEC /\ goal' = (IF goal = 0 THEN 0 ELSE goal - 1)
      /\ UNCHANGED <<step, interval, exp, efd, prompt>>
  BY DEF T!Tick
<1>4. tfd \in T!Timer /\ pfd \in T!Timer BY <1>1 DEF T!TypeOK
<1>5. tfd'.expired = IF tfd.left = 1 THEN tfd.expired + 1 ELSE tfd.expired
  BY <1>3, <1>4, TimerFacts, <1>1 DEF T!Run, T!Timer
<1>6. owed' = tfd'.expired + exp + efd /\ tfd'.expired <= 1 /\ tfd'.expired \in Nat /\ owed' \in Nat
  BY <1>1, <1>2, <1>3, <1>5, TimerFacts
<1>7. tfd'.expired <= MaxMissed BY <1>1, <1>3, <1>6, TimerFacts
<1>8. /\ tfd' \in T!Timer /\ tfd'.interval = 0 /\ (tfd'.left > 0 => tfd.left > 1)
      /\ pfd' \in T!Timer
  BY <1>2, <1>3, <1>4, <1>7, RunFacts
<1>9. tfd'.left > 0 => tfd'.expired = 0
  BY <1>1, <1>2, <1>5, <1>8, TimerFacts
<1>10. T!TypeOK'
  <2>1. phase' \in 0..(SEC - 1) BY <1>1, <1>3, TimerFacts, SecondsInOrder
  <2>2. goal' \in 0..(SHOT * SEC) BY <1>1, <1>3, TimerFacts, SecondsInOrder
  <2>3. turn' \in 0..SLOW
    <3>1. turn \in 0..SLOW BY <1>1 DEF T!TypeOK
    <3>2. \/ turn' = turn
          \/ turn' = turn + 1 /\ turn < IF prompt THEN PROMPT ELSE SLOW
      BY DEF T!Tick
    <3>3. CASE turn' = turn BY <3>1, <3>3
    <3>4. CASE turn' = turn + 1 /\ turn < IF prompt THEN PROMPT ELSE SLOW
      <4>1. turn < SLOW BY <1>1, <3>4, TimerFacts
      <4> QED BY <1>1, <3>4, <4>1, TimerFacts
    <3> QED BY <3>2, <3>3, <3>4
  <2>4. patience' \in 0..(TIMEOUT * SEC)
    <3>1. patience \in 0..(TIMEOUT * SEC) BY <1>1 DEF T!TypeOK
    <3>2. \/ patience' = patience
          \/ patience' = patience - 1 /\ patience > 0
      BY DEF T!Tick, T!Asleep
    <3> QED BY <3>1, <3>2, SecondsInOrder
  <2>5. owed' \in 0..MaxMissed BY <1>1, <1>3, <1>6, TimerFacts
  <2> QED BY <1>1, <1>3, <1>8, <2>1, <2>2, <2>3, <2>4, <2>5 DEF T!TypeOK
<1> QED BY <1>3, <1>6, <1>8, <1>9, <1>10 DEF ShotInv, T!ShotsCounted

\* The time that a timer is set to.
LEMMA NowFits ==
  ASSUME T!TypeOK, NEW seconds \in {FIRST, SHOT}
  PROVE  seconds * SEC - phase \in 0..(SHOT * SEC)
<1>1. SEC <= seconds * SEC /\ seconds * SEC <= SHOT * SEC /\ seconds * SEC \in Nat
  BY SecondsInOrder
<1> QED BY <1>1, SecondsInOrder, TimerFacts

LEMMA ArmedFits ==
  ASSUME T!TypeOK
  PROVE  /\ T!Armed \in T!Timer /\ T!Armed.interval = interval /\ T!Armed.expired = 0
         /\ [T!Armed EXCEPT !.interval = PERIOD * SEC] \in T!Timer
<1> DEFINE left == IF goal = 0 THEN 1 ELSE goal
<1>1. left \in 0..(PERIOD * SEC) BY SecondsInOrder, TimerFacts
<1>2. T!Armed = [left |-> left, interval |-> interval, expired |-> 0] BY DEF T!Armed
<1>3. 0 \in 0..MaxMissed BY TimesAssumption
<1>4. interval \in {0, PERIOD * SEC} BY DEF T!TypeOK
<1> HIDE DEF left
<1> QED BY <1>1, <1>2, <1>3, <1>4 DEF T!Timer

LEMMA ShotThread == ShotInv /\ T!Thread => ShotInv'
<1> SUFFICES ASSUME ShotInv, T!Thread PROVE ShotInv'
  OBVIOUS
<1> USE DEF ShotInv, T!ShotsCounted
<1>1. T!TypeOK /\ owed = tfd.expired + exp + efd OBVIOUS
<1>2. ASSUME NEW where, NEW seconds \in {FIRST, SHOT}, NEW to, T!Now(where, seconds, to),
             <<where, to>> \in {<<"now_shot", "set_shot">>, <<"now_period", "set_period">>,
                                <<"now", "set">>}
      PROVE  ShotInv'
  <2>1. goal' \in 0..(SHOT * SEC) BY <1>1, <1>2, NowFits DEF T!Now
  <2> QED BY <1>1, <1>2, <2>1 DEF T!Now, T!TypeOK, T!timerVars
<1>3. ASSUME NEW where, NEW to, T!ArmShot(where, to),
             <<where, to>> \in {<<"set_shot", "now_period">>, <<"set", "post">>}
      PROVE  ShotInv'
  <2>1. tfd' = T!Armed /\ owed' = owed - tfd.expired /\ goal' = 0 /\ interval = 0
    BY <1>3 DEF T!ArmShot
  <2>2. tfd' \in T!Timer /\ tfd'.interval = 0 /\ tfd'.expired = 0
    BY <1>1, <2>1, ArmedFits
  <2>3. owed' = tfd'.expired + exp + efd /\ owed' \in 0..MaxMissed
    BY <1>1, <2>1, <2>2, TimerFacts
  <2>4. goal' \in 0..(SHOT * SEC) BY <2>1, SecondsInOrder
  <2>5. T!TypeOK' BY <1>1, <1>3, <2>2, <2>3, <2>4 DEF T!ArmShot, T!TypeOK
  <2> QED BY <1>1, <1>3, <2>2, <2>3, <2>5 DEF T!ArmShot
<1>4. CASE T!ArmPeriod
  <2>1. pfd' \in T!Timer BY <1>1, <1>4, ArmedFits DEF T!ArmPeriod
  <2>2. goal' \in 0..(SHOT * SEC) /\ turn' \in 0..SLOW
    BY <1>4, SecondsInOrder, TimesAssumption DEF T!ArmPeriod
  <2>3. T!TypeOK' BY <1>1, <1>4, <2>1, <2>2 DEF T!ArmPeriod, T!TypeOK
  <2> QED BY <1>1, <1>4, <2>3 DEF T!ArmPeriod
<1>5. CASE T!Select
  <2>1. T!TypeOK'
    <3>1. patience' \in 0..(TIMEOUT * SEC) /\ turn' \in 0..SLOW
      <4>1. CASE T!Again BY <4>1, SecondsInOrder, TimesAssumption DEF T!Again
      <4>2. CASE UNCHANGED <<patience, turn>> BY <1>1, <4>2 DEF T!TypeOK
      <4> QED BY <1>5, <4>1, <4>2 DEF T!Select
    <3>2. step' \in {"read_shot", "read_event", "read_period", "wait"}
      BY <1>5 DEF T!Select, T!Again
    <3> QED BY <1>1, <1>5, <3>1, <3>2 DEF T!Select, T!TypeOK, T!timerVars
  <2> QED BY <1>1, <1>5, <2>1 DEF T!Select, T!Again, T!timerVars
<1>6. CASE T!ReadShot
  <2>1. /\ tfd' = [tfd EXCEPT !.expired = 0] /\ exp' = tfd.expired /\ exp = 0 /\ interval' = 0
        /\ step' = "now"
    BY <1>6 DEF T!ReadShot
  <2>2. tfd \in T!Timer /\ 0 \in 0..MaxMissed BY <1>1, TimesAssumption DEF T!TypeOK
  <2>3. tfd' \in T!Timer /\ tfd'.interval = 0 /\ tfd'.expired = 0 BY <2>1, <2>2 DEF T!Timer
  <2>4. exp' \in 0..MaxMissed BY <2>1, <2>2 DEF T!Timer
  <2>5. owed = tfd'.expired + exp' + efd BY <1>1, <2>1, <2>3, TimerFacts
  <2>6. T!TypeOK' BY <1>1, <1>6, <2>1, <2>3, <2>4 DEF T!ReadShot, T!TypeOK, T!timeVars
  <2> QED BY <1>6, <2>1, <2>3, <2>5, <2>6 DEF T!ReadShot
<1>7. CASE T!Post
  <2>1. efd' = efd + exp /\ exp' = 0 /\ efd' \in 0..MaxMissed
    BY <1>1, <1>7, TimerFacts DEF T!Post
  <2>2. patience' \in 0..(TIMEOUT * SEC) /\ turn' \in 0..SLOW /\ exp' \in 0..MaxMissed
    BY <1>7, SecondsInOrder, TimesAssumption DEF T!Post, T!Again
  <2>3. T!TypeOK' BY <1>1, <1>7, <2>1, <2>2 DEF T!Post, T!Again, T!TypeOK
  <2>4. owed = tfd.expired + exp' + efd' BY <1>1, <2>1, TimerFacts
  <2> QED BY <1>7, <2>1, <2>3, <2>4 DEF T!Post, T!Again
<1>8. CASE T!ReadEvent
  <2>1. efd' = 0 /\ owed' = owed - efd /\ exp = 0 BY <1>8 DEF T!ReadEvent
  <2>2. owed' = tfd.expired + exp + efd' /\ owed' \in 0..MaxMissed
    BY <1>1, <2>1, TimerFacts
  <2>3. /\ patience' \in 0..(TIMEOUT * SEC) /\ turn' \in 0..SLOW /\ efd' \in 0..MaxMissed
    BY <1>8, SecondsInOrder, TimesAssumption DEF T!ReadEvent, T!Again
  <2>4. T!TypeOK' BY <1>1, <1>8, <2>2, <2>3 DEF T!ReadEvent, T!Again, T!TypeOK
  <2> QED BY <1>8, <2>2, <2>4 DEF T!ReadEvent, T!Again
<1>9. CASE T!ReadPeriod
  <2>1. pfd \in T!Timer /\ 0 \in 0..MaxMissed BY <1>1, TimesAssumption DEF T!TypeOK
  <2>2. pfd' \in T!Timer BY <1>9, <2>1 DEF T!ReadPeriod, T!Timer
  <2>3. /\ patience' \in 0..(TIMEOUT * SEC) /\ turn' \in 0..SLOW
    BY <1>9, SecondsInOrder, TimesAssumption DEF T!ReadPeriod, T!Again
  <2>4. T!TypeOK' BY <1>1, <1>9, <2>2, <2>3 DEF T!ReadPeriod, T!Again, T!TypeOK
  <2> QED BY <1>9, <2>4 DEF T!ReadPeriod, T!Again
<1> QED BY <1>2, <1>3, <1>4, <1>5, <1>6, <1>7, <1>8, <1>9 DEF T!Thread, T!Setup, T!ShotTurn

\* Each expiration of the single shot is told once from the eventfd, however late the
\* thread is and whatever the times are.
THEOREM ShotsAreCounted == AllSpec => []T!ShotsCounted
<1>1. AllInit => ShotInv
  <2> SUFFICES ASSUME AllInit PROVE ShotInv
    OBVIOUS
  <2>1. T!TInit BY DEF AllInit
  <2>2. T!Disarmed \in T!Timer BY SecondsInOrder, TimesAssumption DEF T!Disarmed, T!Timer
  <2>3. /\ goal \in 0..(SHOT * SEC) /\ patience \in 0..(TIMEOUT * SEC) /\ turn \in 0..SLOW
        /\ efd \in 0..MaxMissed /\ exp \in 0..MaxMissed /\ owed \in 0..MaxMissed
    BY <2>1, SecondsInOrder, TimesAssumption DEF T!TInit
  <2>4. T!TypeOK BY <2>1, <2>2, <2>3 DEF T!TInit, T!TypeOK
  <2> QED BY <2>1, <2>4 DEF ShotInv, T!ShotsCounted, T!TInit, T!Disarmed
<1>2. ShotInv /\ [AllNext]_all => ShotInv'
  <2> SUFFICES ASSUME ShotInv, [AllNext]_all PROVE ShotInv'
    OBVIOUS
  <2>1. CASE UNCHANGED tvars
    BY <2>1 DEF tvars, ShotInv, T!ShotsCounted, T!TypeOK
  <2>2. T!TNext \/ UNCHANGED tvars
    BY DEF AllNext, P4Step, PthreadStep, TimerStep, PtyStep, NetlinkStep, PipeStep, all, ipc
  <2>3. CASE T!SigInt
    <3>1. T!TypeOK' BY <2>3 DEF T!SigInt, ShotInv, T!ShotsCounted, T!TypeOK, T!timerVars, T!timeVars
    <3> QED BY <2>3, <3>1 DEF T!SigInt, ShotInv, T!ShotsCounted, T!timerVars
  <2> QED BY <2>1, <2>2, <2>3, ShotTick, ShotThread DEF T!TNext
<1>3. ShotInv => T!ShotsCounted BY DEF ShotInv
<1> QED BY <1>1, <1>2, <1>3, PTL DEF AllSpec

-----------------------------------------------------------------------------
(* fork_pty: no echo, and no answer but the child's, for any input *)

\* The parent has not yet written its settings.
Settling == parent \in {"banner", "get", "set"}

\* Once the parent has set them the terminal does not echo, and nothing is written to
\* it before.  The child reads no end of its input while its own settings are in
\* force: they are overwritten only by what the parent has read before.
EchoInv ==
  /\ F!TypeOK
  /\ Settling => toChild = <<>>
  /\ ~Settling => ~tty.echo
  /\ child \in {"banner", "prompt"} => eof
  /\ eof \/ (child \in {"fgets", "puts"} /\ ~tty.canon) => ~Settling /\ ~parentTs.canon
  /\ \A k \in 1..Len(toParent) : toParent[k] = "other" => eof
  /\ echoed = "other" => eof

LEMMA EchoOff == EchoInv => F!OwnEcho
<1> SUFFICES ASSUME EchoInv PROVE F!OwnEcho
  OBVIOUS
<1> USE DEF EchoInv
<1>1. F!TypeOK OBVIOUS
<1>2. toChild # <<>> => ~tty.echo OBVIOUS
<1>3. echoed = "other" => eof OBVIOUS
<1>4. eof => ~parentTs.canon OBVIOUS
<1> QED BY ONLY <1>1, <1>2, <1>3, <1>4 DEF F!OwnEcho

\* What is put behind the child's output, and what is taken from it.
LEMMA Behind ==
  ASSUME NEW word \in {"line", "other"}, F!TypeOK, toParent' = Append(toParent, word)
  PROVE  /\ toParent' \in Seq({"line", "other"}) /\ Len(toParent') = Len(toParent) + 1
         /\ \A k \in 1..Len(toParent) : toParent'[k] = toParent[k]
         /\ toParent'[Len(toParent) + 1] = word
BY DEF F!TypeOK

\* Reading makes the rest of the input no longer.
LEMMA RestOfInput ==
  ASSUME F!TypeOK, input # <<>>
  PROVE  /\ Tail(input) \in Seq(F!Lines) /\ Len(Tail(input)) <= MaxLines
         /\ <<"line">> \o Tail(input) \in Seq(F!Lines)
         /\ Len(<<"line">> \o Tail(input)) <= MaxLines
<1>1. /\ input \in Seq(F!Lines) /\ Len(input) \in Nat /\ Len(input) <= MaxLines
      /\ "line" \in F!Lines
  BY DEF F!TypeOK, F!Lines
<1>2. Tail(input) \in Seq(F!Lines) /\ Len(Tail(input)) = Len(input) - 1 BY <1>1
<1> HIDE DEF F!Lines
<1> DEFINE rest == Tail(input)
<1>3. rest \in Seq(F!Lines) /\ Len(rest) = Len(input) - 1 BY <1>2
<1> HIDE DEF rest
<1>4. <<"line">> \o rest \in Seq(F!Lines) /\ Len(<<"line">> \o rest) = Len(input)
  BY <1>1, <1>3
<1> QED BY <1>1, <1>3, <1>4, BoundsAssumption DEF rest

LEMMA EchoParent == EchoInv /\ F!Parent => EchoInv'
<1> SUFFICES ASSUME EchoInv, F!Parent PROVE EchoInv'
  OBVIOUS
<1> USE DEF EchoInv, F!TypeOK, F!Setting, F!childVars, F!wireVars, Settling
<1>1. CASE F!Handlers BY <1>1 DEF F!Handlers
<1>2. CASE F!GetSettings BY <1>2 DEF F!GetSettings
<1>3. CASE F!SetSettings
  <2>1. tty' \in F!Setting /\ ~tty'.echo /\ tty'.canon = parentTs.canon
    BY <1>3 DEF F!SetSettings
  <2>2. /\ parent = "set" /\ parent' = "prompt"
        /\ UNCHANGED <<input, parentTs, handlers, wrote, echoed, child, childTs, eof,
                       toChild, toParent>>
    BY <1>3 DEF F!SetSettings
  <2> QED BY <2>1, <2>2
<1>4. CASE F!Leave
  <2>1. /\ input' \in Seq(F!Lines) /\ Len(input') <= MaxLines
    <3>1. input' = input \/ (input # <<>> /\ input' = Tail(input)) BY <1>4 DEF F!Leave
    <3>2. CASE input' = input BY <3>2
    <3>3. CASE input # <<>> /\ input' = Tail(input) BY <3>3, RestOfInput
    <3> QED BY <3>1, <3>2, <3>3
  <2> QED BY <1>4, <2>1 DEF F!Leave
<1>5. CASE F!Send
  <2>1. parent = "prompt" /\ parent' = "read" /\ wrote' \in BOOLEAN /\ input # <<>>
    BY <1>5 DEF F!Send
  <2>2. input' \in Seq(F!Lines) /\ Len(input') <= MaxLines
    <3>1. input' \in {<<"line">> \o Tail(input), <<>>, Tail(input)} BY <1>5 DEF F!Send
    <3>2. <<>> \in Seq(F!Lines) /\ Len(<<>>) <= MaxLines BY BoundsAssumption
    <3> QED BY ONLY <2>1, <3>1, <3>2, RestOfInput, F!TypeOK
  <2>3. toChild' \in Seq(BOOLEAN) BY <1>5, <2>1 DEF F!Send
  <2> QED BY <1>5, <2>1, <2>2, <2>3 DEF F!Send
<1>6. CASE F!Receive
  <2>1. /\ toParent # <<>> /\ echoed' = toParent[1] /\ toParent' = Tail(toParent)
        /\ parent = "read" /\ parent' = "prompt"
        /\ UNCHANGED <<input, parentTs, handlers, wrote, child, childTs, eof, tty, toChild>>
    BY <1>6 DEF F!Receive
  <2>2. /\ toParent' \in Seq({"line", "other"}) /\ Len(toParent') = Len(toParent) - 1
        /\ \A k \in 1..Len(toParent') : toParent'[k] = toParent[k + 1]
        /\ Len(toParent) > 0 /\ toParent[1] \in {"line", "other"}
    BY <2>1
  <2> QED BY <2>1, <2>2
<1>7. CASE F!ReceiveFails BY <1>7 DEF F!ReceiveFails
<1> QED BY <1>1, <1>2, <1>3, <1>4, <1>5, <1>6, <1>7 DEF F!Parent

LEMMA EchoChild == EchoInv /\ F!Child => EchoInv'
<1> SUFFICES ASSUME EchoInv, F!Child PROVE EchoInv'
  OBVIOUS
<1> USE DEF EchoInv, F!TypeOK, F!Setting, F!parentVars, F!wireVars, Settling
<1>1. CASE F!GetChild BY <1>1 DEF F!GetChild
<1>2. CASE F!SetChild BY <1>2 DEF F!SetChild
<1>3. CASE F!Fgets
  <2>1. ASSUME NEW i \in DOMAIN toChild, toChild' = SubSeq(toChild, i + 1, Len(toChild)),
               child' = "puts", eof' = eof
        PROVE EchoInv'
    <3>1. toChild' \in Seq(BOOLEAN) BY <2>1
    <3>2. ~Settling BY DEF Settling
    <3> QED BY <1>3, <2>1, <3>1, <3>2 DEF F!Fgets
  <2>2. CASE ~tty.canon /\ child' = "banner" /\ eof' = TRUE /\ UNCHANGED toChild
    BY <1>3, <2>2 DEF F!Fgets
  <2> QED BY <1>3, <2>1, <2>2 DEF F!Fgets
<1>4. CASE F!Puts
  <2>1. toParent' = Append(toParent, "line") BY <1>4 DEF F!Puts
  <2> QED BY <1>4, <2>1, Behind DEF F!Puts
<1>5. CASE F!GoOn
  <2>1. toParent' = Append(toParent, "other") /\ eof /\ eof' = eof BY <1>5 DEF F!GoOn
  <2>2. parent' = parent \/ (parent \in {"prompt", "read"} /\ parent' = "gone")
    BY <1>5 DEF F!GoOn
  <2>3. child' \in {"prompt", "gone"}
        /\ UNCHANGED <<input, parentTs, handlers, wrote, echoed, childTs, tty, toChild>>
    BY <1>5 DEF F!GoOn
  <2> QED BY <2>1, <2>2, <2>3, Behind
<1>6. CASE F!HangUp BY <1>6 DEF F!HangUp
<1> QED BY <1>1, <1>2, <1>3, <1>4, <1>5, <1>6 DEF F!Child

\* The terminal echoes nothing, and what the parent reads is the child's answer unless
\* it has overwritten the child's settings by older ones: for any input and any
\* settings at the start, in whatever order both change them.
THEOREM AnswersAreTheChilds == AllSpec => []F!OwnEcho
<1>1. AllInit => EchoInv
  <2> SUFFICES ASSUME AllInit PROVE EchoInv
    OBVIOUS
  <2>1. F!FInit BY DEF AllInit
  <2>2. input \in Seq(F!Lines) /\ Len(input) <= MaxLines
    BY <2>1, BoundsAssumption DEF F!FInit
  <2>3. toChild = <<>> /\ toParent = <<>> /\ Len(toParent) = 0 BY <2>1 DEF F!FInit
  <2>4. F!TypeOK
    <3>1. toChild \in Seq(BOOLEAN) /\ toParent \in Seq({"line", "other"}) BY <2>3
    <3>2. tty \in F!Setting /\ parentTs \in F!Setting /\ childTs \in F!Setting
      BY <2>1 DEF F!FInit
    <3>3. /\ parent = "banner" /\ child = "start" /\ handlers = FALSE /\ wrote = FALSE
          /\ echoed = "none" /\ eof = FALSE
      BY <2>1 DEF F!FInit
    <3> QED BY <2>2, <3>1, <3>2, <3>3 DEF F!TypeOK
  <2> QED BY <2>1, <2>3, <2>4 DEF F!FInit, EchoInv, Settling
<1>2. EchoInv /\ [AllNext]_all => EchoInv'
  <2> SUFFICES ASSUME EchoInv, [AllNext]_all PROVE EchoInv'
    OBVIOUS
  <2>1. CASE UNCHANGED fvars
    BY <2>1 DEF fvars, EchoInv, F!TypeOK, Settling
  <2>2. F!FNext \/ UNCHANGED fvars
    BY DEF AllNext, P4Step, PthreadStep, TimerStep, PtyStep, NetlinkStep, PipeStep, all, ipc
  <2> QED BY <2>1, <2>2, EchoParent, EchoChild DEF F!FNext
<1> QED BY <1>1, <1>2, EchoOff, PTL DEF AllSpec

-----------------------------------------------------------------------------
(* netlink_ipc: one request, in one place, for any number of clients and    *)
(* starts of the server                                                      *)

Queued == {inbox[k] : k \in 1..Len(inbox)}

\* Whoever has a request somewhere has asked, and may be gone since; a client that
\* has not asked, or has its reply, has none.
RequestInv ==
  /\ N!TypeOK
  /\ \A c \in serving \cup Queued : caller[c] \in {"asked", "gone"}
  /\ \A c \in replied : caller[c] = "asked"
  /\ \A j, k \in 1..Len(inbox) : inbox[j] = inbox[k] => j = k
  /\ serving \cap Queued = {} /\ replied \cap (serving \cup Queued) = {}
  /\ failed => \E c \in Callers : caller[c] = "gone"

LEMMA RequestsInOnePlace == RequestInv => N!RequestsKept
<1> SUFFICES ASSUME RequestInv PROVE N!RequestsKept
  OBVIOUS
<1>1. inbox \in Seq(Callers) BY DEF RequestInv, N!TypeOK
<1>2. DOMAIN inbox = 1..Len(inbox) /\ N!ToSet(inbox) = Queued BY <1>1 DEF N!ToSet, Queued
<1> QED BY <1>2 DEF RequestInv, N!RequestsKept

LEMMA RequestStep == RequestInv /\ N!NNext => RequestInv'
<1> SUFFICES ASSUME RequestInv, N!NNext PROVE RequestInv'
  OBVIOUS
<1> USE DEF RequestInv, N!TypeOK
<1>1. inbox \in Seq(Callers) /\ Len(inbox) \in Nat /\ \A k \in 1..Len(inbox) : inbox[k] \in Callers
  OBVIOUS
<1>2. CASE N!StartServer BY <1>2, BoundsAssumption DEF N!StartServer, Queued
<1>3. CASE N!Receive
  <2>1. inbox # <<>> /\ serving' = {inbox[1]} /\ inbox' = Tail(inbox) BY <1>1, <1>3 DEF N!Receive
  <2>2. /\ inbox' \in Seq(Callers) /\ Len(inbox') = Len(inbox) - 1 /\ Len(inbox) > 0
        /\ \A k \in 1..Len(inbox') : inbox'[k] = inbox[k + 1]
    BY <1>1, <2>1
  <2>3. Queued' \subseteq Queued /\ inbox[1] \in Queued /\ inbox[1] \notin Queued'
    BY <2>2, <1>1 DEF Queued
  <2>4. \A j, k \in 1..Len(inbox') : inbox'[j] = inbox'[k] => j = k BY <2>2
  <2> QED BY <1>1, <1>3, <2>1, <2>2, <2>3, <2>4 DEF N!Receive
<1>4. CASE N!Reply
  <2>1. CASE \A c \in serving : N!Alive(c)
    <3>1. /\ replied' = replied \cup serving /\ server' = "wait" /\ serving' = {}
          /\ UNCHANGED <<inbox, failed, caller, servers>>
      BY <1>4, <2>1 DEF N!Reply
    <3>2. \A c \in serving : caller[c] = "asked" BY <2>1 DEF N!Alive
    <3> QED BY <3>1, <3>2 DEF Queued
  <2>2. CASE \E c \in serving : ~N!Alive(c)
    <3>1. /\ server' = "down" /\ serving' = {} /\ inbox' = <<>> /\ failed' = TRUE
          /\ UNCHANGED <<replied, caller, servers>>
      BY <1>4, <2>2 DEF N!Reply, N!ServerGone
    <3>2. \E c \in Callers : caller[c] = "gone" BY <2>2 DEF N!Alive
    <3> QED BY <3>1, <3>2 DEF Queued
  <2> QED BY <2>1, <2>2
<1>5. CASE N!StopServer BY <1>5 DEF N!StopServer, N!ServerGone, Queued
<1>6. ASSUME NEW c \in Callers, N!Ask(c) PROVE RequestInv'
  <2>1. CASE inbox' = Append(inbox, c) /\ caller' = [caller EXCEPT ![c] = "asked"]
    <3>1. /\ inbox' \in Seq(Callers) /\ Len(inbox') = Len(inbox) + 1 /\ inbox'[Len(inbox) + 1] = c
          /\ \A k \in 1..Len(inbox) : inbox'[k] = inbox[k]
      BY <1>1, <2>1
    <3>2. Queued' = Queued \cup {c} /\ c \notin Queued
      BY <1>1, <1>6, <3>1 DEF Queued, N!Ask
    <3>3. \A j, k \in 1..Len(inbox') : inbox'[j] = inbox'[k] => j = k
      BY <1>1, <3>1, <3>2 DEF Queued
    <3> QED BY <1>6, <2>1, <3>1, <3>2, <3>3 DEF N!Ask
  <2>2. CASE inbox' = inbox /\ caller' = [caller EXCEPT ![c] = "refused"]
    BY <1>6, <2>2 DEF N!Ask, Queued
  <2> QED BY <1>6, <2>1, <2>2 DEF N!Ask
<1>7. ASSUME NEW c \in Callers, N!TakeReply(c) PROVE RequestInv'
  BY <1>7 DEF N!TakeReply, Queued
<1>8. ASSUME NEW c \in Callers, N!StopClient(c) PROVE RequestInv'
  BY <1>8 DEF N!StopClient, N!Alive, Queued
<1> QED BY <1>2, <1>3, <1>4, <1>5, <1>6, <1>7, <1>8 DEF N!NNext, N!Server

\* The request of a client, or its reply, is in one place at any time, and a server
\* that ends by itself has met a client that was stopped: for any number of clients,
\* whoever is started or stopped when.
THEOREM RequestsStayApart == AllSpec => []N!RequestsKept
<1>1. AllInit => RequestInv
  <2> SUFFICES ASSUME AllInit PROVE RequestInv
    OBVIOUS
  <2>1. N!NInit BY DEF AllInit
  <2>2. /\ server = "down" /\ serving = {} /\ inbox = <<>> /\ replied = {} /\ failed = FALSE
        /\ servers = 0 /\ caller = [c \in Callers |-> "start"]
    BY <2>1 DEF N!NInit
  <2>3. N!TypeOK
    <3>1. servers \in 0..MaxServers BY <2>2, BoundsAssumption
    <3>2. inbox \in Seq(Callers) BY <2>2
    <3>3. caller \in [Callers -> {"start", "asked", "done", "refused", "gone"}] BY <2>2
    <3> QED BY <2>2, <3>1, <3>2, <3>3 DEF N!TypeOK
  <2> QED BY <2>2, <2>3 DEF RequestInv, Queued
<1>2. RequestInv /\ [AllNext]_all => RequestInv'
  <2> SUFFICES ASSUME RequestInv, [AllNext]_all PROVE RequestInv'
    OBVIOUS
  <2>1. CASE UNCHANGED nvars
    BY <2>1 DEF nvars, RequestInv, N!TypeOK, Queued
  <2>2. N!NNext \/ UNCHANGED nvars
    BY DEF AllNext, P4Step, PthreadStep, TimerStep, PtyStep, NetlinkStep, PipeStep, all, ipc
  <2> QED BY <2>1, <2>2, RequestStep
<1> QED BY <1>1, <1>2, RequestsInOnePlace, PTL DEF AllSpec

-----------------------------------------------------------------------------
(* pipe-ipc: no command lost or told twice, for any size of the pipe *)

\* The command before the one that xmit writes next.
Latest == IF commands = <<>> THEN printed ELSE commands[Len(commands)]

\* The commands in the pipe continue what was printed, and xmit continues them; until
\* it is started there are none.  Whatever ended the child left a status.
TurnInv ==
  /\ X!TypeOK
  /\ commands # <<>> => commands[1] # printed
  /\ \A i \in 1..(Len(commands) - 1) : commands[i] # commands[i + 1]
  /\ writer \in X!Command => writer # Latest
  /\ writer \in {"close", "exec"} => commands = <<>> /\ printed = "ui_print"
  /\ writer = "gone" => status # "none"
  /\ reader = "done" => reported = "error" /\ writer = "gone"

LEMMA TurnsInOneLine == TurnInv => X!CommandsInTurn
<1> SUFFICES ASSUME TurnInv PROVE X!CommandsInTurn
  OBVIOUS
<1> DEFINE line == <<printed>> \o commands
<1>1. /\ commands \in Seq(X!Command) /\ Len(commands) \in Nat /\ printed \in X!Command
      /\ \A i \in 1..Len(commands) : commands[i] \in X!Command
  BY DEF TurnInv, X!TypeOK
<1>2. /\ Len(line) = Len(commands) + 1 /\ line[1] = printed
      /\ \A i \in 1..Len(commands) : line[i + 1] = commands[i]
  BY <1>1
<1>3. commands = <<>> <=> Len(commands) = 0 BY <1>1
<1>4. \A i \in 1..Len(commands) : line[i] # line[i + 1]
  <2> SUFFICES ASSUME NEW i \in 1..Len(commands) PROVE line[i] # line[i + 1]
    OBVIOUS
  <2>1. CASE i = 1 BY <1>1, <1>2, <1>3, <2>1 DEF TurnInv
  <2>2. CASE i > 1
    <3>1. i - 1 \in 1..(Len(commands) - 1) BY <1>1, <2>2
    <3>2. line[(i - 1) + 1] = commands[i - 1] BY <3>1, <1>1, <1>2
    <3>3. (i - 1) + 1 = i OBVIOUS
    <3> QED BY <3>1, <3>2, <3>3, <1>2 DEF TurnInv
  <2> QED BY <2>1, <2>2
<1>5. line[Len(line)] = Latest
  <2>1. CASE commands = <<>> BY <1>1, <1>2, <1>3, <2>1 DEF Latest
  <2>2. CASE commands # <<>>
    <3>1. Len(commands) \in 1..Len(commands) BY <1>1, <1>3, <2>2
    <3> QED BY <3>1, <2>2, <1>2 DEF Latest
  <2> QED BY <2>1, <2>2
<1> HIDE DEF line
<1>6. X!TypeOK /\ (writer \in X!Command => Latest # writer) BY DEF TurnInv
<1>7. reader = "done" => reported = "error" /\ writer = "gone" BY DEF TurnInv
<1>8. \A i \in 1..(Len(line) - 1) : line[i] # line[i + 1] BY <1>1, <1>2, <1>4
<1> QED BY <1>5, <1>6, <1>7, <1>8 DEF X!CommandsInTurn, line

LEMMA TurnStep == TurnInv /\ X!XNext => TurnInv'
<1> SUFFICES ASSUME TurnInv, X!XNext PROVE TurnInv'
  OBVIOUS
<1> USE DEF TurnInv, X!TypeOK, X!Command, Latest
<1>1. commands \in Seq(X!Command) /\ Len(commands) \in Nat
  OBVIOUS
<1>2. CASE X!ClosePipe BY <1>2 DEF X!ClosePipe
<1>3. CASE X!PrintCommand
  <2>1. /\ commands # <<>> /\ printed' = commands[1] /\ commands' = Tail(commands)
        /\ UNCHANGED <<reader, writer, status, writeEnds, readEnds, reported>>
        /\ reader = "read"
    BY <1>1, <1>3 DEF X!PrintCommand
  <2>2. /\ commands' \in Seq(X!Command) /\ Len(commands') = Len(commands) - 1
        /\ \A i \in 1..Len(commands') : commands'[i] = commands[i + 1]
        /\ Len(commands) > 0 /\ commands[1] \in X!Command
    BY <1>1, <2>1
  <2>3. CASE Len(commands) = 1
    <3>1. commands' = <<>> BY <2>2, <2>3
    <3> QED BY <3>1, <2>1, <2>2, <2>3
  <2>4. CASE Len(commands) > 1
    <3>1. commands' # <<>> /\ commands'[1] = commands[2] BY <1>1, <2>2, <2>4
    <3>2. commands'[Len(commands')] = commands[Len(commands)] BY <1>1, <2>2, <2>4
    <3>3. commands'[1] # printed' BY <1>1, <2>1, <2>4, <3>1
    <3>4. \A i \in 1..(Len(commands') - 1) : commands'[i] # commands'[i + 1]
      BY <1>1, <2>2
    <3> QED BY <3>1, <3>2, <3>3, <3>4, <2>1, <2>2
  <2> QED BY <1>1, <2>2, <2>3, <2>4
<1>4. CASE X!EndOfPipe BY <1>4 DEF X!EndOfPipe
<1>5. CASE X!WaitPid BY <1>5 DEF X!WaitPid
<1>6. CASE X!KillReader BY <1>6 DEF X!KillReader
<1>7. CASE X!CloseChild BY <1>7 DEF X!CloseChild
<1>8. CASE X!Exec
  <2>1. CASE X!ChildGone("failed") BY <1>8, <2>1 DEF X!Exec, X!ChildGone
  <2>2. CASE writer' = "progress" /\ UNCHANGED <<status, writeEnds, readEnds>>
    BY <1>8, <2>2 DEF X!Exec
  <2> QED BY <1>8, <2>1, <2>2 DEF X!Exec
<1>9. CASE X!Report
  <2>1. CASE readEnds = {} /\ X!ChildGone("signal") /\ UNCHANGED commands
    BY <1>9, <2>1 DEF X!Report, X!ChildGone
  <2>2. CASE /\ commands' = Append(commands, writer)
             /\ writer' = IF writer = "progress" THEN "ui_print" ELSE "progress"
             /\ UNCHANGED <<status, writeEnds, readEnds>>
    <3>1. writer \in X!Command /\ UNCHANGED <<reader, printed, reported>>
      BY <1>9 DEF X!Report
    <3>2. /\ commands' \in Seq(X!Command) /\ Len(commands') = Len(commands) + 1
          /\ commands'[Len(commands) + 1] = writer /\ commands' # <<>>
          /\ \A i \in 1..Len(commands) : commands'[i] = commands[i]
      BY <1>1, <2>2, <3>1
    <3>3. commands'[1] # printed'
      <4>1. CASE commands = <<>> BY <1>1, <3>1, <3>2, <4>1
      <4>2. CASE commands # <<>> BY <1>1, <3>1, <3>2, <4>2
      <4> QED BY <4>1, <4>2
    <3>4. ASSUME NEW i \in 1..(Len(commands') - 1) PROVE commands'[i] # commands'[i + 1]
      <4>1. CASE i = Len(commands) BY <1>1, <3>1, <3>2, <4>1
      <4>2. CASE i < Len(commands) BY <1>1, <3>2, <4>2
      <4> QED BY <1>1, <3>2, <4>1, <4>2
    <3>5. Latest' = writer BY <3>2
    <3> QED BY <2>2, <3>1, <3>2, <3>3, <3>4, <3>5
  <2> QED BY <1>9, <2>1, <2>2 DEF X!Report
<1>10. CASE X!KillChild BY <1>10 DEF X!KillChild, X!ChildGone
<1> QED BY <1>2, <1>3, <1>4, <1>5, <1>6, <1>7, <1>8, <1>9, <1>10
        DEF X!XNext, X!Reader, X!Writer

\* pipe.c prints the commands of xmit by turns and none is lost; whatever ends its
\* child, it says so: for any size of the pipe, whoever is stopped when.
THEOREM CommandsStayInTurn == AllSpec => []X!CommandsInTurn
<1>1. AllInit => TurnInv
  <2> SUFFICES ASSUME AllInit PROVE TurnInv
    OBVIOUS
  <2>1. X!XInit BY DEF AllInit
  <2>2. X!TypeOK
    <3>1. commands \in Seq(X!Command) BY <2>1 DEF X!XInit
    <3> QED BY <2>1, <3>1 DEF X!XInit, X!TypeOK, X!Command
  <2> QED BY <2>1, <2>2 DEF X!XInit, TurnInv, Latest, X!Command
<1>2. TurnInv /\ [AllNext]_all => TurnInv'
  <2> SUFFICES ASSUME TurnInv, [AllNext]_all PROVE TurnInv'
    OBVIOUS
  <2>1. CASE UNCHANGED xvars
    BY <2>1 DEF xvars, TurnInv, X!TypeOK, Latest
  <2>2. X!XNext \/ UNCHANGED xvars
    BY DEF AllNext, P4Step, PthreadStep, TimerStep, PtyStep, NetlinkStep, PipeStep, all, ipc
  <2> QED BY <2>1, <2>2, TurnStep
<1> QED BY <1>1, <1>2, TurnsInOneLine, PTL DEF AllSpec
=============================================================================
