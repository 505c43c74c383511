---------------------------- MODULE PthreadDemo -----------------------------
(***************************************************************************)
(* pthread/p1.cpp, p2.cpp and p3.cpp: main creates some threads and joins  *)
(* them.  In p1 they add to two counters without a lock; in p2 each makes  *)
(* its thread-specific data and enters them into a vector that main clears *)
(* in the end; in p3 each looks itself up in a map that main is still      *)
(* filling, and two barriers keep the threads together.                    *)
(*                                                                         *)
(* The races of p2 and p3 on containers are undefined behaviour: what they *)
(* leave is one of the values that the steps of the two could give.        *)
(***************************************************************************)
EXTENDS Integers, FiniteSets, SequencesExt

CONSTANTS
  Racers,     (* the threads of p1: 5                                      *)
  Threads,    (* the threads of p2: 5, and of p3: NUM = 6                  *)
  LOOPS       (* how often a thread of p1 counts: 5                        *)

VARIABLES
  prog,       (* which of the programs runs                                *)
  boss,       (* where main is                                             *)
  made,       (* threads created, in this order                            *)
  joined,     (* threads joined                                            *)
  place,      (* where each thread is                                      *)
  v1, v2,     (* the counters of p1                                        *)
  tmp,        (* what each thread has read of a counter                    *)
  loop,       (* the loop counter of each thread                           *)
  once,       (* the pthread_once_t of p2                                  *)
  key,        (* how often the key has been created                        *)
  vec,        (* the vector gc: the owners of the data                     *)
  seen,       (* the vector as each thread's push_back found it            *)
  raced,      (* two push_back have run at once                            *)
  deleted,    (* whose data main has deleted                               *)
  known,      (* the map of p3                                             *)
  mutex,      (* who holds the mutex                                       *)
  number,     (* the number each thread of p3 has found                    *)
  waiting     (* who waits at each barrier                                 *)

p1Vars == <<v1, v2, tmp, loop>>
p2Vars == <<once, key, vec, seen, raced, deleted>>
p3Vars == <<known, mutex, number, waiting>>
mainVars == <<prog, boss, made, joined>>
pvars == <<mainVars, place, p1Vars, p2Vars, p3Vars>>

Everyone == Racers \cup Threads
Boss == "main"
Mine == IF prog = "p1" THEN Racers ELSE Threads

TypeOK ==
  /\ prog \in {"p1", "p2", "p3"} /\ made \in Seq(Everyone) /\ joined \subseteq Everyone
  /\ boss \in {"create", "insert", "start", "blocked", "join", "clear", "done"}
  /\ place \in [Everyone ->
       {"none", "get1", "put1", "get2", "put2", "getback", "putback", "once", "making",
        "data", "push", "pushing", "lock", "find", "unlock", "start", "blocked",
        "work", "stop", "stopped", "end"}]
  /\ v1 \in Int /\ v2 \in Nat /\ tmp \in [Everyone -> Int] /\ loop \in [Everyone -> 0..LOOPS]
  /\ once \in {"no", "running", "done"} /\ key \in Nat /\ raced \in BOOLEAN
  /\ vec \in Seq(Threads) /\ seen \in [Threads -> Seq(Threads)] /\ deleted \subseteq Threads
  /\ known \subseteq Threads /\ mutex \subseteq Threads
  /\ number \in [Threads -> 0..Cardinality(Threads)]
  /\ waiting \in [{"start", "stop"} -> SUBSET (Threads \cup {Boss})]

PInit ==
  /\ prog \in {"p1", "p2", "p3"} /\ boss = "create" /\ made = <<>> /\ joined = {}
  /\ place = [t \in Everyone |-> "none"]
  /\ v1 = 0 /\ v2 = 0 /\ tmp = [t \in Everyone |-> 0] /\ loop = tmp
  /\ once = "no" /\ key = 0 /\ vec = <<>> /\ seen = [t \in Threads |-> <<>>]
  /\ raced = FALSE /\ deleted = {} /\ known = {} /\ mutex = {}
  /\ number = [t \in Threads |-> 0]
  /\ waiting = [b \in {"start", "stop"} |-> {}]

-----------------------------------------------------------------------------
(* main *)

First == [p1 |-> "get1", p2 |-> "once", p3 |-> "lock"]

\* The thread may run before main has noted it.
Create ==
  /\ boss = "create"
  /\ \E t \in Mine \ ToSet(made) :
       made' = Append(made, t) /\ place' = [place EXCEPT ![t] = First[prog]]
  /\ boss' = IF prog = "p3" THEN "insert"
             ELSE IF Mine = ToSet(made') THEN "join" ELSE "create"
  /\ UNCHANGED <<prog, joined, p1Vars, p2Vars, p3Vars>>

\* The entry into the map, which main writes without the mutex.
Insert ==
  /\ boss = "insert"
  /\ known' = known \cup {Last(made)}
  /\ boss' = IF Mine = ToSet(made) THEN "start" ELSE "create"
  /\ UNCHANGED <<prog, made, joined, place, p1Vars, p2Vars, mutex, number, waiting>>

\* Variant: the first barrier is no larger than the other.
SmallBarrier(b) == Cardinality(Threads)

\* Main waits at the first barrier too.
BarrierSize(b) == IF b = "start" THEN Cardinality(Threads) + 1 ELSE Cardinality(Threads)

\* pthread_barrier_wait(): the last one to come lets all go.
Arrive(who, b) ==
  waiting' = [waiting EXCEPT ![b] = IF Cardinality(@) + 1 = BarrierSize(b) THEN {} ELSE @ \cup {who}]

StartAll ==
  /\ boss = "start" /\ boss' = "blocked"
  /\ Arrive(Boss, "start")
  /\ UNCHANGED <<prog, made, joined, place, p1Vars, p2Vars, known, mutex, number>>

Released ==
  /\ boss = "blocked" /\ Boss \notin waiting["start"] /\ boss' = "join"
  /\ UNCHANGED <<prog, made, joined, place, p1Vars, p2Vars, p3Vars>>

\* Variant: the thread is not waited for.
JoinAny ==
  /\ boss = "join" /\ \E t \in Mine \ joined : joined' = joined \cup {t}
  /\ boss' = IF joined' # Mine THEN "join" ELSE IF prog = "p2" THEN "clear" ELSE "done"
  /\ UNCHANGED <<prog, made, place, p1Vars, p2Vars, p3Vars>>

\* In the order of the vector, and in that of the thread ids in p3.
Join ==
  /\ boss = "join"
  /\ \E t \in Mine \ joined :
       /\ place[t] = "end"
       /\ prog # "p3" => joined = ToSet(SubSeq(made, 1, Cardinality(joined)))
                         /\ t = made[Cardinality(joined) + 1]
       /\ joined' = joined \cup {t}
  /\ boss' = IF joined' # Mine THEN "join" ELSE IF prog = "p2" THEN "clear" ELSE "done"
  /\ UNCHANGED <<prog, made, place, p1Vars, p2Vars, p3Vars>>

\* delete of everything in gc.
Clear ==
  /\ boss = "clear" /\ boss' = "done"
  /\ deleted' = ToSet(vec)
  /\ UNCHANGED <<prog, made, joined, place, p1Vars, once, key, vec, seen, raced, p3Vars>>

-----------------------------------------------------------------------------
(* The threads *)

Go(t, from, to) == place[t] = from /\ place' = [place EXCEPT ![t] = to]

\* Reading and writing a counter are two steps.
Get(t, from, v, to) ==
  /\ Go(t, from, to)
  /\ tmp' = [tmp EXCEPT ![t] = v]
  /\ UNCHANGED <<mainVars, v1, v2, loop, p2Vars, p3Vars>>

Count(t) ==
  \/ Get(t, "get1", v1, "put1") \/ Get(t, "get2", v2, "put2") \/ Get(t, "getback", v1, "putback")
  \/ /\ Go(t, "put1", "get2") /\ v1' = tmp[t] + 2
     /\ UNCHANGED <<mainVars, v2, tmp, loop, p2Vars, p3Vars>>
  \/ /\ Go(t, "put2", "getback") /\ v2' = tmp[t] + 1
     /\ UNCHANGED <<mainVars, v1, tmp, loop, p2Vars, p3Vars>>
  \/ /\ Go(t, "putback", IF loop[t] + 1 < LOOPS THEN "get1" ELSE "end")
     /\ v1' = tmp[t] - 2 /\ loop' = [loop EXCEPT ![t] = @ + 1]
     /\ UNCHANGED <<mainVars, v2, tmp, p2Vars, p3Vars>>

\* pthread_once(): one thread runs create_key, the others wait for its end.
Once(t) ==
  \/ /\ once # "running" /\ Go(t, "once", IF once = "no" THEN "making" ELSE "data")
     /\ once' = IF once = "no" THEN "running" ELSE once
     /\ UNCHANGED <<mainVars, p1Vars, key, vec, seen, raced, deleted, p3Vars>>
  \/ /\ Go(t, "making", "data") /\ once' = "done" /\ key' = key + 1
     /\ UNCHANGED <<mainVars, p1Vars, vec, seen, raced, deleted, p3Vars>>

\* A new thread has no data under the key: they are made and entered into gc,
\* where of two entries made at once one may be lost.
Data(t) ==
  \/ /\ Go(t, "data", "push")
     /\ UNCHANGED <<mainVars, p1Vars, p2Vars, p3Vars>>
  \/ /\ Go(t, "push", "pushing")
     /\ seen' = [seen EXCEPT ![t] = vec]
     /\ raced' = (raced \/ \E u \in Threads : place[u] = "pushing")
     /\ UNCHANGED <<mainVars, p1Vars, once, key, vec, deleted, p3Vars>>
  \/ /\ Go(t, "pushing", "end")
     /\ vec' \in {Append(vec, t), Append(seen[t], t)}
     /\ seen' = [seen EXCEPT ![t] = <<>>]
     /\ UNCHANGED <<mainVars, p1Vars, once, key, raced, deleted, p3Vars>>

Number(t) == CHOOSE i \in 1..Len(made) : made[i] = t

\* The mutex keeps the threads apart, not main: an entry that main is making
\* may be found or not.  Numbers start at 0, which also stands for none.
Lookup(t) ==
  \/ /\ mutex = {} /\ Go(t, "lock", "find") /\ mutex' = {t}
     /\ UNCHANGED <<mainVars, p1Vars, p2Vars, known, number, waiting>>
  \/ /\ Go(t, "find", "unlock")
     /\ \E map \in {known} \cup (IF boss = "insert" THEN {known \cup {Last(made)}} ELSE {}) :
          number' = [number EXCEPT ![t] = IF t \in map THEN Number(t) - 1 ELSE 0]
     /\ UNCHANGED <<mainVars, p1Vars, p2Vars, known, mutex, waiting>>
  \/ /\ Go(t, "unlock", "start") /\ mutex' = {}
     /\ UNCHANGED <<mainVars, p1Vars, p2Vars, known, number, waiting>>

Meet(t) ==
  \/ /\ Go(t, "start", "blocked") /\ Arrive(t, "start")
     /\ UNCHANGED <<mainVars, p1Vars, p2Vars, known, mutex, number>>
  \/ /\ t \notin waiting["start"] /\ Go(t, "blocked", "work")
     /\ UNCHANGED <<mainVars, p1Vars, p2Vars, p3Vars>>
  \/ /\ Go(t, "work", "stop")
     /\ UNCHANGED <<mainVars, p1Vars, p2Vars, p3Vars>>
  \/ /\ Go(t, "stop", "stopped") /\ Arrive(t, "stop")
     /\ UNCHANGED <<mainVars, p1Vars, p2Vars, known, mutex, number>>
  \/ /\ t \notin waiting["stop"] /\ Go(t, "stopped", "end")
     /\ UNCHANGED <<mainVars, p1Vars, p2Vars, p3Vars>>

MainStep == Create \/ Insert \/ StartAll \/ Released \/ Join \/ Clear
Thread(t) ==
  \/ Count(t)
  \/ t \in Threads /\ (Once(t) \/ Data(t) \/ Lookup(t) \/ Meet(t))

PNext == MainStep \/ \E t \in Everyone : Thread(t)

PFairness == WF_pvars(MainStep) /\ \A t \in Everyone : WF_pvars(Thread(t))

PSpec == PInit /\ [][PNext]_pvars /\ PFairness

-----------------------------------------------------------------------------
(* Properties *)

\* p1: what main prints is what all the threads have left.  However many
\* updates are lost, V2 has at least 2 (each thread's last turn begins with what
\* another or it itself has counted) and at most one for each turn, and V1 is
\* off by an even number.
CountersBounded ==
  prog = "p1" /\ boss = "done" =>
    /\ v2 \in 2..(LOOPS * Cardinality(Racers))
    /\ v1 % 2 = 0

\* p2: the key is created once and before its first use, and main deletes no
\* data that are in use; unless two threads entered theirs at once, it deletes
\* all there are.
DataDeleted ==
  /\ \A t \in Threads : place[t] \in {"data", "push", "pushing"} => key = 1
  /\ deleted # {} => \A t \in Threads : place[t] = "end"
  /\ prog = "p2" /\ boss = "done" /\ ~raced => deleted = Threads

\* What p1 and p2 may make of data that all threads use without a lock.
RacesBounded == CountersBounded /\ DataDeleted

\* p3: no thread works before all of them have looked for their number and main
\* has entered all of them into the map; none ends before all have worked.
\* Whenever it looked, a thread found its own number or none.  Always the types
\* are right.
Together ==
  /\ TypeOK
  /\ \A t \in Threads :
       /\ place[t] \in {"work", "stop", "stopped", "end"} /\ prog = "p3" =>
            known = Threads /\ \A u \in Threads :
              place[u] \in {"blocked", "work", "stop", "stopped", "end"}
       /\ place[t] = "end" /\ prog = "p3" =>
            \A u \in Threads : place[u] \in {"stopped", "end"}
       /\ number[t] # 0 => number[t] = Number(t) - 1

\* The barriers of p3 keep its threads together and hold nobody for ever: main
\* has joined all threads in the end, as in p1 and p2.
BarriersHold == []Together /\ <>(boss = "done" /\ joined = Mine)
=============================================================================
