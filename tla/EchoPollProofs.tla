--------------------------- MODULE EchoPollProofs ---------------------------
(***************************************************************************)
(* EchoPoll: for every number of clients, of lines and of pollfd entries   *)
(* s_poll.c begins to read only where poll() found something, loses no     *)
(* descriptor (SlotsReady), and is an EchoService.                         *)
(***************************************************************************)
EXTENDS EchoPoll, EchoNetProofs

-----------------------------------------------------------------------------
(* The inductive invariant *)

Reading == pc \in {"read_first", "read", "write"}

\* The client whose line is read and not echoed yet.
Busy == {c \in Clients : pc = "write" /\ c = Conn(i)}

SlotsInv == Running => OneSlotEach(Slots, slot, fdc)

\* The slots from k on that the scan would stop at.
DueFrom(k) == {j \in Used \cap revents : j >= k}
ReadyFrom(k) == {j \in DueFrom(k) : Readable(Conn(j))}

\* From slot k on there are n readable ones to find, and one with stale
\* revents, if there is any, is behind them all: the countdown ends before it.
Waiting(k, n) ==
  /\ Cardinality(ReadyFrom(k)) >= n
  /\ \A j \in DueFrom(k) : Readable(Conn(j)) \/ \A m \in Used : m <= j

RoundInv ==
  /\ pc = "accept" =>
       /\ i = 1 /\ count >= 1 /\ backlog # <<>> /\ Waiting(1, count - 1)
       /\ \A j \in Used \cap revents : Readable(Conn(j))
       /\ \A j \in revents \ Used, k \in Used : k < j
  /\ pc = "scan" => count >= 1 /\ Waiting(i, count)
  /\ Reading => i \in Used /\ count >= 1 /\ Waiting(i + 1, count - 1)
  /\ pc = "read_first" => Readable(Conn(i))

IInv == TypeOK /\ PlacesInv /\ LinesInv(Busy) /\ SlotsInv /\ RoundInv

-----------------------------------------------------------------------------
(* Lemmas about the slots *)

LEMMA SlotsFinite ==
  /\ IsFiniteSet(Slots) /\ Cardinality(Slots) = MAXCLIENTS - 1
  /\ Used = UsedSlots(Slots, slot)
BY FS_Interval, NetAssumption DEF Slots, Used, UsedSlots

LEMMA UsedFinite ==
  /\ Used \in SUBSET Slots /\ IsFiniteSet(Used) /\ Cardinality(Used) \in Nat
  /\ \A S \in SUBSET Used : /\ IsFiniteSet(S) /\ Cardinality(S) \in Nat
                            /\ Cardinality(S) <= MAXCLIENTS - 1
                            /\ \A T \in SUBSET S : Cardinality(T) <= Cardinality(S)
<1>1. Used \in SUBSET Slots BY DEF Used
<1>2. \A S \in SUBSET Slots : IsFiniteSet(S) /\ Cardinality(S) \in Nat
                              /\ Cardinality(S) <= MAXCLIENTS - 1
  BY SlotsFinite, FS_Subset, FS_CardinalityType
<1>3. \A S \in SUBSET Slots : \A T \in SUBSET S : Cardinality(T) <= Cardinality(S)
  BY <1>2, FS_Subset
<1> QED BY <1>1, <1>2, <1>3

\* A slot in use stands for one client, which the server holds.
LEMMA ConnIs ==
  ASSUME TypeOK, PlacesInv, SlotsInv, Running
  PROVE  /\ \A j \in Used : /\ slot[j] \in Fds /\ Conn(j) \in Clients
                            /\ Conn(j) \in Held
         /\ \A j, k \in Used : Conn(j) = Conn(k) => j = k
         /\ Cardinality(Held) = Cardinality(Used)
         /\ Free = {} <=> Cardinality(Held) = MAXCLIENTS - 1
         /\ Cardinality(Held) <= MAXCLIENTS - 1
         /\ \E fd \in Fds : fdc[fd] = None
<1>1. OneSlotEach(Slots, slot, fdc) BY DEF SlotsInv
<1>2. slot \in [Slots -> Fds \cup {NoFd}] /\ fdc \in [Fds -> Clients \cup {None}]
  BY DEF TypeOK, NetTypeOK
<1>3. \A j \in Used : slot[j] \in Fds /\ fdc[slot[j]] # None
  BY <1>1, SlotsFinite DEF OneSlotEach
<1>4. \A j \in Used : Conn(j) \in Clients /\ Conn(j) \in Held
  BY <1>2, <1>3 DEF Conn, Held
<1>5. \A j, k \in Used : Conn(j) = Conn(k) => j = k
  BY <1>1, <1>3, SlotsFinite DEF OneSlotEach, Conn, PlacesInv
<1>6. MAXCLIENTS \in Nat /\ MAXCLIENTS - 1 <= MAXCLIENTS BY NetAssumption
<1>7. /\ \E fd \in Fds : fdc[fd] = None
      /\ Cardinality(Used) <= MAXCLIENTS - 1
      /\ Used # Slots => Cardinality(Used) < MAXCLIENTS - 1
      /\ Cardinality(Held) = Cardinality(Used)
  <2>1. \A g, h \in Fds : fdc[g] = fdc[h] /\ fdc[g] # None => g = h
    BY DEF PlacesInv
  <2>2. IsFiniteSet(Slots) /\ Cardinality(Slots) <= MAXCLIENTS
    BY <1>6, SlotsFinite
  <2> QED BY ONLY <1>1, <1>2, <2>1, <2>2, SlotsFinite, SlotsCount DEF Held
<1>8. Free = {} <=> Used = Slots BY UsedFinite DEF Free
<1>9. Free = {} <=> Cardinality(Held) = MAXCLIENTS - 1
  BY <1>6, <1>7, <1>8, SlotsFinite, UsedFinite
<1> QED BY <1>3, <1>4, <1>5, <1>7, <1>9

\* What is to be found stays to be found while readable clients stay readable.
LEMMA WaitingStays ==
  ASSUME NEW k, NEW n \in Int, Waiting(k, n), Used' \subseteq Used,
         DueFrom(k)' = DueFrom(k),
         \A j \in DueFrom(k) : Readable(Conn(j)) => Readable(Conn(j))'
  PROVE  Waiting(k, n)'
<1>1. ReadyFrom(k) \subseteq ReadyFrom(k)' BY DEF ReadyFrom
<1>2. ReadyFrom(k)' \in SUBSET Used BY DEF ReadyFrom, DueFrom
<1>3. /\ Cardinality(ReadyFrom(k)) <= Cardinality(ReadyFrom(k)')
      /\ Cardinality(ReadyFrom(k)) \in Nat /\ Cardinality(ReadyFrom(k)') \in Nat
  BY <1>1, <1>2, UsedFinite
<1>4. Cardinality(ReadyFrom(k)') >= n BY <1>3 DEF Waiting
<1>5. \A j \in DueFrom(k)' : Readable(Conn(j))' \/ \A m \in Used' : m <= j
  BY DEF Waiting
<1> QED BY <1>4, <1>5 DEF Waiting

-----------------------------------------------------------------------------
(* Each step keeps the invariant *)

LEMMA InitInv == Init => IInv
<1> SUFFICES ASSUME Init PROVE IInv OBVIOUS
<1>1. NetTypeOK /\ PlacesInv /\ LinesInv({}) BY NetInit_Inv DEF Init
<1>2. TypeOK BY <1>1, NetAssumption DEF Init, TypeOK
<1>3. Busy = {} BY DEF Init, Busy
<1>4. SlotsInv
  <2>1. UsedSlots(Slots, slot) = {} BY DEF Init, UsedSlots
  <2>2. \A fd \in Fds : fdc[fd] = None BY DEF Init, NetInit
  <2> QED BY <2>1, <2>2 DEF SlotsInv, OneSlotEach
<1>5. RoundInv BY DEF Init, RoundInv, Reading
<1> QED BY <1>1, <1>2, <1>3, <1>4, <1>5 DEF IInv

LEMMA PollStep == IInv /\ Poll => IInv'
<1> SUFFICES ASSUME IInv, Poll PROVE IInv' OBVIOUS
<1> USE DEF IInv, Poll
<1> DEFINE ready == {j \in Used : j <= LastUsed /\ Readable(Conn(j))}
           pending == IF backlog # <<>> THEN 1 ELSE 0
<1>1. UNCHANGED <<slot, netVars, Used>> BY DEF Used
<1>2. pc = "poll" /\ Running /\ Running' BY DEF Running
<1>3. /\ NetTypeOK' /\ PlacesInv' /\ LinesInv({})'
      /\ \A c \in Clients : Readable(c)' = Readable(c)
  <2>1. Busy = {} BY DEF Busy
  <2> QED BY <1>1, <2>1, NetStays DEF TypeOK
<1>4. SlotsInv' BY <1>1, <1>2 DEF SlotsInv, netVars
<1>5. LastUsed \in Nat /\ \A j \in Used : j <= LastUsed
  <2>1. {0} \cup Used \in SUBSET Nat /\ \A j \in {0} \cup Used : j <= MAXCLIENTS
    BY NetAssumption DEF Used, Slots
  <2> QED BY <2>1, GreatestNatural, NetAssumption DEF LastUsed
<1>6. /\ ready \in SUBSET Used /\ Cardinality(ready) \in Nat
      /\ Cardinality(ready) <= MAXCLIENTS - 1
  BY UsedFinite
<1>7. /\ count' = Cardinality(ready) + pending /\ pending \in {0, 1}
      /\ Cardinality(ready) + pending > 0
      /\ revents' = ready \cup {j \in revents : j > LastUsed}
      /\ i' = 1 /\ pc' = IF pending = 1 THEN "accept" ELSE "scan"
      /\ pending = 1 => backlog' # <<>>
  BY DEF netVars
<1>8. \A j \in Used : Conn(j)' = Conn(j) /\ Readable(Conn(j))' = Readable(Conn(j))
  BY <1>1, <1>2, <1>3, ConnIs DEF Conn, netVars
<1>9. Used \cap revents' = ready /\ \A j \in Used : j >= 1
  <2>1. \A j \in Used : ~(j > LastUsed) BY <1>5 DEF Used, Slots
  <2> QED BY <1>7, <2>1 DEF Used, Slots
<1>10. DueFrom(1)' = ready /\ ReadyFrom(1)' = ready
  <2> HIDE DEF Poll
  <2>1. DueFrom(1)' = ready BY <1>1, <1>9 DEF DueFrom
  <2> QED BY <1>8, <2>1 DEF ReadyFrom
<1> HIDE DEF ready, pending, Poll
<1>11. TypeOK' BY <1>1, <1>3, <1>6, <1>7, NetAssumption DEF TypeOK, ready, Used
<1>12. \A n \in Int : Cardinality(ready) >= n => Waiting(1, n)'
  BY <1>8, <1>10 DEF Waiting, ready
<1>13. RoundInv'
  <2>1. CASE pending = 1
    <3>1. Waiting(1, count - 1)' BY <1>6, <1>7, <1>12, <2>1
    <3>2. \A j \in revents' \ Used, k \in Used : k < j
      <4>1. \A j \in revents' \ Used : j > LastUsed BY <1>6, <1>7
      <4>2. revents' \subseteq Nat /\ Used \subseteq Nat
        BY <1>11 DEF TypeOK, Slots, Used
      <4> QED BY <1>5, <4>1, <4>2
    <3> QED BY <1>1, <1>6, <1>7, <1>8, <1>9, <2>1, <3>1, <3>2
            DEF RoundInv, Reading, ready
  <2>2. CASE pending # 1
    <3>1. Waiting(1, count)' BY <1>6, <1>7, <1>12, <2>2
    <3> QED BY <1>6, <1>7, <2>2, <3>1 DEF RoundInv, Reading
  <2> QED BY <2>1, <2>2
<1>14. Busy' = {} BY <1>7 DEF Busy
<1> QED BY <1>3, <1>4, <1>11, <1>13, <1>14

\* The kernel has a free descriptor whenever a slot is free.
LEMMA FreeIs ==
  ASSUME TypeOK, PlacesInv, SlotsInv, Running
  PROVE  /\ FreeFd \in Fds /\ fdc[FreeFd] = None
         /\ Free # {} => Min(Free) \in Slots \ Used
<1>1. {fd \in Fds : fdc[fd] = None} \in SUBSET Nat
      /\ {fd \in Fds : fdc[fd] = None} # {}
  BY ConnIs DEF Fds
<1>2. FreeFd \in {fd \in Fds : fdc[fd] = None} BY <1>1, LeastNatural DEF FreeFd
<1>3. Free \in SUBSET Nat BY DEF Free, Slots
<1>4. Free # {} => Min(Free) \in Free BY <1>3, LeastNatural
<1> QED BY <1>2, <1>4 DEF Free

LEMMA AcceptStep == IInv /\ Accept => IInv'
<1> SUFFICES ASSUME IInv, Accept PROVE IInv' OBVIOUS
<1> USE DEF IInv
<1>1. /\ pc = "accept" /\ Running /\ i = 1 /\ count >= 1 /\ backlog # <<>>
      /\ Waiting(1, count - 1)
      /\ \A j \in Used \cap revents : Readable(Conn(j))
      /\ \A j \in revents \ Used, k \in Used : k < j
      /\ count \in 0..MAXCLIENTS
  BY DEF Accept, RoundInv, Running, TypeOK
<1>2. /\ backlog' = Tail(backlog) /\ UNCHANGED <<clientVars, inq, out, reset, revents, i>>
      /\ count' = count - 1 /\ pc' = IF count = 1 THEN "poll" ELSE "scan"
  BY DEF Accept, CountDown
<1>3. Running' /\ pc' # "write" BY <1>2 DEF Running
<1>4. LinesInv(Busy)'
  <2>1. Busy = {} /\ Busy' = {} BY <1>1, <1>3 DEF Busy
  <2> QED BY <1>2, <2>1, LinesStay DEF clientVars
<1>5. count' \in 0..MAXCLIENTS BY <1>1, <1>2, NetAssumption
<1>6. \A c \in Clients : Readable(c)' = Readable(c)
  BY <1>2 DEF Readable, clientVars
<1>7. \A j \in Used : j \in Nat /\ j >= 1 BY DEF Used, Slots
<1>8. ASSUME Waiting(1, count)' PROVE RoundInv'
  <2>1. pc' = "scan" => Waiting(i, count)' BY <1>1, <1>2, <1>8
  <2> QED BY <1>1, <1>2, <2>1 DEF RoundInv, Reading
<1>9. CASE Free = {}
  <2>1. over' = over \cup {Head(backlog)} /\ UNCHANGED <<fdc, slot>>
    BY <1>9 DEF Accept
  <2>2. NetTypeOK' /\ PlacesInv' BY <1>1, <1>2, <2>1, RefuseInv DEF TypeOK
  <2>3. TypeOK' BY <1>2, <1>5, <2>1, <2>2 DEF TypeOK
  <2>4. SlotsInv' BY <1>1, <2>1 DEF SlotsInv
  <2>5. UNCHANGED Used /\ \A j \in Used : Conn(j)' = Conn(j)
    BY <2>1 DEF Used, Conn
  <2>6. DueFrom(1)' = DueFrom(1) BY <1>2, <2>5 DEF DueFrom
  <2>7. \A j \in DueFrom(1) : Readable(Conn(j)) => Readable(Conn(j))'
    <3>1. \A j \in DueFrom(1) : Conn(j) \in Clients BY <1>1, ConnIs DEF DueFrom
    <3> QED BY <1>6, <2>5, <3>1 DEF DueFrom
  <2>8. Waiting(1, count)'
    <3>1. PICK n \in Int : n = count - 1 BY <1>1
    <3>2. Waiting(1, n)' BY <1>1, <2>5, <2>6, <2>7, <3>1, WaitingStays
    <3> QED BY <1>2, <3>1, <3>2
  <2> QED BY <1>4, <1>8, <2>2, <2>3, <2>4, <2>8
<1>10. CASE Free # {}
  <2> DEFINE c == Head(backlog)
             new == Min(Free)
  <2>1. /\ fdc' = [fdc EXCEPT ![FreeFd] = c]
        /\ slot' = [slot EXCEPT ![new] = FreeFd] /\ UNCHANGED over
    BY <1>10 DEF Accept
  <2>2. FreeFd \in Fds /\ fdc[FreeFd] = None /\ new \in Slots \ Used
    BY <1>1, <1>10, FreeIs
  <2>3. NetTypeOK' /\ PlacesInv' /\ c \in Clients
    BY <1>1, <1>2, <2>1, <2>2, AcceptInv DEF TypeOK
  <2> HIDE DEF c, new
  <2>4. TypeOK' BY <1>2, <1>5, <2>1, <2>2, <2>3 DEF TypeOK
  <2>5. slot \in [Slots -> Fds \cup {NoFd}] /\ fdc \in [Fds -> Clients \cup {None}]
    BY DEF TypeOK, NetTypeOK
  <2>6. OneSlotEach(Slots, slot', fdc') /\ Used' = Used \cup {new}
    <3>1. OneSlotEach(Slots, slot, fdc) /\ Used = UsedSlots(Slots, slot)
      BY <1>1, SlotsFinite DEF SlotsInv
    <3>2. Used' = UsedSlots(Slots, slot') BY DEF Used, UsedSlots
    <3>3. new \in Slots \ UsedSlots(Slots, slot) BY <2>2, <3>1
    <3>4. OneSlotEach(Slots, slot', fdc')
          /\ UsedSlots(Slots, slot') = UsedSlots(Slots, slot) \cup {new}
      <4>1. TakesSlot(Slots, slot, fdc, new, slot', fdc')
        BY <2>1, <2>2, <2>3, <3>3 DEF TakesSlot
      <4> QED BY ONLY <2>5, <3>1, <4>1, SlotTaken
    <3> QED BY <3>1, <3>2, <3>4
  <2>7. SlotsInv' BY <2>6 DEF SlotsInv
  <2>8. \A j \in Used : Conn(j)' = Conn(j) /\ Conn(j) \in Clients
    <3>1. \A j \in Used : slot[j] \in Fds /\ fdc[slot[j]] # None /\ Conn(j) \in Clients
      BY <1>1, <2>5, ConnIs, SlotsFinite DEF SlotsInv, OneSlotEach
    <3> QED BY <2>1, <2>2, <2>5, <3>1 DEF Conn, Used
  <2>9. \A j \in DueFrom(1) : j \in DueFrom(1)' /\ Readable(Conn(j))'
    <3>1. \A j \in DueFrom(1) : Readable(Conn(j)) BY <1>1 DEF DueFrom
    <3> QED BY <1>2, <1>6, <2>6, <2>8, <3>1 DEF DueFrom
  <2>10. \A j \in DueFrom(1)' : j \in DueFrom(1) \/ (j = new /\ new \in revents \ Used)
    BY <1>2, <2>2, <2>6 DEF DueFrom
  <2>11. Waiting(1, count)'
    <3>1. ReadyFrom(1) \subseteq ReadyFrom(1)' BY <2>9 DEF ReadyFrom
    <3>2. ReadyFrom(1)' \in SUBSET Used' BY DEF ReadyFrom, DueFrom
    <3>3. IsFiniteSet(Used')
      <4>1. IsFiniteSet(Used) BY UsedFinite
      <4> QED BY <2>6, <4>1, FS_AddElement
    <3>4. /\ Cardinality(ReadyFrom(1)) <= Cardinality(ReadyFrom(1)')
          /\ Cardinality(ReadyFrom(1)) \in Nat /\ Cardinality(ReadyFrom(1)') \in Nat
      <4>1. IsFiniteSet(ReadyFrom(1)') BY <3>2, <3>3, FS_Subset
      <4> QED BY <3>1, <4>1, FS_Subset, FS_CardinalityType
    <3>5. Cardinality(ReadyFrom(1)') >= count' BY <1>1, <1>2, <3>4 DEF Waiting
    <3>6. new \in revents \ Used => \A m \in Used' : m <= new
      BY <1>1, <2>2, <2>6 DEF Used, Slots
    <3>7. \A j \in DueFrom(1)' : Readable(Conn(j))' \/ \A m \in Used' : m <= j
      BY <2>9, <2>10, <3>6
    <3> QED BY <3>5, <3>7 DEF Waiting
  <2> QED BY <1>4, <1>8, <2>3, <2>4, <2>7, <2>11
<1> QED BY <1>9, <1>10

\* The end of the process, whatever it was at.
LEMMA EndStep ==
  ASSUME IInv, NEW how \in {"exit0", "exit1", "sigpipe"}, End(how)
  PROVE  IInv'
<1> USE DEF IInv
<1>1. ProcessEnds /\ pc' = how /\ UNCHANGED <<slot, revents, count, i>> BY DEF End
<1>2. NetTypeOK' /\ PlacesInv' BY <1>1, EndInv DEF TypeOK
<1>3. TypeOK' BY <1>1, <1>2 DEF TypeOK
<1>4. LinesInv(Busy)'
  <2>1. LinesInv({}) BY DEF LinesInv
  <2>2. Busy' = {} BY <1>1 DEF Busy
  <2> QED BY <1>1, <2>1, <2>2, LinesStay DEF ProcessEnds, clientVars
<1>5. SlotsInv' BY <1>1 DEF SlotsInv, Running
<1>6. RoundInv' BY <1>1 DEF RoundInv, Reading
<1> QED BY <1>2, <1>3, <1>4, <1>5, <1>6

LEMMA ScanStep == IInv /\ Scan => IInv'
<1> SUFFICES ASSUME IInv, Scan PROVE IInv' OBVIOUS
<1> USE DEF IInv
<1> DEFINE due == {j \in Used \cap revents : j >= i}
<1>1. CASE End("exit1") BY <1>1, EndStep
<1>2. CASE ~End("exit1")
  <2>1. /\ pc = "scan" /\ Running /\ count >= 1 /\ Waiting(i, count)
        /\ count \in 0..MAXCLIENTS /\ i \in 1..MAXCLIENTS
    BY DEF Scan, RoundInv, Running, TypeOK
  <2>2. /\ UNCHANGED <<netVars, slot, revents, count>>
        /\ \/ due = {} /\ pc' = "poll" /\ i' = i
           \/ due # {} /\ pc' = "read_first" /\ i' = Min(due)
    BY <1>2 DEF Scan
  <2>3. Running' /\ pc' # "write" BY <2>2 DEF Running
  <2>4. NetTypeOK' /\ PlacesInv' /\ LinesInv({})'
        /\ \A c \in Clients : Readable(c)' = Readable(c)
    <3>1. Busy = {} BY <2>1 DEF Busy
    <3> QED BY <2>2, <3>1, NetStays DEF TypeOK
  <2>5. Busy' = {} BY <2>3 DEF Busy
  <2>6. UNCHANGED Used /\ SlotsInv' BY <2>1, <2>2 DEF SlotsInv, netVars, Used
  <2>7. \A j \in Used : /\ Conn(j)' = Conn(j) /\ Conn(j) \in Clients
                        /\ Readable(Conn(j))' = Readable(Conn(j))
    BY <2>1, <2>2, <2>4, ConnIs DEF Conn, netVars
  <2>8. due \in SUBSET Slots /\ due \in SUBSET Nat /\ Slots \subseteq 1..MAXCLIENTS
    BY NetAssumption DEF Slots, Used
  <2>9. CASE due = {}
    <3>1. TypeOK' BY <2>2, <2>4, <2>9 DEF TypeOK
    <3>2. RoundInv' BY <2>2, <2>9 DEF RoundInv, Reading
    <3> QED BY <2>4, <2>5, <2>6, <3>1, <3>2
  <2>10. CASE due # {}
    <3>1. PICK m \in due : m = Min(due) /\ \A j \in due : m <= j
      BY <2>8, <2>10, LeastNatural
    <3>2. i' = m /\ pc' = "read_first" BY <2>2, <2>10, <3>1
    <3>3. m \in Used /\ m \in 1..MAXCLIENTS BY <2>8
    <3>4. TypeOK' BY <2>2, <2>4, <3>2, <3>3 DEF TypeOK
    <3>5. DueFrom(i) = due BY DEF DueFrom
    <3>6. DueFrom(m + 1) = due \ {m}
      <4>1. \A j \in Used : j \in Nat BY DEF Used, Slots
      <4>2. \A j \in Used \cap revents : j >= m + 1 <=> j >= i /\ j # m
        BY <2>1, <2>8, <3>1, <4>1
      <4> QED BY <4>2 DEF DueFrom
    <3>7. ReadyFrom(m + 1) = ReadyFrom(i) \ {m} BY <3>5, <3>6 DEF ReadyFrom
    <3>8. /\ IsFiniteSet(ReadyFrom(i)) /\ Cardinality(ReadyFrom(i)) \in Nat
          /\ Cardinality(ReadyFrom(i)) >= count
      <4>1. ReadyFrom(i) \in SUBSET Used BY DEF ReadyFrom, DueFrom
      <4> QED BY <2>1, <4>1, UsedFinite DEF Waiting
    <3>9. Readable(Conn(m))
      <4> SUFFICES ASSUME ~Readable(Conn(m)) PROVE FALSE OBVIOUS
      <4>1. \A j \in Used : j <= m BY <2>1, <3>5 DEF Waiting
      <4>2. \A j \in due : j = m
        <5> SUFFICES ASSUME NEW j \in due PROVE j = m OBVIOUS
        <5>1. j <= m /\ m <= j /\ j \in Nat /\ m \in Nat BY <2>8, <3>1, <4>1
        <5> QED BY <5>1
      <4>3. ReadyFrom(i) = {} BY <3>5, <4>2 DEF ReadyFrom
      <4> QED BY <2>1, <3>8, <4>3, FS_EmptySet
    <3>10. Cardinality(ReadyFrom(m + 1)) >= count - 1
      <4>1. /\ Cardinality(ReadyFrom(i) \ {m}) >= Cardinality(ReadyFrom(i)) - 1
            /\ Cardinality(ReadyFrom(i) \ {m}) \in Int
        BY <3>8, FS_RemoveElement
      <4> QED BY ONLY <2>1, <3>7, <3>8, <4>1
    <3>11. Waiting(m + 1, count - 1)
      BY <2>1, <3>5, <3>6, <3>10 DEF Waiting
    <3>12. DueFrom(m + 1)' = DueFrom(m + 1) BY <2>2, <2>6 DEF DueFrom
    <3>13. Waiting(i + 1, count - 1)'
      <4>1. PICK n \in Int : n = count - 1 BY <2>1
      <4>2. \A j \in DueFrom(m + 1) : Readable(Conn(j)) => Readable(Conn(j))'
        BY <2>7 DEF DueFrom
      <4>3. Waiting(m + 1, n)'
        BY <2>6, <3>11, <3>12, <4>1, <4>2, WaitingStays
      <4> QED BY <2>2, <3>2, <4>1, <4>3
    <3>14. Readable(Conn(i))' BY <2>7, <3>2, <3>3, <3>9
    <3>15. RoundInv' BY <2>1, <2>2, <2>6, <3>2, <3>3, <3>13, <3>14 DEF RoundInv, Reading
    <3> QED BY <2>4, <2>5, <2>6, <3>4, <3>15
  <2> QED BY <2>9, <2>10
<1> QED BY <1>1, <1>2

\* What ReadStep and WriteStep share: the round goes on behind slot i.
LEMMA ServedRound ==
  ASSUME IInv, Reading, Served, Used' \subseteq Used,
         \A j \in Used : j > i => j \in Used',
         \A j \in DueFrom(i + 1) : Readable(Conn(j)) => Readable(Conn(j))'
  PROVE  /\ RoundInv' /\ Busy' = {} /\ Running'
         /\ revents' \subseteq Slots /\ count' \in 0..MAXCLIENTS /\ i' \in 1..MAXCLIENTS
         /\ pc' \in {"poll", "scan"}
<1> USE DEF IInv
<1>1. /\ i \in Used /\ count >= 1 /\ Waiting(i + 1, count - 1)
      /\ revents \subseteq Slots /\ count \in 0..MAXCLIENTS
  BY DEF RoundInv, TypeOK
<1>2. /\ revents' = revents /\ count' = count - 1 /\ i' = i + 1
      /\ pc' = IF count = 1 THEN "poll" ELSE "scan"
  BY DEF Served, CountDown
<1>3. Busy' = {} /\ Running' BY <1>2 DEF Busy, Running
<1>4. Used \subseteq 1..(MAXCLIENTS - 1) BY DEF Used, Slots
<1>5. count' \in 0..MAXCLIENTS /\ i' \in 1..MAXCLIENTS
  BY <1>1, <1>2, <1>4, NetAssumption
<1>6. PICK k \in Nat, n \in Int : k = i + 1 /\ n = count - 1
  BY <1>1, <1>4
<1>7. Waiting(k, n)'
  <2>1. DueFrom(k)' = DueFrom(k)
    <3>1. \A j \in Used : j >= k <=> j > i BY <1>1, <1>4, <1>6
    <3> QED BY <1>2, <3>1 DEF DueFrom
  <2> QED BY <1>1, <1>6, <2>1, WaitingStays
<1>8. RoundInv'
  <2>1. pc' = "scan" => count' >= 1 /\ Waiting(i, count)'
    BY <1>1, <1>2, <1>6, <1>7
  <2> QED BY <1>2, <2>1 DEF RoundInv, Reading
<1> QED BY <1>1, <1>2, <1>3, <1>5, <1>8

LEMMA CloseStep ==
  ASSUME IInv, Reading, CloseSlot
  PROVE  IInv' /\ Conn(i) \in Held /\ Held' = Held \ {Conn(i)} /\ UNCHANGED Queued
         /\ over' = over \cup {Conn(i)}
<1> USE DEF IInv
<1>1. /\ FdClose(slot[i]) /\ slot' = [slot EXCEPT ![i] = NoFd] /\ Served
      /\ UNCHANGED <<clientVars, inq, out, backlog, reset>>
  BY DEF CloseSlot
<1>2. /\ Running /\ i \in Used /\ Conn(i) \in Clients
      /\ slot[i] \in Fds /\ fdc[slot[i]] # None
      /\ OneSlotEach(Slots, slot, fdc) /\ Used = UsedSlots(Slots, slot)
  <2>1. Running /\ i \in Used BY DEF Reading, Running, RoundInv
  <2>2. OneSlotEach(Slots, slot, fdc) /\ Used = UsedSlots(Slots, slot)
    BY <2>1, SlotsFinite DEF SlotsInv
  <2> QED BY <2>1, <2>2, ConnIs DEF OneSlotEach
<1>3. /\ NetTypeOK' /\ PlacesInv' /\ Conn(i) \in Held
      /\ Held' = Held \ {Conn(i)} /\ UNCHANGED Queued
  BY <1>1, <1>2, CloseInv DEF TypeOK, Conn
<1>4. slot \in [Slots -> Fds \cup {NoFd}] /\ fdc \in [Fds -> Clients \cup {None}]
  BY DEF TypeOK, NetTypeOK
<1>5. OneSlotEach(Slots, slot', fdc') /\ Used' = Used \ {i}
  <2>1. ClearsSlot(Slots, slot, fdc, i, slot', fdc')
    BY <1>1, <1>2 DEF ClearsSlot, FdClose
  <2>2. Used' = UsedSlots(Slots, slot') BY DEF Used, UsedSlots
  <2> QED BY <1>2, <1>4, <2>1, <2>2, SlotCleared
<1>6. \A j \in Used : j # i => Conn(j)' = Conn(j) /\ Conn(j) \in Clients
  <2>1. \A j \in Used : /\ slot[j] \in Fds /\ Conn(j) \in Clients
                        /\ j # i => slot[j] # slot[i]
    BY <1>2, ConnIs DEF OneSlotEach
  <2>2. \A j \in Used : j # i => slot'[j] = slot[j] BY <1>1, <1>4 DEF Used
  <2> QED BY <1>1, <1>4, <2>1, <2>2 DEF Conn, FdClose
<1>7. \A j \in DueFrom(i + 1) : Readable(Conn(j)) => Readable(Conn(j))'
  <2>1. \A j \in DueFrom(i + 1) : j \in Used /\ j # i
    BY <1>2 DEF DueFrom, Used, Slots
  <2> QED BY <1>1, <1>6, <2>1 DEF Readable, clientVars
<1>8. \A j \in Used : j > i => j \in Used' BY <1>2, <1>5 DEF Used, Slots
<1>9. /\ RoundInv' /\ Busy' = {} /\ Running'
      /\ revents' \subseteq Slots /\ count' \in 0..MAXCLIENTS /\ i' \in 1..MAXCLIENTS
      /\ pc' \in {"poll", "scan"}
  BY <1>1, <1>5, <1>7, <1>8, ServedRound
<1>10. TypeOK' BY <1>1, <1>3, <1>4, <1>9 DEF TypeOK, NoFd
<1>11. LinesInv(Busy)'
  <2>1. LinesInv({}) BY DEF LinesInv
  <2> QED BY <1>1, <1>9, <2>1, LinesStay DEF clientVars
<1>12. SlotsInv' BY <1>5 DEF SlotsInv
<1> QED BY <1>1, <1>3, <1>9, <1>10, <1>11, <1>12 DEF FdClose, Conn

LEMMA ReadStep == IInv /\ Read => IInv'
<1> SUFFICES ASSUME IInv, Read PROVE IInv' OBVIOUS
<1> USE DEF IInv
<1>1. /\ Reading /\ Running /\ pc # "write" /\ i \in Used /\ count >= 1
      /\ Waiting(i + 1, count - 1) /\ Conn(i) \in Clients
  <2>1. pc \in {"read_first", "read"} BY DEF Read
  <2>2. Reading /\ Running BY <2>1 DEF Reading, Running
  <2> QED BY <2>1, <2>2, ConnIs DEF RoundInv
<1>2. CASE CloseSlot BY <1>1, <1>2, CloseStep
<1>3. CASE ~CloseSlot
  <2>0. PICK c \in Clients : c = Conn(i) BY <1>1
  <2>1. /\ inq[c] # <<>> /\ inq' = [inq EXCEPT ![c] = Tail(@)]
        /\ pc' = IF Head(inq[c]) = "nl" THEN "write" ELSE "read"
        /\ UNCHANGED <<clientVars, out, serverEnd, reset, slot, revents, count, i>>
    BY <1>3, <2>0 DEF Read
  <2>2. Busy = {} BY <1>1 DEF Busy
  <2>3. UNCHANGED <<Used, Conn(i)>> /\ Running'
    BY <2>1 DEF Used, Conn, serverEnd, Running
  <2>4. /\ NetTypeOK' /\ PlacesInv'
        /\ Head(inq[c]) = "nl" => LinesInv({c})'
        /\ Head(inq[c]) # "nl" => LinesInv({})'
    <3>1. NetTypeOK /\ PlacesInv /\ LinesInv({}) BY <2>2 DEF TypeOK
    <3> QED BY ONLY <2>1, <3>1, ReadPiece
  <2>5. LinesInv(Busy)'
    <3>1. CASE Head(inq[c]) = "nl"
      <4>1. Busy' = {c} BY <2>0, <2>1, <2>3, <3>1 DEF Busy
      <4> QED BY <2>4, <3>1, <4>1
    <3>2. CASE Head(inq[c]) # "nl"
      <4>1. Busy' = {} BY <2>1, <3>2 DEF Busy
      <4> QED BY <2>4, <3>2, <4>1
    <3> QED BY <3>1, <3>2
  <2>6. TypeOK' BY <2>1, <2>4 DEF TypeOK
  <2>7. SlotsInv' BY <1>1, <2>1 DEF SlotsInv, serverEnd
  <2>8. \A j \in Used : /\ Conn(j)' = Conn(j) /\ Conn(j) \in Clients
                        /\ j # i => Conn(j) # c
    <3>1. \A j \in Used : Conn(j)' = Conn(j) BY <2>1 DEF Conn, serverEnd
    <3>2. \A j, k \in Used : Conn(j) = Conn(k) => j = k BY <1>1, ConnIs
    <3> QED BY <1>1, <3>1, <3>2, <2>0, ConnIs
  <2>9. PICK k, n \in Int : k = i + 1 /\ n = count - 1
    BY DEF TypeOK
  <2>10. DueFrom(k)' = DueFrom(k) BY <2>1, <2>3 DEF DueFrom
  <2>11. \A j \in DueFrom(k) : Readable(Conn(j)) => Readable(Conn(j))'
    <3>1. \A j \in DueFrom(k) : j \in Used /\ j # i
      BY <1>1, <2>9 DEF DueFrom, Used, Slots
    <3>2. \A d \in Clients : d # c => inq'[d] = inq[d]
      BY <2>1 DEF TypeOK, NetTypeOK
    <3> QED BY <2>1, <2>8, <3>1, <3>2 DEF Readable, clientVars
  <2>12. Waiting(k, n)' BY <1>1, <2>3, <2>9, <2>10, <2>11, WaitingStays
  <2>13. Waiting(i + 1, count - 1)' BY <2>1, <2>9, <2>12
  <2>14. RoundInv' BY <1>1, <2>1, <2>3, <2>13 DEF RoundInv
  <2> QED BY <2>4, <2>5, <2>6, <2>7, <2>14
<1> QED BY <1>2, <1>3

LEMMA WriteStep == IInv /\ Write => IInv'
<1> SUFFICES ASSUME IInv, Write PROVE IInv' OBVIOUS
<1> USE DEF IInv
<1>1. /\ pc = "write" /\ Reading /\ Running /\ i \in Used /\ Conn(i) \in Clients
  <2>1. pc = "write" BY DEF Write
  <2>2. Reading /\ Running BY <2>1 DEF Reading, Running
  <2> QED BY <2>1, <2>2, ConnIs DEF RoundInv
<1>2. CASE CloseSlot BY <1>1, <1>2, CloseStep
<1>3. CASE End("sigpipe") BY <1>3, EndStep
<1>4. CASE out' = [out EXCEPT ![Conn(i)] = @ + 1] /\ KeepSlot
  <2>0. PICK c \in Clients : c = Conn(i) BY <1>1
  <2>1. /\ out' = [out EXCEPT ![c] = @ + 1] /\ Served
        /\ UNCHANGED <<slot, clientVars, inq, serverEnd, reset>>
    BY <1>4, <2>0 DEF KeepSlot
  <2>2. Busy = {c} BY <1>1, <2>0 DEF Busy
  <2>3. NetTypeOK' /\ PlacesInv' /\ LinesInv({})'
    BY <1>1, <2>1, <2>2, WriteEcho DEF TypeOK
  <2>4. UNCHANGED Used /\ \A j \in Used : Conn(j)' = Conn(j)
    BY <2>1 DEF Used, Conn, serverEnd
  <2>5. \A j \in DueFrom(i + 1) : Readable(Conn(j)) => Readable(Conn(j))'
    BY <2>1, <2>4 DEF DueFrom, Readable, clientVars
  <2>6. /\ RoundInv' /\ Busy' = {} /\ Running'
        /\ revents' \subseteq Slots /\ count' \in 0..MAXCLIENTS /\ i' \in 1..MAXCLIENTS
        /\ pc' \in {"poll", "scan"}
    BY <1>1, <2>1, <2>4, <2>5, ServedRound
  <2>7. TypeOK' BY <2>1, <2>3, <2>6 DEF TypeOK
  <2>8. SlotsInv' BY <1>1, <2>1 DEF SlotsInv, serverEnd
  <2> QED BY <2>3, <2>6, <2>7, <2>8
<1> QED BY <1>2, <1>3, <1>4 DEF Write

\* A client, or the network, does something while the server is anywhere.
LEMMA ClientStep ==
  ASSUME IInv, NEW c \in Clients, Client(c) \/ (Running /\ Connect(c)),
         UNCHANGED serverVars
  PROVE  IInv'
<1> USE DEF IInv
<1>1. UNCHANGED <<slot, revents, count, i, pc, fdc>>
  <2>1. UNCHANGED fdc
    BY DEF Client, SendText, SendNewline, ReadEcho, Quit, NetReset, Connect
  <2> QED BY <2>1 DEF serverVars
<1>2. UNCHANGED <<Used, Busy, Reading, Running>> /\ \A j : Conn(j)' = Conn(j)
  BY <1>1 DEF Used, Busy, Conn, Reading, Running
<1>3. /\ NetTypeOK' /\ PlacesInv' /\ LinesInv(Busy)'
      /\ \A d \in Clients : Readable(d) => Readable(d)'
      /\ backlog # <<>> => backlog' # <<>>
  <2>1. PICK b : b = Busy OBVIOUS
  <2>2. CASE Client(c)
    <3>1. /\ NetTypeOK' /\ PlacesInv' /\ LinesInv(b)' /\ UNCHANGED serverEnd
          /\ \A d \in Clients : Readable(d) => Readable(d)'
      BY <2>1, <2>2, ClientInv DEF TypeOK
    <3> QED BY <1>2, <2>1, <3>1 DEF serverEnd
  <2>3. CASE Connect(c)
    <3>1. NetTypeOK' /\ PlacesInv' BY <2>3, ConnectInv DEF TypeOK
    <3>2. LinesInv(b)' BY <2>1, <2>3, LinesStay DEF Connect
    <3>3. \A d \in Clients : Readable(d) => Readable(d)'
      BY <2>3 DEF Connect, Readable, TypeOK, NetTypeOK
    <3>4. backlog' # <<>>
      <4>1. Len(backlog') = Len(backlog) + 1 /\ Len(backlog) \in Nat
        BY <2>3, AppendProperties, LenProperties DEF Connect, TypeOK, NetTypeOK
      <4> QED BY <4>1
    <3> QED BY <1>2, <2>1, <3>1, <3>2, <3>3, <3>4
  <2> QED BY <2>2, <2>3
<1>4. TypeOK' BY <1>1, <1>3 DEF TypeOK
<1>5. SlotsInv' BY <1>1, <1>2 DEF SlotsInv
<1>6. \A j \in Used : Running => Conn(j) \in Clients
  BY ConnIs
<1>7. \A k, n \in Int : Running /\ Waiting(k, n) => Waiting(k, n)'
  <2> SUFFICES ASSUME NEW k \in Int, NEW n \in Int, Running, Waiting(k, n)
               PROVE  Waiting(k, n)'
    OBVIOUS
  <2>1. DueFrom(k)' = DueFrom(k) BY <1>1, <1>2 DEF DueFrom
  <2>2. \A j \in DueFrom(k) : Readable(Conn(j)) => Readable(Conn(j))'
    BY <1>2, <1>3, <1>6 DEF DueFrom
  <2> QED BY <1>2, <2>1, <2>2, WaitingStays
<1>8. RoundInv'
  <2>1. /\ pc \in {"accept", "scan"} \/ Reading => Running
        /\ pc = "read_first" => Reading
    BY DEF Reading, Running
  <2>2. PICK k, n \in Int : k = i /\ n = count BY DEF TypeOK
  <2>3. pc = "scan" => Waiting(i, count)' BY <1>1, <1>7, <2>1, <2>2 DEF RoundInv
  <2>4. Reading => Waiting(i + 1, count - 1)'
    <3>1. Reading /\ Waiting(k + 1, n - 1) => Waiting(k + 1, n - 1)'
      BY <1>7, <2>1
    <3> QED BY <1>1, <2>2, <3>1 DEF RoundInv
  <2>5. pc = "accept" => Waiting(1, count - 1)'
    <3>1. pc = "accept" /\ Waiting(1, n - 1) => Waiting(1, n - 1)'
      BY <1>7, <2>1
    <3> QED BY <1>1, <2>2, <3>1 DEF RoundInv
  <2>6. pc = "accept" => \A j \in Used \cap revents : Readable(Conn(j))'
    BY <1>2, <1>3, <1>6, <2>1 DEF RoundInv
  <2>7. pc = "read_first" => Readable(Conn(i))'
    BY <1>1, <1>2, <1>3, <1>6, <2>1 DEF RoundInv
  <2> QED BY <1>1, <1>2, <1>3, <2>3, <2>4, <2>5, <2>6, <2>7 DEF RoundInv
<1> QED BY <1>3, <1>4, <1>5, <1>8

-----------------------------------------------------------------------------
(* The theorems *)

LEMMA NextInv == IInv /\ [Next]_vars => IInv'
<1> SUFFICES ASSUME IInv, [Next]_vars PROVE IInv' OBVIOUS
<1>1. CASE Server
  BY <1>1, PollStep, AcceptStep, ScanStep, ReadStep, WriteStep DEF Server
<1>2. CASE SigInt BY <1>2, EndStep DEF SigInt
<1>3. ASSUME NEW c \in Clients, Client(c) \/ (Running /\ Connect(c)),
             UNCHANGED serverVars
      PROVE  IInv'
  BY <1>3, ClientStep
<1>4. CASE UNCHANGED vars
  <2> USE <1>4 DEF vars, serverVars, IInv
  <2>1. UNCHANGED <<netVars, slot, revents, count, i, pc>> OBVIOUS
  <2>2. UNCHANGED <<Used, Busy, Reading, Running, fdc, backlog>>
        /\ \A j : Conn(j)' = Conn(j)
    BY <2>1 DEF Used, Busy, Conn, Reading, Running, netVars
  <2>3. /\ NetTypeOK' /\ PlacesInv' /\ LinesInv(Busy)'
        /\ \A j : Readable(Conn(j))' = Readable(Conn(j))
    <3>1. PICK b : b = Busy OBVIOUS
    <3>2. LinesInv(b)' BY <2>1, <3>1, NetStays
    <3>3. \A j : Readable(Conn(j))' = Readable(Conn(j))
      BY <2>1, <2>2 DEF Readable, netVars
    <3> QED BY <2>1, <2>2, <3>1, <3>2, <3>3, NetStays DEF TypeOK
  <2>4. TypeOK' BY <2>1, <2>3 DEF TypeOK
  <2>5. SlotsInv' BY <2>1, <2>2 DEF SlotsInv
  <2>6. \A k, n : Waiting(k, n) => Waiting(k, n)'
    BY <2>1, <2>2, <2>3 DEF Waiting, ReadyFrom, DueFrom
  <2>7. RoundInv'
    <3>1. PICK k, n : k = i /\ n = count OBVIOUS
    <3>2. /\ Waiting(1, n - 1) => Waiting(1, n - 1)'
          /\ Waiting(k, n) => Waiting(k, n)'
          /\ Waiting(k + 1, n - 1) => Waiting(k + 1, n - 1)'
      BY <2>6
    <3>3. /\ Waiting(1, count - 1) => Waiting(1, count - 1)'
          /\ Waiting(i, count) => Waiting(i, count)'
          /\ Waiting(i + 1, count - 1) => Waiting(i + 1, count - 1)'
      BY <2>1, <3>1, <3>2
    <3> QED BY <2>1, <2>2, <2>3, <3>3 DEF RoundInv
  <2> QED BY <2>3, <2>4, <2>5, <2>7
<1> QED BY <1>1, <1>2, <1>3, <1>4 DEF Next

\* The countdown of poll()'s result, the slots and the lines agree, always.
THEOREM Inductive == Spec => []IInv
<1>1. Init => IInv BY InitInv
<1>2. IInv /\ [Next]_vars => IInv' BY NextInv
<1> QED BY <1>1, <1>2, PTL DEF Spec

\* handle_echo begins only where a client has something to say or has left, and
\* between two rounds each open descriptor is in one slot (s_poll.c's array).
THEOREM NeverAsleepOnOneClient == Spec => []SlotsReady
<1>1. IInv => SlotsReady
  <2> SUFFICES ASSUME IInv PROVE SlotsReady OBVIOUS
  <2>1. pc = "poll" => Running BY DEF Running
  <2> QED BY <2>1, SlotsFinite DEF IInv, RoundInv, SlotsInv, OneSlotEach, SlotsReady
<1> QED BY <1>1, Inductive, PTL

-----------------------------------------------------------------------------
(* s_poll.c is an EchoService with MAXCLIENTS - 1 places *)

LEMMA ServiceInit == Init => Service!Init
<1> SUFFICES ASSUME Init PROVE Service!Init OBVIOUS
<1> USE DEF Init, NetInit
<1>1. Held = {} /\ Queued = {} BY NetAssumption DEF Held, Queued, ToSet
<1>2. Phase = [c \in Clients |-> "away"] BY <1>1 DEF Phase
<1>3. Gone = {} /\ Answered = [c \in Clients |-> 0] BY DEF Gone, Answered
<1> QED BY <1>2, <1>3 DEF Service!Init

\* The clients the service serves are those that hold a descriptor.
LEMMA ServingIs ==
  ASSUME PlacesInv
  PROVE  Service!Serving = Held
BY PhaseIs DEF Service!Serving, Held

\* EchoService counts with its own copy of the standard operator.
LEMMA CardinalityIs == \A S : Service!Cardinality(S) = Cardinality(S)
BY DEF Service!Cardinality, Cardinality

\* Nothing the service shows has moved.
LEMMA Unseen ==
  ASSUME UNCHANGED <<Held, Queued, over, client, sent, out, got>>
  PROVE  UNCHANGED Service!vars
BY DEF Service!vars, Phase, Gone, Answered

LEMMA ServiceEnd ==
  ASSUME IInv, NEW how, End(how)
  PROVE  Service!Stop
<1>1. /\ Held' = {} /\ Queued' = {} /\ over' = over \cup Held \cup Queued
      /\ PlacesInv /\ UNCHANGED <<clientVars, out>>
  BY EndInv DEF IInv, TypeOK, End, ProcessEnds
<1>2. UNCHANGED <<Gone, sent, Answered>> BY <1>1 DEF Gone, Answered, clientVars
<1> QED BY <1>1, <1>2, PhaseStops DEF Service!Stop

LEMMA ServiceAccept ==
  ASSUME IInv, Accept
  PROVE  \E c \in Clients : Service!Admit(c) \/ Service!Refuse(c)
<1> USE DEF IInv
<1>1. /\ Running /\ backlog # <<>> /\ backlog' = Tail(backlog)
      /\ UNCHANGED <<clientVars, inq, out, reset>>
  BY DEF Accept, RoundInv, Running
<1>2. UNCHANGED <<Gone, sent, Answered>> BY <1>1 DEF Gone, Answered, clientVars
<1>3. PlacesInv' BY AcceptStep
<1>4. CASE Free = {}
  <2>1. over' = over \cup {Head(backlog)} /\ UNCHANGED fdc BY <1>4 DEF Accept
  <2>2. PICK c \in Clients : /\ over' = over \cup {c} /\ c \in Queued
                             /\ Queued' = Queued \ {c} /\ UNCHANGED Held
    BY <1>1, <2>1, RefuseInv DEF TypeOK
  <2>3. Phase[c] = "waiting" /\ Phase' = [Phase EXCEPT ![c] = "over"]
    BY <1>3, <2>2, PhaseMoves
  <2>4. Cardinality(Service!Serving) = MAXCLIENTS - 1
    BY <1>1, <1>4, ConnIs, ServingIs
  <2>5. Service!Refuse(c) BY ONLY <1>2, <2>3, <2>4, CardinalityIs DEF Service!Refuse, Service!Move
  <2> QED BY <2>5
<1>5. CASE Free # {}
  <2>1. fdc' = [fdc EXCEPT ![FreeFd] = Head(backlog)] /\ UNCHANGED over
    BY <1>5 DEF Accept
  <2>2. FreeFd \in Fds /\ fdc[FreeFd] = None BY <1>1, FreeIs
  <2>3. PICK c \in Clients : /\ Held' = Held \cup {c} /\ c \in Queued
                             /\ Queued' = Queued \ {c}
    BY <1>1, <2>1, <2>2, AcceptInv DEF TypeOK
  <2>4. Phase[c] = "waiting" /\ Phase' = [Phase EXCEPT ![c] = "served"]
    BY <1>3, <2>1, <2>3, PhaseMoves
  <2>5. Cardinality(Service!Serving) < MAXCLIENTS - 1
    <3>1. /\ Cardinality(Held) # MAXCLIENTS - 1 /\ Cardinality(Held) <= MAXCLIENTS - 1
          /\ Cardinality(Held) \in Nat
      BY <1>1, <1>5, ConnIs, UsedFinite
    <3> QED BY <3>1, ServingIs, NetAssumption
  <2>6. Service!Admit(c) BY ONLY <1>2, <2>4, <2>5, CardinalityIs DEF Service!Admit, Service!Move
  <2> QED BY <2>6
<1> QED BY <1>4, <1>5

\* The server gives up a client only after that client has hung up.
LEMMA ServiceClose ==
  ASSUME IInv, Reading, CloseSlot, Conn(i) \in Gone
  PROVE  \E c \in Clients : Service!Leave(c)
<1>1. PICK c \in Clients : /\ c \in Gone /\ c \in Held /\ Held' = Held \ {c}
                           /\ UNCHANGED Queued /\ over' = over \cup {c}
  BY CloseStep DEF Gone
<1>2. PlacesInv /\ PlacesInv' BY CloseStep DEF IInv
<1>3. Phase[c] = "served" /\ Phase' = [Phase EXCEPT ![c] = "over"]
  BY <1>1, <1>2, PhaseMoves
<1>4. UNCHANGED <<Gone, sent, Answered>>
  BY DEF CloseSlot, Gone, Answered, clientVars
<1> QED BY <1>1, <1>3, <1>4 DEF Service!Leave, Service!Move

LEMMA ServiceRead ==
  ASSUME IInv, Read
  PROVE  UNCHANGED Service!vars \/ \E c \in Clients : Service!Leave(c)
<1>1. /\ Reading /\ Conn(i) \in Clients
  <2>1. Reading /\ Running BY DEF Read, Reading, Running
  <2> QED BY <2>1, ConnIs DEF IInv, RoundInv
<1>2. CASE CloseSlot /\ Readable(Conn(i)) /\ inq[Conn(i)] = <<>>
  <2>1. Conn(i) \in Gone BY <1>1, <1>2 DEF Readable, IInv, PlacesInv, Gone
  <2> QED BY <1>1, <1>2, <2>1, ServiceClose
<1>3. CASE UNCHANGED <<clientVars, out, serverEnd>>
  <2>1. UNCHANGED <<Held, Queued, over, client, sent, out, got>>
    BY <1>3 DEF Held, Queued, serverEnd, clientVars
  <2> QED BY <2>1, Unseen
<1> QED BY <1>2, <1>3 DEF Read

LEMMA ServiceWrite ==
  ASSUME IInv, Write
  PROVE  Service!Stop \/ \E c \in Clients : Service!Leave(c) \/ Service!Answer(c)
<1>1. pc = "write" /\ Reading /\ Conn(i) \in Clients /\ Conn(i) \in Held
  <2>1. pc = "write" /\ Reading /\ Running BY DEF Write, Reading, Running
  <2> QED BY <2>1, ConnIs DEF IInv, RoundInv
<1>2. CASE CloseSlot /\ Conn(i) \in reset
  <2>1. Conn(i) \in Gone BY <1>1, <1>2 DEF IInv, PlacesInv, Gone
  <2> QED BY <1>1, <1>2, <2>1, ServiceClose
<1>3. CASE End("sigpipe") BY <1>3, ServiceEnd
<1>4. CASE out' = [out EXCEPT ![Conn(i)] = @ + 1] /\ KeepSlot
  <2>1. PICK c \in Clients : c = Conn(i) BY <1>1
  <2>2. Busy = {c} BY <1>1, <2>1 DEF Busy
  <2>3. /\ out' = [out EXCEPT ![c] = @ + 1] /\ c \in Held
        /\ UNCHANGED <<clientVars, inq, serverEnd, reset>>
    BY <1>1, <1>4, <2>1 DEF KeepSlot
  <2>4. out[c] + got[c] < sent[c] /\ UNCHANGED <<Held, Queued>>
    BY <2>2, <2>3, WriteEcho DEF IInv, TypeOK
  <2>5. Phase[c] = "served" /\ UNCHANGED <<Phase, Gone, sent>>
    BY <2>3, <2>4, PhaseIs, PhaseStays DEF IInv, serverEnd, clientVars, Gone
  <2>6. Answered' = [Answered EXCEPT ![c] = @ + 1]
    BY <2>3, AnsweredGrows DEF IInv, TypeOK, clientVars
  <2> QED BY <2>4, <2>5, <2>6 DEF Service!Answer, Answered
<1> QED BY <1>2, <1>3, <1>4 DEF Write

LEMMA ServiceClient ==
  ASSUME IInv, NEW c \in Clients, Client(c)
  PROVE  UNCHANGED Service!vars \/ Service!Send(c) \/ Service!HangUp(c)
<1> USE DEF IInv
<1>1. UNCHANGED serverEnd
  BY DEF Client, SendText, SendNewline, ReadEcho, Quit, NetReset, serverEnd
<1>2. UNCHANGED <<Held, Queued, over, Answered>>
  BY <1>1, AnsweredStays DEF Held, Queued, serverEnd, TypeOK
<1>3. UNCHANGED Phase BY <1>2, PhaseStays
<1>4. CASE SendNewline(c)
  <2>1. Phase[c] \in {"waiting", "served"} /\ c \notin Gone
    BY <1>4, PhaseIs DEF SendNewline, CanSend, Gone
  <2> QED BY <1>2, <1>3, <1>4, <2>1 DEF Service!Send, SendNewline, Gone
<1>5. CASE Quit(c)
  <2>1. Phase[c] # "away" /\ c \notin Gone
    BY <1>5, PhaseIs DEF Quit, Gone
  <2>2. Gone' = Gone \cup {c} BY <1>5 DEF Quit, Gone, TypeOK, NetTypeOK
  <2> QED BY <1>2, <1>3, <1>5, <2>1, <2>2 DEF Service!HangUp, Quit
<1>6. CASE SendText(c) \/ ReadEcho(c) \/ NetReset(c)
  <2>1. UNCHANGED <<client, sent>>
    BY <1>6 DEF SendText, ReadEcho, NetReset
  <2> QED BY <1>2, <1>3, <2>1 DEF Service!vars, Gone
<1> QED BY <1>4, <1>5, <1>6 DEF Client

LEMMA ServiceConnect ==
  ASSUME IInv, NEW c \in Clients, Connect(c)
  PROVE  Service!Arrive(c)
<1> USE DEF IInv
<1>1. /\ PlacesInv' /\ UNCHANGED <<over, Held>> /\ Queued' = Queued \cup {c}
      /\ client[c] = "new"
  BY ConnectInv DEF TypeOK
<1>2. Phase[c] = "away" /\ Phase' = [Phase EXCEPT ![c] = "waiting"]
  BY <1>1, PhaseMoves
<1>3. UNCHANGED <<Gone, sent, Answered>>
  BY <1>1 DEF Connect, Gone, Answered, TypeOK, NetTypeOK
<1> QED BY <1>2, <1>3 DEF Service!Arrive, Service!Move

LEMMA ServiceStep == IInv /\ [Next]_vars => [Service!Next]_Service!vars
<1> SUFFICES ASSUME IInv, [Next]_vars PROVE [Service!Next]_Service!vars
  OBVIOUS
<1> USE DEF Service!Next
<1>1. CASE UNCHANGED netVars
  <2>1. UNCHANGED <<Held, Queued, over, client, sent, out, got>>
    BY <1>1 DEF Held, Queued, netVars
  <2> QED BY <2>1, Unseen
<1>2. CASE Accept BY <1>2, ServiceAccept
<1>3. CASE Read BY <1>3, ServiceRead
<1>4. CASE Write BY <1>4, ServiceWrite
<1>5. CASE \E how : End(how) BY <1>5, ServiceEnd
<1>6. ASSUME NEW c \in Clients, Client(c) \/ Connect(c)
      PROVE  [Service!Next]_Service!vars
  BY <1>6, ServiceClient, ServiceConnect
<1>7. [Next]_vars => \/ UNCHANGED netVars \/ Accept \/ Read \/ Write
                     \/ \E how : End(how)
                     \/ \E c \in Clients : Client(c) \/ Connect(c)
  BY DEF Next, Server, Poll, Scan, SigInt, vars
<1> QED BY <1>1, <1>2, <1>3, <1>4, <1>5, <1>6, <1>7

\* For any number of clients and of places the poll server admits, answers,
\* turns away and gives up only as an EchoService may.
THEOREM PollImplementsService == Spec => ImplementsService
<1>1. Init => Service!Init BY ServiceInit
<1>2. IInv /\ [Next]_vars => [Service!Next]_Service!vars BY ServiceStep
<1> QED BY <1>1, <1>2, Inductive, PTL DEF Spec, Service!Spec, ImplementsService
=============================================================================
