-------------------------- MODULE EchoSelectProofs --------------------------
(***************************************************************************)
(* EchoSelect: for every number of clients, of lines and of places         *)
(* s_select.c begins to read only where select() found something           *)
(* (FirstReadReady), and is an EchoService.                                *)
(***************************************************************************)
EXTENDS EchoSelect, EchoNetProofs

-----------------------------------------------------------------------------
(* The inductive invariant *)

Reading == pc \in {"read_first", "read", "write"}

\* The client whose line is read and not echoed yet.
Busy == {c \in Clients : pc = "write" /\ c = Conn(i)}

SlotsInv == Running => OneSlotEach(Slots, slot, fdc)

\* Slots from k on whose descriptor select() left in the set have something.
Ready(k) == \A j \in Used : j >= k /\ slot[j] \in rset => Readable(Conn(j))

\* Before the accept of a round the set names open descriptors only: the one
\* that accept() returns is not among them.
RoundInv ==
  /\ pc = "accept" => /\ backlog # <<>> /\ Ready(i)
                      /\ \A fd \in rset : fdc[fd] # None
  /\ pc = "scan" => Ready(i)
  /\ Reading => i \in Used /\ Ready(i + 1)
  /\ pc = "read_first" => Readable(Conn(i))

IInv == TypeOK /\ PlacesInv /\ LinesInv(Busy) /\ SlotsInv /\ RoundInv

-----------------------------------------------------------------------------
(* Lemmas about the slots *)

LEMMA SlotsFinite ==
  /\ IsFiniteSet(Slots) /\ Cardinality(Slots) = MAXCLIENTS
  /\ Used = UsedSlots(Slots, slot)
<1>1. MAXCLIENTS - 1 \in Int /\ MAXCLIENTS \in Nat \ {0} BY NetAssumption
<1>2. IsFiniteSet(0..(MAXCLIENTS - 1)) /\ Cardinality(0..(MAXCLIENTS - 1)) = MAXCLIENTS
  BY <1>1, FS_Interval
<1> QED BY <1>2 DEF Slots, Used, UsedSlots

\* A slot in use stands for one client, which the server holds.
LEMMA ConnIs ==
  ASSUME TypeOK, PlacesInv, SlotsInv, Running
  PROVE  /\ \A j \in Used : /\ slot[j] \in Fds /\ Conn(j) \in Clients
                            /\ Conn(j) \in Held
         /\ \A j, k \in Used : Conn(j) = Conn(k) => j = k
         /\ Free = {} <=> Cardinality(Held) = MAXCLIENTS
         /\ Cardinality(Held) <= MAXCLIENTS /\ Cardinality(Held) \in Nat
         /\ \E fd \in Fds : fdc[fd] = None
<1>1. OneSlotEach(Slots, slot, fdc) BY DEF SlotsInv
<1>2. slot \in [Slots -> Fds \cup {NoFd}] /\ fdc \in [Fds -> Clients \cup {None}]
  BY DEF TypeOK, NetTypeOK
<1>3. \A j \in Used : slot[j] \in Fds /\ fdc[slot[j]] # None
  BY <1>1, SlotsFinite DEF OneSlotEach
<1>4. \A j \in Used : Conn(j) \in Clients /\ Conn(j) \in Held
  BY <1>2, <1>3 DEF Conn, Held
<1>5. \A j, k \in Used : Conn(j) = Conn(k) => j = k
  BY <1>1, <1>3, SlotsFinite DEF OneSlotEach, Conn, PlacesInv
<1>6. MAXCLIENTS \in Nat BY NetAssumption
<1>7. /\ \E fd \in Fds : fdc[fd] = None
      /\ IsFiniteSet(Used)
      /\ Cardinality(Used) <= MAXCLIENTS
      /\ Used # Slots => Cardinality(Used) < MAXCLIENTS
      /\ Cardinality(Held) = Cardinality(Used)
  <2>1. \A g, h \in Fds : fdc[g] = fdc[h] /\ fdc[g] # None => g = h
    BY DEF PlacesInv
  <2>2. IsFiniteSet(Slots) /\ Cardinality(Slots) <= MAXCLIENTS
    BY <1>6, SlotsFinite
  <2> QED BY ONLY <1>1, <1>2, <2>1, <2>2, SlotsFinite, SlotsCount DEF Held
<1>8. Free = {} <=> Used = Slots BY DEF Free, Used
<1>9. /\ Free = {} <=> Cardinality(Held) = MAXCLIENTS
      /\ Cardinality(Held) <= MAXCLIENTS /\ Cardinality(Held) \in Nat
  BY <1>6, <1>7, <1>8, SlotsFinite, FS_CardinalityType
<1> QED BY <1>3, <1>4, <1>5, <1>7, <1>9

\* The kernel has a free descriptor whenever a slot is free.
LEMMA FreeIs ==
  ASSUME TypeOK, PlacesInv, SlotsInv, Running
  PROVE  /\ FreeFd \in Fds /\ fdc[FreeFd] = None
         /\ Free # {} => Min(Free) \in Slots \ Used
<1>1. {fd \in Fds : fdc[fd] = None} \in SUBSET Nat
      /\ {fd \in Fds : fdc[fd] = None} # {}
  BY ConnIs DEF Fds
<1>2. FreeFd \in {fd \in Fds : fdc[fd] = None} BY <1>1, LeastNatural DEF FreeFd
<1>3. Free \in SUBSET Nat BY DEF Free, Slots
<1>4. Free # {} => Min(Free) \in Free BY <1>3, LeastNatural
<1> QED BY <1>2, <1>4 DEF Free

-----------------------------------------------------------------------------
(* Each step keeps the invariant *)

LEMMA InitInv == Init => IInv
<1> SUFFICES ASSUME Init PROVE IInv OBVIOUS
<1>1. NetTypeOK /\ PlacesInv /\ LinesInv({}) BY NetInit_Inv DEF Init
<1>2. TypeOK BY <1>1, NetAssumption DEF Init, TypeOK
<1>3. Busy = {} BY DEF Init, Busy
<1>4. SlotsInv
  <2>1. UsedSlots(Slots, slot) = {} BY DEF Init, UsedSlots
  <2>2. \A fd \in Fds : fdc[fd] = None BY DEF Init, NetInit
  <2> QED BY <2>1, <2>2 DEF SlotsInv, OneSlotEach
<1>5. RoundInv BY DEF Init, RoundInv, Reading
<1> QED BY <1>1, <1>2, <1>3, <1>4, <1>5 DEF IInv

\* What is ready stays so while readable clients stay readable, whatever leaves.
LEMMA ReadyStays ==
  ASSUME NEW k, Ready(k), UNCHANGED rset,
         \A j \in Used' : j >= k => j \in Used /\ slot'[j] = slot[j],
         \A j \in Used' : j >= k /\ Readable(Conn(j)) => Readable(Conn(j))'
  PROVE  Ready(k)'
BY DEF Ready

LEMMA SelectStep == IInv /\ Select => IInv'
<1> SUFFICES ASSUME IInv, Select PROVE IInv' OBVIOUS
<1> USE DEF IInv
<1> DEFINE ready == {slot[j] : j \in {k \in Used : Readable(Conn(k))}}
<1>1. /\ UNCHANGED <<netVars, slot>> /\ rset' = ready /\ i' = 0
      /\ pc' = IF backlog # <<>> THEN "accept" ELSE "scan"
      /\ pc = "select" /\ Running
  BY DEF Select, NewSet, Running
<1>2. UNCHANGED <<Used, fdc, backlog>> /\ \A j : Conn(j)' = Conn(j)
  BY <1>1 DEF Used, Conn, netVars
<1>3. NetTypeOK' /\ PlacesInv' /\ LinesInv({})' /\ Busy' = {}
  <2>1. Busy = {} /\ Busy' = {} BY <1>1 DEF Busy
  <2> QED BY <1>1, <2>1, NetStays DEF TypeOK
<1>4. \A j \in Used : slot[j] \in Fds /\ fdc[slot[j]] # None
  BY <1>1, ConnIs, SlotsFinite DEF SlotsInv, OneSlotEach
<1>5. \A j, k \in Used : slot[j] = slot[k] => j = k
  BY <1>1, SlotsFinite DEF SlotsInv, OneSlotEach
<1>6. \A j : Readable(Conn(j))' = Readable(Conn(j))
  BY <1>1, <1>2 DEF Readable, netVars
<1>7. Ready(i)'
  <2>1. \A j \in Used : slot[j] \in ready => Readable(Conn(j)) BY <1>5
  <2> QED BY <1>1, <1>2, <1>6, <2>1 DEF Ready
<1>8. \A fd \in rset' : fd \in Fds /\ fdc'[fd] # None BY <1>1, <1>2, <1>4
<1>9. TypeOK' BY <1>1, <1>3, <1>8, NetAssumption DEF TypeOK
<1>10. SlotsInv' BY <1>1, <1>2 DEF SlotsInv
<1>11. RoundInv' BY <1>1, <1>2, <1>7, <1>8 DEF RoundInv, Reading
<1> QED BY <1>3, <1>9, <1>10, <1>11

LEMMA AcceptStep == IInv /\ Accept => IInv'
<1> SUFFICES ASSUME IInv, Accept PROVE IInv' OBVIOUS
<1> USE DEF IInv
<1>1. /\ pc = "accept" /\ Running /\ backlog # <<>> /\ Ready(i)
      /\ \A fd \in rset : fdc[fd] # None
  BY DEF Accept, RoundInv, Running
<1>2. /\ backlog' = Tail(backlog) /\ UNCHANGED <<clientVars, inq, out, reset, rset, i>>
      /\ pc' = "scan"
  BY DEF Accept
<1>3. Running' BY <1>2 DEF Running
<1>4. LinesInv(Busy)'
  <2>1. Busy = {} /\ Busy' = {} BY <1>1, <1>2 DEF Busy
  <2> QED BY <1>2, <2>1, LinesStay DEF clientVars
<1>5. \A c \in Clients : Readable(c)' = Readable(c)
  BY <1>2 DEF Readable, clientVars
<1>6. CASE Free = {}
  <2>1. over' = over \cup {Head(backlog)} /\ UNCHANGED <<fdc, slot>>
    BY <1>6 DEF Accept
  <2>2. NetTypeOK' /\ PlacesInv' BY <1>1, <1>2, <2>1, RefuseInv DEF TypeOK
  <2>3. TypeOK' BY <1>2, <2>1, <2>2 DEF TypeOK
  <2>4. SlotsInv' BY <1>1, <2>1 DEF SlotsInv
  <2>5. UNCHANGED Used /\ \A j : Conn(j)' = Conn(j) BY <2>1 DEF Used, Conn
  <2>6. Ready(i)' BY <1>1, <1>2, <1>5, <2>1, <2>5, ConnIs DEF Ready
  <2>7. RoundInv' BY <1>2, <2>6 DEF RoundInv, Reading
  <2> QED BY <1>4, <2>2, <2>3, <2>4, <2>7
<1>7. CASE Free # {}
  <2> DEFINE c == Head(backlog)
             new == Min(Free)
  <2>1. /\ fdc' = [fdc EXCEPT ![FreeFd] = c]
        /\ slot' = [slot EXCEPT ![new] = FreeFd] /\ UNCHANGED over
    BY <1>7 DEF Accept
  <2>2. FreeFd \in Fds /\ fdc[FreeFd] = None /\ new \in Slots \ Used
    BY <1>1, <1>7, FreeIs
  <2>3. NetTypeOK' /\ PlacesInv' /\ c \in Clients
    BY <1>1, <1>2, <2>1, <2>2, AcceptInv DEF TypeOK
  <2> HIDE DEF c, new
  <2>4. TypeOK' BY <1>2, <2>1, <2>2, <2>3 DEF TypeOK
  <2>5. slot \in [Slots -> Fds \cup {NoFd}] /\ fdc \in [Fds -> Clients \cup {None}]
    BY DEF TypeOK, NetTypeOK
  <2>6. OneSlotEach(Slots, slot', fdc') /\ Used' = Used \cup {new}
    <3>1. OneSlotEach(Slots, slot, fdc) /\ Used = UsedSlots(Slots, slot)
      BY <1>1, SlotsFinite DEF SlotsInv
    <3>2. Used' = UsedSlots(Slots, slot') BY DEF Used, UsedSlots
    <3>3. TakesSlot(Slots, slot, fdc, new, slot', fdc')
      BY <2>1, <2>2, <2>3, <3>1 DEF TakesSlot
    <3> QED BY ONLY <2>5, <3>1, <3>2, <3>3, SlotTaken
  <2>7. SlotsInv' BY <2>6 DEF SlotsInv
  <2>8. \A j \in Used : slot'[j] = slot[j] /\ Conn(j)' = Conn(j) /\ Conn(j) \in Clients
    <3>1. \A j \in Used : slot[j] \in Fds /\ fdc[slot[j]] # None /\ Conn(j) \in Clients
      BY <1>1, <2>5, ConnIs, SlotsFinite DEF SlotsInv, OneSlotEach
    <3> QED BY <2>1, <2>2, <2>5, <3>1 DEF Conn, Used
  <2>9. slot'[new] \notin rset' BY <1>1, <1>2, <2>1, <2>2, <2>5
  <2>10. Ready(i)'
    BY <1>1, <1>2, <1>5, <2>6, <2>8, <2>9 DEF Ready
  <2>11. RoundInv' BY <1>2, <2>10 DEF RoundInv, Reading
  <2> QED BY <1>4, <2>3, <2>4, <2>7, <2>11
<1> QED BY <1>6, <1>7

\* The end of the process, whatever it was at.
LEMMA EndStep ==
  ASSUME IInv, NEW how \in {"exit0", "exit1", "sigpipe"}, End(how)
  PROVE  IInv'
<1> USE DEF IInv
<1>1. ProcessEnds /\ pc' = how /\ UNCHANGED <<slot, rset, i>> BY DEF End
<1>2. NetTypeOK' /\ PlacesInv' BY <1>1, EndInv DEF TypeOK
<1>3. TypeOK' BY <1>1, <1>2 DEF TypeOK
<1>4. LinesInv(Busy)'
  <2>1. LinesInv({}) BY DEF LinesInv
  <2>2. Busy' = {} BY <1>1 DEF Busy
  <2> QED BY <1>1, <2>1, <2>2, LinesStay DEF ProcessEnds, clientVars
<1>5. SlotsInv' BY <1>1 DEF SlotsInv, Running
<1>6. RoundInv' BY <1>1 DEF RoundInv, Reading
<1> QED BY <1>2, <1>3, <1>4, <1>5, <1>6

LEMMA ScanStep == IInv /\ Scan => IInv'
<1> SUFFICES ASSUME IInv, Scan PROVE IInv' OBVIOUS
<1> USE DEF IInv
<1>1. CASE End("exit1") BY <1>1, EndStep
<1>2. CASE ~End("exit1")
  <2>1. pc = "scan" /\ Running /\ Ready(i) /\ i \in 0..MAXCLIENTS
    BY DEF Scan, RoundInv, Running, TypeOK
  <2>2. /\ UNCHANGED <<netVars, slot, rset>>
        /\ \/ Due = {} /\ pc' = "select" /\ i' = i
           \/ Due # {} /\ pc' = "read_first" /\ i' = Min(Due)
    BY <1>2 DEF Scan
  <2>3. NetTypeOK' /\ PlacesInv' /\ LinesInv({})' /\ Busy' = {} /\ Running'
    <3>1. Busy = {} /\ Busy' = {} BY <2>1, <2>2 DEF Busy
    <3> QED BY <2>2, <3>1, NetStays DEF TypeOK, Running
  <2>4. UNCHANGED Used /\ SlotsInv' /\ \A j : Readable(Conn(j))' = Readable(Conn(j))
    BY <2>1, <2>2 DEF SlotsInv, netVars, Used, Conn, Readable
  <2>5. Due \in SUBSET Used /\ Used \in SUBSET (0..MAXCLIENTS)
    BY NetAssumption DEF Due, Used, Slots
  <2>6. CASE Due = {}
    <3>1. TypeOK' BY <2>2, <2>3, <2>6 DEF TypeOK
    <3>2. RoundInv' BY <2>2, <2>6 DEF RoundInv, Reading
    <3> QED BY <2>3, <2>4, <3>1, <3>2
  <2>7. CASE Due # {}
    <3>1. PICK m \in Due : m = Min(Due)
      <4>1. Due \in SUBSET Nat BY <2>5
      <4> QED BY <2>7, <4>1, LeastNatural
    <3>2. i' = m /\ pc' = "read_first" BY <2>2, <2>7, <3>1
    <3>3. m \in Used /\ m \in 0..MAXCLIENTS /\ m >= i /\ slot[m] \in rset
      BY <2>5 DEF Due
    <3>4. TypeOK' BY <2>2, <2>3, <3>2, <3>3 DEF TypeOK
    <3>5. Readable(Conn(m)) BY <2>1, <3>3 DEF Ready
    <3>6. Ready(m + 1)
      <4>1. \A j \in Used : j >= m + 1 => j >= i BY <2>1, <2>5, <3>3
      <4> QED BY <2>1, <4>1 DEF Ready
    <3>7. Ready(m + 1)' BY <2>2, <2>4, <3>6 DEF Ready
    <3>8. Ready(i + 1)' BY <3>2, <3>7
    <3>9. Readable(Conn(i))' BY <2>4, <3>2, <3>5
    <3>10. RoundInv' BY <2>4, <3>2, <3>3, <3>8, <3>9 DEF RoundInv, Reading
    <3> QED BY <2>3, <2>4, <3>4, <3>10
  <2> QED BY <2>6, <2>7
<1> QED BY <1>1, <1>2

\* What ReadStep and WriteStep share: the scan goes on behind slot i.
LEMMA ServedRound ==
  ASSUME IInv, Reading, Served,
         \A j \in Used' : j # i => j \in Used /\ slot'[j] = slot[j],
         \A j \in Used' : j # i /\ Readable(Conn(j)) => Readable(Conn(j))'
  PROVE  RoundInv' /\ Busy' = {} /\ Running' /\ i' \in 0..MAXCLIENTS
<1>1. i \in Used /\ Ready(i + 1) BY DEF IInv, RoundInv
<1>2. i \in 0..(MAXCLIENTS - 1) BY <1>1 DEF Used, Slots
<1>3. pc' = "scan" /\ i' = i + 1 /\ rset' = rset BY DEF Served
<1>4. i' \in 0..MAXCLIENTS BY <1>2, <1>3, NetAssumption
<1>5. PICK k \in Nat : k = i + 1 BY <1>2
<1>6. Ready(k)'
  <2>1. \A j \in Used' : j >= k => j # i BY <1>2, <1>5
  <2> QED BY <1>1, <1>3, <1>5, <2>1, ReadyStays
<1>7. RoundInv' BY <1>3, <1>5, <1>6 DEF RoundInv, Reading
<1> QED BY <1>3, <1>4, <1>7 DEF Busy, Running

LEMMA CloseStep ==
  ASSUME IInv, Reading, CloseSlot
  PROVE  IInv' /\ Conn(i) \in Held /\ Held' = Held \ {Conn(i)} /\ UNCHANGED Queued
         /\ over' = over \cup {Conn(i)}
<1> USE DEF IInv
<1>1. /\ FdClose(slot[i]) /\ slot' = [slot EXCEPT ![i] = NoFd] /\ Served
      /\ UNCHANGED <<clientVars, inq, out, backlog, reset>>
  BY DEF CloseSlot
<1>2. /\ Running /\ i \in Used /\ Conn(i) \in Clients
      /\ slot[i] \in Fds /\ fdc[slot[i]] # None
      /\ OneSlotEach(Slots, slot, fdc) /\ Used = UsedSlots(Slots, slot)
  <2>1. Running /\ i \in Used BY DEF Reading, Running, RoundInv
  <2>2. OneSlotEach(Slots, slot, fdc) /\ Used = UsedSlots(Slots, slot)
    BY <2>1, SlotsFinite DEF SlotsInv
  <2> QED BY <2>1, <2>2, ConnIs DEF OneSlotEach
<1>3. /\ NetTypeOK' /\ PlacesInv' /\ Conn(i) \in Held
      /\ Held' = Held \ {Conn(i)} /\ UNCHANGED Queued
  BY <1>1, <1>2, CloseInv DEF TypeOK, Conn
<1>4. slot \in [Slots -> Fds \cup {NoFd}] /\ fdc \in [Fds -> Clients \cup {None}]
  BY DEF TypeOK, NetTypeOK
<1>5. OneSlotEach(Slots, slot', fdc') /\ Used' = Used \ {i}
  <2>1. ClearsSlot(Slots, slot, fdc, i, slot', fdc')
    BY <1>1, <1>2 DEF ClearsSlot, FdClose
  <2>2. Used' = UsedSlots(Slots, slot') BY DEF Used, UsedSlots
  <2> QED BY <1>2, <1>4, <2>1, <2>2, SlotCleared
<1>6. \A j \in Used : j # i => slot'[j] = slot[j] BY <1>1, <1>4 DEF Used
<1>7. \A j \in Used : j # i => Conn(j)' = Conn(j)
  <2>1. \A j \in Used : slot[j] \in Fds /\ (j # i => slot[j] # slot[i])
    BY <1>2, ConnIs DEF OneSlotEach
  <2> QED BY <1>1, <1>4, <1>6, <2>1 DEF Conn, FdClose
<1>8. \A j \in Used' : j # i /\ Readable(Conn(j)) => Readable(Conn(j))'
  BY <1>1, <1>5, <1>7 DEF Readable, clientVars
<1>9. RoundInv' /\ Busy' = {} /\ Running' /\ i' \in 0..MAXCLIENTS
  BY <1>1, <1>5, <1>6, <1>8, ServedRound
<1>10. TypeOK' BY <1>1, <1>3, <1>4, <1>9 DEF TypeOK, NoFd, Served
<1>11. LinesInv(Busy)'
  <2>1. LinesInv({}) BY DEF LinesInv
  <2> QED BY <1>1, <1>9, <2>1, LinesStay DEF clientVars
<1>12. SlotsInv' BY <1>5 DEF SlotsInv
<1> QED BY <1>1, <1>3, <1>9, <1>10, <1>11, <1>12 DEF FdClose, Conn

LEMMA ReadStep == IInv /\ Read => IInv'
<1> SUFFICES ASSUME IInv, Read PROVE IInv' OBVIOUS
<1> USE DEF IInv
<1>1. /\ Reading /\ Running /\ pc # "write" /\ i \in Used /\ Ready(i + 1)
      /\ Conn(i) \in Clients
  <2>1. pc \in {"read_first", "read"} BY DEF Read
  <2>2. Reading /\ Running BY <2>1 DEF Reading, Running
  <2> QED BY <2>1, <2>2, ConnIs DEF RoundInv
<1>2. CASE CloseSlot BY <1>1, <1>2, CloseStep
<1>3. CASE ~CloseSlot
  <2>0. PICK c \in Clients : c = Conn(i) BY <1>1
  <2>1. /\ inq[c] # <<>> /\ inq' = [inq EXCEPT ![c] = Tail(@)]
        /\ pc' = IF Head(inq[c]) = "nl" THEN "write" ELSE "read"
        /\ UNCHANGED <<clientVars, out, serverEnd, reset, slot, rset, i>>
    BY <1>3, <2>0 DEF Read
  <2>2. Busy = {} BY <1>1 DEF Busy
  <2>3. UNCHANGED <<Used, Conn(i)>> /\ Running'
    BY <2>1 DEF Used, Conn, serverEnd, Running
  <2>4. /\ NetTypeOK' /\ PlacesInv'
        /\ Head(inq[c]) = "nl" => LinesInv({c})'
        /\ Head(inq[c]) # "nl" => LinesInv({})'
    <3>1. NetTypeOK /\ PlacesInv /\ LinesInv({}) BY <2>2 DEF TypeOK
    <3> QED BY ONLY <2>1, <3>1, ReadPiece
  <2>5. LinesInv(Busy)'
    <3>1. CASE Head(inq[c]) = "nl"
      <4>1. Busy' = {c} BY <2>0, <2>1, <2>3, <3>1 DEF Busy
      <4> QED BY <2>4, <3>1, <4>1
    <3>2. CASE Head(inq[c]) # "nl"
      <4>1. Busy' = {} BY <2>1, <3>2 DEF Busy
      <4> QED BY <2>4, <3>2, <4>1
    <3> QED BY <3>1, <3>2
  <2>6. TypeOK' BY <2>1, <2>4 DEF TypeOK
  <2>7. SlotsInv' BY <1>1, <2>1 DEF SlotsInv, serverEnd
  <2>8. \A j \in Used : /\ Conn(j)' = Conn(j) /\ Conn(j) \in Clients
                        /\ j # i => Conn(j) # c
    <3>1. \A j \in Used : Conn(j)' = Conn(j) BY <2>1 DEF Conn, serverEnd
    <3>2. \A j, k \in Used : Conn(j) = Conn(k) => j = k BY <1>1, ConnIs
    <3> QED BY <1>1, <2>0, <3>1, <3>2, ConnIs
  <2>9. PICK k \in Nat : k = i + 1 BY DEF TypeOK
  <2>10. \A j \in Used' : j >= k /\ Readable(Conn(j)) => Readable(Conn(j))'
    <3>1. \A j \in Used : j >= k => j # i BY <1>1, <2>9 DEF Used, Slots
    <3>2. \A d \in Clients : d # c => inq'[d] = inq[d]
      BY <2>1 DEF TypeOK, NetTypeOK
    <3> QED BY <2>1, <2>3, <2>8, <3>1, <3>2 DEF Readable, clientVars
  <2>11. Ready(k)' BY <1>1, <2>1, <2>3, <2>9, <2>10, ReadyStays
  <2>12. Ready(i + 1)' BY <2>1, <2>9, <2>11
  <2>13. RoundInv' BY <1>1, <2>1, <2>3, <2>12 DEF RoundInv
  <2> QED BY <2>4, <2>5, <2>6, <2>7, <2>13
<1> QED BY <1>2, <1>3

LEMMA WriteStep == IInv /\ Write => IInv'
<1> SUFFICES ASSUME IInv, Write PROVE IInv' OBVIOUS
<1> USE DEF IInv
<1>1. /\ pc = "write" /\ Reading /\ Running /\ i \in Used /\ Conn(i) \in Clients
  <2>1. pc = "write" BY DEF Write
  <2>2. Reading /\ Running BY <2>1 DEF Reading, Running
  <2> QED BY <2>1, <2>2, ConnIs DEF RoundInv
<1>2. CASE CloseSlot BY <1>1, <1>2, CloseStep
<1>3. CASE End("sigpipe") BY <1>3, EndStep
<1>4. CASE out' = [out EXCEPT ![Conn(i)] = @ + 1] /\ KeepSlot
  <2>0. PICK c \in Clients : c = Conn(i) BY <1>1
  <2>1. /\ out' = [out EXCEPT ![c] = @ + 1] /\ Served
        /\ UNCHANGED <<slot, clientVars, inq, serverEnd, reset>>
    BY <1>4, <2>0 DEF KeepSlot
  <2>2. Busy = {c} BY <1>1, <2>0 DEF Busy
  <2>3. NetTypeOK' /\ PlacesInv' /\ LinesInv({})'
    BY <1>1, <2>1, <2>2, WriteEcho DEF TypeOK
  <2>4. UNCHANGED Used /\ \A j : Conn(j)' = Conn(j)
    BY <2>1 DEF Used, Conn, serverEnd
  <2>5. \A j : Readable(Conn(j)) => Readable(Conn(j))'
    BY <2>1, <2>4 DEF Readable, clientVars
  <2>6. RoundInv' /\ Busy' = {} /\ Running' /\ i' \in 0..MAXCLIENTS
    BY <1>1, <2>1, <2>4, <2>5, ServedRound
  <2>7. TypeOK' BY <2>1, <2>3, <2>6 DEF TypeOK, Served
  <2>8. SlotsInv' BY <1>1, <2>1 DEF SlotsInv, serverEnd
  <2> QED BY <2>3, <2>6, <2>7, <2>8
<1> QED BY <1>2, <1>3, <1>4 DEF Write

\* A client, or the network, does something while the server is anywhere.
LEMMA ClientStep ==
  ASSUME IInv, NEW c \in Clients, Client(c) \/ (Running /\ Connect(c)),
         UNCHANGED serverVars
  PROVE  IInv'
<1> USE DEF IInv
<1>1. UNCHANGED <<slot, rset, i, pc, fdc>>
  <2>1. UNCHANGED fdc
    BY DEF Client, SendText, SendNewline, ReadEcho, Quit, NetReset, Connect
  <2> QED BY <2>1 DEF serverVars
<1>2. UNCHANGED <<Used, Busy, Reading, Running>> /\ \A j : Conn(j)' = Conn(j)
  BY <1>1 DEF Used, Busy, Conn, Reading, Running
<1>3. /\ NetTypeOK' /\ PlacesInv' /\ LinesInv(Busy)'
      /\ \A d \in Clients : Readable(d) => Readable(d)'
      /\ backlog # <<>> => backlog' # <<>>
  <2>1. PICK b : b = Busy OBVIOUS
  <2>2. CASE Client(c)
    <3>1. /\ NetTypeOK' /\ PlacesInv' /\ LinesInv(b)' /\ UNCHANGED serverEnd
          /\ \A d \in Clients : Readable(d) => Readable(d)'
      BY <2>1, <2>2, ClientInv DEF TypeOK
    <3> QED BY <1>2, <2>1, <3>1 DEF serverEnd
  <2>3. CASE Connect(c)
    <3>1. NetTypeOK' /\ PlacesInv' BY <2>3, ConnectInv DEF TypeOK
    <3>2. LinesInv(b)' BY <2>1, <2>3, LinesStay DEF Connect
    <3>3. \A d \in Clients : Readable(d) => Readable(d)'
      BY <2>3 DEF Connect, Readable, TypeOK, NetTypeOK
    <3>4. backlog' # <<>>
      <4>1. Len(backlog') = Len(backlog) + 1 /\ Len(backlog) \in Nat
        BY <2>3, AppendProperties, LenProperties DEF Connect, TypeOK, NetTypeOK
      <4> QED BY <4>1
    <3> QED BY <1>2, <2>1, <3>1, <3>2, <3>3, <3>4
  <2> QED BY <2>2, <2>3
<1>4. TypeOK' BY <1>1, <1>3 DEF TypeOK
<1>5. SlotsInv' BY <1>1, <1>2 DEF SlotsInv
<1>6. \A j \in Used : Running => Conn(j) \in Clients
  BY ConnIs
<1>7. \A k : Running /\ Ready(k) => Ready(k)'
  BY <1>1, <1>2, <1>3, <1>6 DEF Ready
<1>8. RoundInv'
  <2>1. /\ pc \in {"accept", "scan"} \/ Reading => Running
        /\ pc = "read_first" => Reading
    BY DEF Reading, Running
  <2>2. PICK k : k = i OBVIOUS
  <2>3. Running /\ Ready(i) => Ready(i)' BY <1>1, <1>7, <2>2
  <2>4. Running /\ Ready(i + 1) => Ready(i + 1)'
    <3>1. Running /\ Ready(k + 1) => Ready(k + 1)' BY <1>7
    <3> QED BY <1>1, <2>2, <3>1
  <2>5. pc = "read_first" => Readable(Conn(i))'
    BY <1>1, <1>2, <1>3, <1>6, <2>1 DEF RoundInv
  <2> QED BY <1>1, <1>2, <1>3, <2>1, <2>3, <2>4, <2>5 DEF RoundInv
<1> QED BY <1>3, <1>4, <1>5, <1>8

-----------------------------------------------------------------------------
(* The theorems *)

LEMMA NextInv == IInv /\ [Next]_vars => IInv'
<1> SUFFICES ASSUME IInv, [Next]_vars PROVE IInv' OBVIOUS
<1>1. CASE Server
  BY <1>1, SelectStep, AcceptStep, ScanStep, ReadStep, WriteStep DEF Server
<1>2. CASE SigInt BY <1>2, EndStep DEF SigInt
<1>3. ASSUME NEW c \in Clients, Client(c) \/ (Running /\ Connect(c)),
             UNCHANGED serverVars
      PROVE  IInv'
  BY <1>3, ClientStep
<1>4. CASE UNCHANGED vars
  <2> USE <1>4 DEF vars, serverVars, IInv
  <2>1. UNCHANGED <<netVars, slot, rset, i, pc>> OBVIOUS
  <2>2. UNCHANGED <<Used, Busy, Reading, Running, fdc, backlog>>
        /\ \A j : Conn(j)' = Conn(j)
    BY <2>1 DEF Used, Busy, Conn, Reading, Running, netVars
  <2>3. /\ NetTypeOK' /\ PlacesInv' /\ LinesInv(Busy)'
        /\ \A j : Readable(Conn(j))' = Readable(Conn(j))
    <3>1. PICK b : b = Busy OBVIOUS
    <3>2. LinesInv(b)' BY <2>1, <3>1, NetStays
    <3>3. \A j : Readable(Conn(j))' = Readable(Conn(j))
      BY <2>1, <2>2 DEF Readable, netVars
    <3> QED BY <2>1, <2>2, <3>1, <3>2, <3>3, NetStays DEF TypeOK
  <2>4. TypeOK' BY <2>1, <2>3 DEF TypeOK
  <2>5. SlotsInv' BY <2>1, <2>2 DEF SlotsInv
  <2>6. \A k : Ready(k) => Ready(k)' BY <2>1, <2>2, <2>3 DEF Ready
  <2>7. RoundInv'
    <3>1. PICK k : k = i OBVIOUS
    <3>2. (Ready(k) => Ready(k)') /\ (Ready(k + 1) => Ready(k + 1)') BY <2>6
    <3>3. (Ready(i) => Ready(i)') /\ (Ready(i + 1) => Ready(i + 1)')
      BY <2>1, <3>1, <3>2
    <3> QED BY <2>1, <2>2, <2>3, <3>3 DEF RoundInv
  <2> QED BY <2>3, <2>4, <2>5, <2>7
<1> QED BY <1>1, <1>2, <1>3, <1>4 DEF Next

\* The set select() left, the slots and the lines agree, always.
THEOREM Inductive == Spec => []IInv
<1>1. Init => IInv BY InitInv
<1>2. IInv /\ [Next]_vars => IInv' BY NextInv
<1> QED BY <1>1, <1>2, PTL DEF Spec

\* handle_echo begins only where a client has something to say or has left,
\* although accept() and close() change what rset's descriptors stand for.
THEOREM NeverAsleepOnOneClient == Spec => []FirstReadReady
<1>1. IInv => FirstReadReady BY DEF IInv, RoundInv, FirstReadReady
<1> QED BY <1>1, Inductive, PTL

-----------------------------------------------------------------------------
(* s_select.c is an EchoService with MAXCLIENTS places *)

LEMMA ServiceInit == Init => Service!Init
<1> SUFFICES ASSUME Init PROVE Service!Init OBVIOUS
<1> USE DEF Init, NetInit
<1>1. Held = {} /\ Queued = {} BY NetAssumption DEF Held, Queued, ToSet
<1>2. Phase = [c \in Clients |-> "away"] BY <1>1 DEF Phase
<1>3. Gone = {} /\ Answered = [c \in Clients |-> 0] BY DEF Gone, Answered
<1> QED BY <1>2, <1>3 DEF Service!Init

\* The clients the service serves are those that hold a descriptor.
LEMMA ServingIs ==
  ASSUME PlacesInv
  PROVE  Service!Serving = Held
BY PhaseIs DEF Service!Serving, Held

\* EchoService counts with its own copy of the standard operator.
LEMMA CardinalityIs == \A S : Service!Cardinality(S) = Cardinality(S)
BY DEF Service!Cardinality, Cardinality

\* Nothing the service shows has moved.
LEMMA Unseen ==
  ASSUME UNCHANGED <<Held, Queued, over, client, sent, out, got>>
  PROVE  UNCHANGED Service!vars
BY DEF Service!vars, Phase, Gone, Answered

LEMMA ServiceEnd ==
  ASSUME IInv, NEW how, End(how)
  PROVE  Service!Stop
<1>1. /\ Held' = {} /\ Queued' = {} /\ over' = over \cup Held \cup Queued
      /\ PlacesInv /\ UNCHANGED <<clientVars, out>>
  BY EndInv DEF IInv, TypeOK, End, ProcessEnds
<1>2. UNCHANGED <<Gone, sent, Answered>> BY <1>1 DEF Gone, Answered, clientVars
<1> QED BY <1>1, <1>2, PhaseStops DEF Service!Stop

LEMMA ServiceAccept ==
  ASSUME IInv, Accept
  PROVE  \E c \in Clients : Service!Admit(c) \/ Service!Refuse(c)
<1> USE DEF IInv
<1>1. /\ Running /\ backlog # <<>> /\ backlog' = Tail(backlog)
      /\ UNCHANGED <<clientVars, inq, out, reset>>
  BY DEF Accept, RoundInv, Running
<1>2. UNCHANGED <<Gone, sent, Answered>> BY <1>1 DEF Gone, Answered, clientVars
<1>3. PlacesInv' BY AcceptStep
<1>4. CASE Free = {}
  <2>1. over' = over \cup {Head(backlog)} /\ UNCHANGED fdc BY <1>4 DEF Accept
  <2>2. PICK c \in Clients : /\ over' = over \cup {c} /\ c \in Queued
                             /\ Queued' = Queued \ {c} /\ UNCHANGED Held
    BY <1>1, <2>1, RefuseInv DEF TypeOK
  <2>3. Phase[c] = "waiting" /\ Phase' = [Phase EXCEPT ![c] = "over"]
    BY <1>3, <2>2, PhaseMoves
  <2>4. Cardinality(Service!Serving) = MAXCLIENTS
    BY <1>1, <1>4, ConnIs, ServingIs
  <2>5. Service!Refuse(c) BY ONLY <1>2, <2>3, <2>4, CardinalityIs DEF Service!Refuse, Service!Move
  <2> QED BY <2>5
<1>5. CASE Free # {}
  <2>1. fdc' = [fdc EXCEPT ![FreeFd] = Head(backlog)] /\ UNCHANGED over
    BY <1>5 DEF Accept
  <2>2. FreeFd \in Fds /\ fdc[FreeFd] = None BY <1>1, FreeIs
  <2>3. PICK c \in Clients : /\ Held' = Held \cup {c} /\ c \in Queued
                             /\ Queued' = Queued \ {c}
    BY <1>1, <2>1, <2>2, AcceptInv DEF TypeOK
  <2>4. Phase[c] = "waiting" /\ Phase' = [Phase EXCEPT ![c] = "served"]
    BY <1>3, <2>1, <2>3, PhaseMoves
  <2>5. Cardinality(Service!Serving) < MAXCLIENTS
    <3>1. /\ Cardinality(Held) # MAXCLIENTS /\ Cardinality(Held) <= MAXCLIENTS
          /\ Cardinality(Held) \in Nat
      BY <1>1, <1>5, ConnIs
    <3> QED BY <3>1, ServingIs, NetAssumption
  <2>6. Service!Admit(c) BY ONLY <1>2, <2>4, <2>5, CardinalityIs DEF Service!Admit, Service!Move
  <2> QED BY <2>6
<1> QED BY <1>4, <1>5

\* The server gives up a client only after that client has hung up.
LEMMA ServiceClose ==
  ASSUME IInv, Reading, CloseSlot, Conn(i) \in Gone
  PROVE  \E c \in Clients : Service!Leave(c)
<1>1. PICK c \in Clients : /\ c \in Gone /\ c \in Held /\ Held' = Held \ {c}
                           /\ UNCHANGED Queued /\ over' = over \cup {c}
  BY CloseStep DEF Gone
<1>2. PlacesInv /\ PlacesInv' BY CloseStep DEF IInv
<1>3. Phase[c] = "served" /\ Phase' = [Phase EXCEPT ![c] = "over"]
  BY <1>1, <1>2, PhaseMoves
<1>4. UNCHANGED <<Gone, sent, Answered>>
  BY DEF CloseSlot, Gone, Answered, clientVars
<1> QED BY <1>1, <1>3, <1>4 DEF Service!Leave, Service!Move

LEMMA ServiceRead ==
  ASSUME IInv, Read
  PROVE  UNCHANGED Service!vars \/ \E c \in Clients : Service!Leave(c)
<1>1. /\ Reading /\ Conn(i) \in Clients
  <2>1. Reading /\ Running BY DEF Read, Reading, Running
  <2> QED BY <2>1, ConnIs DEF IInv, RoundInv
<1>2. CASE CloseSlot /\ Readable(Conn(i)) /\ inq[Conn(i)] = <<>>
  <2>1. Conn(i) \in Gone BY <1>1, <1>2 DEF Readable, IInv, PlacesInv, Gone
  <2> QED BY <1>1, <1>2, <2>1, ServiceClose
<1>3. CASE UNCHANGED <<clientVars, out, serverEnd>>
  <2>1. UNCHANGED <<Held, Queued, over, client, sent, out, got>>
    BY <1>3 DEF Held, Queued, serverEnd, clientVars
  <2> QED BY <2>1, Unseen
<1> QED BY <1>2, <1>3 DEF Read

LEMMA ServiceWrite ==
  ASSUME IInv, Write
  PROVE  Service!Stop \/ \E c \in Clients : Service!Leave(c) \/ Service!Answer(c)
<1>1. pc = "write" /\ Reading /\ Conn(i) \in Clients /\ Conn(i) \in Held
  <2>1. pc = "write" /\ Reading /\ Running BY DEF Write, Reading, Running
  <2> QED BY <2>1, ConnIs DEF IInv, RoundInv
<1>2. CASE CloseSlot /\ Conn(i) \in reset
  <2>1. Conn(i) \in Gone BY <1>1, <1>2 DEF IInv, PlacesInv, Gone
  <2> QED BY <1>1, <1>2, <2>1, ServiceClose
<1>3. CASE End("sigpipe") BY <1>3, ServiceEnd
<1>4. CASE out' = [out EXCEPT ![Conn(i)] = @ + 1] /\ KeepSlot
  <2>1. PICK c \in Clients : c = Conn(i) BY <1>1
  <2>2. Busy = {c} BY <1>1, <2>1 DEF Busy
  <2>3. /\ out' = [out EXCEPT ![c] = @ + 1] /\ c \in Held
        /\ UNCHANGED <<clientVars, inq, serverEnd, reset>>
    BY <1>1, <1>4, <2>1 DEF KeepSlot
  <2>4. out[c] + got[c] < sent[c] /\ UNCHANGED <<Held, Queued>>
    BY <2>2, <2>3, WriteEcho DEF IInv, TypeOK
  <2>5. Phase[c] = "served" /\ UNCHANGED <<Phase, Gone, sent>>
    BY <2>3, <2>4, PhaseIs, PhaseStays DEF IInv, serverEnd, clientVars, Gone
  <2>6. Answered' = [Answered EXCEPT ![c] = @ + 1]
    BY <2>3, AnsweredGrows DEF IInv, TypeOK, clientVars
  <2> QED BY <2>4, <2>5, <2>6 DEF Service!Answer, Answered
<1> QED BY <1>2, <1>3, <1>4 DEF Write

LEMMA ServiceClient ==
  ASSUME IInv, NEW c \in Clients, Client(c)
  PROVE  UNCHANGED Service!vars \/ Service!Send(c) \/ Service!HangUp(c)
<1> USE DEF IInv
<1>1. UNCHANGED serverEnd
  BY DEF Client, SendText, SendNewline, ReadEcho, Quit, NetReset, serverEnd
<1>2. UNCHANGED <<Held, Queued, over, Answered>>
  BY <1>1, AnsweredStays DEF Held, Queued, serverEnd, TypeOK
<1>3. UNCHANGED Phase BY <1>2, PhaseStays
<1>4. CASE SendNewline(c)
  <2>1. Phase[c] \in {"waiting", "served"} /\ c \notin Gone
    BY <1>4, PhaseIs DEF SendNewline, CanSend, Gone
  <2> QED BY <1>2, <1>3, <1>4, <2>1 DEF Service!Send, SendNewline, Gone
<1>5. CASE Quit(c)
  <2>1. Phase[c] # "away" /\ c \notin Gone
    BY <1>5, PhaseIs DEF Quit, Gone
  <2>2. Gone' = Gone \cup {c} BY <1>5 DEF Quit, Gone, TypeOK, NetTypeOK
  <2> QED BY <1>2, <1>3, <1>5, <2>1, <2>2 DEF Service!HangUp, Quit
<1>6. CASE SendText(c) \/ ReadEcho(c) \/ NetReset(c)
  <2>1. UNCHANGED <<client, sent>>
    BY <1>6 DEF SendText, ReadEcho, NetReset
  <2> QED BY <1>2, <1>3, <2>1 DEF Service!vars, Gone
<1> QED BY <1>4, <1>5, <1>6 DEF Client

LEMMA ServiceConnect ==
  ASSUME IInv, NEW c \in Clients, Connect(c)
  PROVE  Service!Arrive(c)
<1> USE DEF IInv
<1>1. /\ PlacesInv' /\ UNCHANGED <<over, Held>> /\ Queued' = Queued \cup {c}
      /\ client[c] = "new"
  BY ConnectInv DEF TypeOK
<1>2. Phase[c] = "away" /\ Phase' = [Phase EXCEPT ![c] = "waiting"]
  BY <1>1, PhaseMoves
<1>3. UNCHANGED <<Gone, sent, Answered>>
  BY <1>1 DEF Connect, Gone, Answered, TypeOK, NetTypeOK
<1> QED BY <1>2, <1>3 DEF Service!Arrive, Service!Move

LEMMA ServiceStep == IInv /\ [Next]_vars => [Service!Next]_Service!vars
<1> SUFFICES ASSUME IInv, [Next]_vars PROVE [Service!Next]_Service!vars
  OBVIOUS
<1> USE DEF Service!Next
<1>1. CASE UNCHANGED netVars
  <2>1. UNCHANGED <<Held, Queued, over, client, sent, out, got>>
    BY <1>1 DEF Held, Queued, netVars
  <2> QED BY <2>1, Unseen
<1>2. CASE Accept BY <1>2, ServiceAccept
<1>3. CASE Read BY <1>3, ServiceRead
<1>4. CASE Write BY <1>4, ServiceWrite
<1>5. CASE \E how : End(how) BY <1>5, ServiceEnd
<1>6. ASSUME NEW c \in Clients, Client(c) \/ Connect(c)
      PROVE  [Service!Next]_Service!vars
  BY <1>6, ServiceClient, ServiceConnect
<1>7. [Next]_vars => \/ UNCHANGED netVars \/ Accept \/ Read \/ Write
                     \/ \E how : End(how)
                     \/ \E c \in Clients : Client(c) \/ Connect(c)
  BY DEF Next, Server, Select, Scan, SigInt, vars
<1> QED BY <1>1, <1>2, <1>3, <1>4, <1>5, <1>6, <1>7

\* For any number of clients and of places the select server admits, answers,
\* turns away and gives up only as an EchoService may.
THEOREM SelectImplementsService == Spec => ImplementsService
<1>1. Init => Service!Init BY ServiceInit
<1>2. IInv /\ [Next]_vars => [Service!Next]_Service!vars BY ServiceStep
<1> QED BY <1>1, <1>2, Inductive, PTL DEF Spec, Service!Spec, ImplementsService
=============================================================================
