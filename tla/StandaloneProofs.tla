------------------------- MODULE StandaloneProofs ---------------------------
(***************************************************************************)
(* Proofs about the programs that have a run of their own: ExecFd, MioEcho, *)
(* Wiid and Multicast.  Each has its inductive invariant; definitions and  *)
(* lemmas that all of them need begin with the name of the program.        *)
(***************************************************************************)
EXTENDS ExecFd, MioEcho, Wiid, Multicast, FiniteSetTheorems, SequenceTheorems,
        WellFoundedInduction, NaturalsInduction, TLAPS

(***************************************************************************)
(* ExecFd: for every CYCLE, every number of runs and every number of       *)
(* Ctrl-C: as long as the program is not started again after a SIGQUIT, the *)
(* two processes read one by one and alternate, and no run can mislead the *)
(* next one.                                                               *)
(***************************************************************************)

Starting == {"open", "sem_a", "sem_b", "sem_b_failed", "fork"}

Fresh(n) == n \in linked => sem[n] = SemInit[n]

QuitInv == sigquit # {} => quits > 0

\* Which combinations of control points occur.
PhaseInv ==
  /\ pc["parent"] \notin {"none", "mask", "close"}
  /\ pc["child"] \notin Starting \cup {"unlink_a", "unlink_b"}
  /\ pc["parent"] \in Starting => pc["child"] = "none"
  /\ pc["child"] = "none" =>
       /\ pc["parent"] \in Starting \cup {"h_a", "h_b", "gone"}
       /\ reads["parent"] = 0 /\ reads["child"] = 0

\* A name that exists has its initial value whenever a run may still open it.
NamesInv ==
  /\ pc["parent"] \in {"open", "sem_a", "sem_b_failed"} => Fresh("a") /\ Fresh("b")
  /\ pc["parent"] = "gone" /\ quits = 0 => Fresh("a") /\ Fresh("b")
  /\ pc["parent"] = "sem_b" => sem["a"] = 1 /\ Fresh("b")
  /\ pc["parent"] = "fork" => sem["a"] = 1 /\ sem["b"] = 0
  /\ pc["parent"] \in {"unlink_b", "h_b"} => "a" \notin linked
  /\ pc["parent"] = "gone" /\ pc["child"] \notin {"none", "gone"} /\ quits = 0 =>
       linked = {}

\* There is one turn: it lies in a semaphore or a process holds it (or it went
\* away with a process that a signal ended).
TurnInv ==
  pc["child"] # "none" =>
    /\ sem["a"] + sem["b"] <= 1
    /\ Holds("parent") \/ Holds("child") => sem["a"] = 0 /\ sem["b"] = 0
    /\ ~(Holds("parent") /\ Holds("child"))

\* Who is due is told by where the turn is.
OrderInv ==
  pc["child"] # "none" =>
    /\ reads["child"] = reads["parent"] \/ reads["child"] = reads["parent"] + 1
    /\ sem["a"] > 0 \/ pc["child"] = "read" \/ pc["parent"] = "post" =>
         reads["child"] = reads["parent"]
    /\ sem["b"] > 0 \/ pc["parent"] = "read" \/ pc["child"] = "post" =>
         reads["child"] = reads["parent"] + 1

\* The inductive invariant.
IInv == TypeOK /\ QuitInv /\ PhaseInv /\ NamesInv /\ TurnInv /\ OrderInv

-----------------------------------------------------------------------------

\* Every variable keeps its type in every behaviour of the specification,
\* signals and restarts included.
THEOREM TypeCorrect == Spec => []TypeOK
<1>1. Init => TypeOK
  BY DEF Init, TypeOK, SemInit, Procs, Names, PCs
<1>2. TypeOK /\ [Next]_vars => TypeOK'
  <2> SUFFICES ASSUME TypeOK, [Next]_vars PROVE TypeOK'
    OBVIOUS
  <2> USE DEF TypeOK, Procs, Names, PCs, Goto, env
  <2>1. CASE Start
    <3>1. CASE OpenFile
      BY <3>1 DEF OpenFile
    <3>2. CASE SemOpen
      <4>1. ASSUME NEW n \in Names, Create(n)
            PROVE  sem' \in [Names -> Nat] /\ linked' \in SUBSET Names
        BY <4>1 DEF Create, SemInit
      <4>2. sem' \in [Names -> Nat] /\ linked' \in SUBSET Names
        BY <3>2, <4>1 DEF SemOpen
      <4>3. pc' \in [Procs -> PCs]
        BY <3>2 DEF SemOpen
      <4>4. QED
        BY <3>2, <4>2, <4>3 DEF SemOpen
    <3>3. CASE Fork
      BY <3>3 DEF Fork
    <3>4. QED
      BY <2>1, <3>1, <3>2, <3>3 DEF Start
  <2>2. CASE Mask \/ CloseSems \/ UnlinkBoth
    BY <2>2 DEF Mask, CloseSems, UnlinkBoth, Unlink
  <2>3. ASSUME NEW p \in Procs, Loop(p) PROVE TypeOK'
    <3>1. CASE SemWait(p)
      BY <3>1 DEF SemWait, WaitsOn
    <3>2. CASE Read(p)
      BY <3>2 DEF Read
    <3>3. CASE SemPost(p)
      BY <3>3 DEF SemPost, PostsTo
    <3>4. QED
      BY <2>3, <3>1, <3>2, <3>3 DEF Loop
  <2>4. ASSUME NEW p \in Procs, Signal(p) PROVE TypeOK'
    <3>1. CASE IntHandler(p)
      <4>1. linked' \in SUBSET Names
        BY <3>1 DEF IntHandler, Unlink
      <4>2. pc' \in [Procs -> PCs]
        BY <3>1 DEF IntHandler
      <4>3. QED
        BY <3>1, <4>1, <4>2 DEF IntHandler
    <3>2. CASE DeliverInt(p)
      BY <3>2 DEF DeliverInt
    <3>3. CASE DeliverQuit(p)
      BY <3>3 DEF DeliverQuit
    <3>4. QED
      BY <2>4, <3>1, <3>2, <3>3 DEF Signal
  <2>5. CASE CtrlC \/ CtrlBackslash
    <3>1. CASE CtrlC
      <4>1. sigint' \in SUBSET Procs
        BY <3>1, Zenon DEF CtrlC
      <4>2. QED
        BY <3>1, <4>1 DEF CtrlC
    <3>2. CASE CtrlBackslash
      <4>1. sigquit' \in SUBSET Procs
        BY <3>2, Zenon DEF CtrlBackslash
      <4>2. QED
        BY <3>2, <4>1 DEF CtrlBackslash
    <3>3. QED
      BY <2>5, <3>1, <3>2
  <2>6. CASE Restart
    BY <2>6 DEF Restart
  <2>7. CASE UNCHANGED vars
    BY <2>7 DEF vars
  <2>8. QED
    BY <2>1, <2>2, <2>3, <2>4, <2>5, <2>6, <2>7 DEF Next
<1>3. QED
  BY <1>1, <1>2, PTL DEF Spec

-----------------------------------------------------------------------------
(* The inductive invariant *)

LEMMA InitIInv == ASSUME ~AfterQuit PROVE Init => IInv
  BY DEF Init, IInv, TypeOK, QuitInv, PhaseInv, NamesInv, TurnInv, OrderInv,
         SemInit, Procs, Names, PCs, Starting, Fresh, Holds

LEMMA StepIInv ==
  ASSUME ~AfterQuit, IInv, TypeOK', [Next]_vars PROVE IInv'
<1> USE DEF Procs, Names, Goto, env, Starting, Fresh, Holds, SemInit
<1> USE DEF IInv, TypeOK
<1>1. CASE OpenFile
  BY <1>1 DEF OpenFile, QuitInv, PhaseInv, NamesInv, TurnInv, OrderInv
<1>2. CASE SemOpen
  BY <1>2 DEF SemOpen, Create, QuitInv, PhaseInv, NamesInv, TurnInv, OrderInv
<1>3. CASE Fork
  BY <1>3 DEF Fork, QuitInv, PhaseInv, NamesInv, TurnInv, OrderInv
<1>4. CASE Mask
  BY <1>4 DEF Mask, QuitInv, PhaseInv, NamesInv, TurnInv, OrderInv
<1>5. CASE CloseSems
  BY <1>5 DEF CloseSems, QuitInv, PhaseInv, NamesInv, TurnInv, OrderInv
<1>6. CASE UnlinkBoth
  BY <1>6 DEF UnlinkBoth, Unlink, QuitInv, PhaseInv, NamesInv, TurnInv, OrderInv
<1>7. ASSUME NEW p \in Procs, SemWait(p) PROVE IInv'
  BY <1>7 DEF SemWait, WaitsOn, QuitInv, PhaseInv, NamesInv, TurnInv, OrderInv
<1>8. ASSUME NEW p \in Procs, Read(p) PROVE IInv'
  BY <1>8 DEF Read, QuitInv, PhaseInv, NamesInv, TurnInv, OrderInv
<1>9. ASSUME NEW p \in Procs, SemPost(p) PROVE IInv'
  <2>1. CASE p = "child"
    BY <1>9, <2>1 DEF SemPost, PostsTo, QuitInv, PhaseInv, NamesInv, TurnInv, OrderInv
  <2>2. CASE p = "parent"
    BY <1>9, <2>2 DEF SemPost, PostsTo, QuitInv, PhaseInv, NamesInv, TurnInv, OrderInv
  <2>3. QED
    BY <2>1, <2>2
<1>10. ASSUME NEW p \in Procs, IntHandler(p) PROVE IInv'
  BY <1>10 DEF IntHandler, Unlink, QuitInv, PhaseInv, NamesInv, TurnInv, OrderInv
<1>11. ASSUME NEW p \in Procs, DeliverInt(p) PROVE IInv'
  BY <1>11 DEF DeliverInt, Unblocked, Alive, QuitInv, PhaseInv, NamesInv, TurnInv, OrderInv
<1>12. ASSUME NEW p \in Procs, DeliverQuit(p) PROVE IInv'
  BY <1>12 DEF DeliverQuit, Alive, QuitInv, PhaseInv, NamesInv, TurnInv, OrderInv
<1>13. CASE CtrlC
  BY <1>13 DEF CtrlC, QuitInv, PhaseInv, NamesInv, TurnInv, OrderInv
<1>14. CASE CtrlBackslash
  BY <1>14 DEF CtrlBackslash, QuitInv, PhaseInv, NamesInv, TurnInv, OrderInv
<1>15. CASE Restart
  BY <1>15 DEF Restart, Alive, QuitInv, PhaseInv, NamesInv, TurnInv, OrderInv
<1>16. CASE UNCHANGED vars
  BY <1>16 DEF vars, QuitInv, PhaseInv, NamesInv, TurnInv, OrderInv
<1>17. QED
  BY <1>1, <1>2, <1>3, <1>4, <1>5, <1>6, <1>7, <1>8, <1>9, <1>10, <1>11,
     <1>12, <1>13, <1>14, <1>15, <1>16 DEF Next, Start, Loop, Signal

\* Without a start after SIGQUIT the inductive invariant holds, so that in particular ...
THEOREM Inductive == ASSUME ~AfterQuit PROVE Spec => []IInv
<1>1. Init => IInv
  BY InitIInv
<1>2. IInv /\ TypeOK' /\ [Next]_vars => IInv'
  BY StepIInv
<1>3. QED
  BY <1>1, <1>2, TypeCorrect, PTL DEF Spec

\* ... the two processes never use the descriptor at the same time, for any
\* number of reads, of Ctrl-C and of runs one after the other.
THEOREM MutualExclusion == ASSUME ~AfterQuit PROVE Spec => []OneByOne
<1>1. IInv => OneByOne
  BY DEF IInv, TurnInv, PhaseInv, OneByOne, Holds, Starting
<1>2. QED
  BY <1>1, Inductive, PTL

\* ... the characters of the file go to child and parent alternately.
THEOREM Alternation == ASSUME ~AfterQuit PROVE Spec => []ReadsAlternate
<1>1. IInv => ReadsAlternate
  BY DEF IInv, TypeOK, OrderInv, PhaseInv, ReadsAlternate, Procs
<1>2. QED
  BY <1>1, Inductive, PTL

\* ... and a run that is over leaves nothing that would change the next one.
THEOREM NoBadLeftover == ASSUME ~AfterQuit PROVE Spec => []LeftoverHarmless
<1>1. IInv => LeftoverHarmless
  BY DEF IInv, TypeOK, NamesInv, Fresh, LeftoverHarmless, Names
<1>2. QED
  BY <1>1, Inductive, PTL

-----------------------------------------------------------------------------
(***************************************************************************)
(* MioEcho: an event belongs to its client, a message is whole characters of *)
(* what the client has sent, and whoever is owed something is registered, due *)
(* or in the batch.                                                        *)
(***************************************************************************)

Event(c, what) == [token |-> c, ready |-> what]

\* The event of c in the batch, if there is one, is the one it was registered
\* for; a one-shot registration is off as long as it is there.
EventInv ==
  /\ \A c \in Clients :
       /\ c \in sockets <=> interest[c] # "none"
       /\ Event(c, "R") \in batch => interest[c] = "R"
       /\ Event(c, "W") \in batch <=> interest[c] = "off"
       /\ c \in evq => c \in sockets
  /\ stage = "poll" => batch = {}
  /\ stage = "handle" => batch # {}
  /\ stage = "panic" => sockets = {} /\ backlog = {} /\ evq = {}
  /\ stage # "unreachable"

\* A client connects once; a RST comes only from one that has closed.
PeerInv ==
  /\ \A c \in Clients :
       /\ client[c] = "new" \/ c \in backlog => c \notin sockets
       /\ client[c] = "new" => c \notin backlog
       /\ client[c] = "new" => sent[c] = <<>>
       /\ client[c] = "new" \/ c \in backlog =>
            echoed[c] = <<>> /\ message[c] = <<>> /\ inq[c] = sent[c]
  /\ \A c \in reset : client[c] = "closed"

\* Where the pieces are that an accepted client has sent.
DataInv ==
  \A c \in sockets :
    /\ TextOnly(c) => sent[c] = echoed[c] \o message[c] \o inq[c]
    /\ Valid(echoed[c]) /\ Valid(message[c])

\* Edge-triggered: whoever is ready has its edge in the ready list, unless its
\* event is being handled; and a client that waits is going to be accepted.
WakeupInv ==
  /\ \A c \in sockets :
       Ready(c, interest[c]) => c \in evq \/ Event(c, "R") \in batch
  /\ backlog # {} => SERVER \in evq \/ Event(SERVER, "R") \in batch \/ stage = "accept"

MioIInv == MioTypeOK /\ EventInv /\ PeerInv /\ DataInv /\ WakeupInv

-----------------------------------------------------------------------------
(* Text *)

\* What was sent complete stays complete when more of it follows.
LEMMA ValidConcat ==
  ASSUME NEW s \in Seq(Pieces), NEW t \in Seq(Pieces), Valid(s), Valid(t)
  PROVE  Valid(s \o t)
<1>3. DOMAIN (s \o t) = 1..(Len(s) + Len(t)) /\ Len(s \o t) = Len(s) + Len(t)
  OBVIOUS
<1> SUFFICES ASSUME NEW k \in 1..(Len(s) + Len(t))
             PROVE  /\ (s \o t)[k] = "h1" => k < Len(s \o t) /\ (s \o t)[k + 1] = "h2"
                    /\ (s \o t)[k] = "h2" => k > 1 /\ (s \o t)[k - 1] = "h1"
  BY <1>3 DEF Valid
<1>1. CASE k <= Len(s)
  <2>1. k \in DOMAIN s /\ (s \o t)[k] = s[k] BY <1>1
  <2>2. s[k] = "h1" => k < Len(s) /\ s[k + 1] = "h2" BY <2>1 DEF Valid
  <2>3. s[k] = "h2" => k > 1 /\ s[k - 1] = "h1" BY <2>1 DEF Valid
  <2>4. k < Len(s) => (s \o t)[k + 1] = s[k + 1] OBVIOUS
  <2>5. k > 1 => (s \o t)[k - 1] = s[k - 1] BY <1>1
  <2> QED BY <1>1, <2>1, <2>2, <2>3, <2>4, <2>5
<1>2. CASE k > Len(s)
  <2> DEFINE j == k - Len(s)
  <2>1. j \in DOMAIN t /\ (s \o t)[k] = t[j] BY <1>2
  <2>2. t[j] = "h1" => j < Len(t) /\ t[j + 1] = "h2" BY <2>1 DEF Valid
  <2>3. t[j] = "h2" => j > 1 /\ t[j - 1] = "h1" BY <2>1 DEF Valid
  <2>4. j < Len(t) => (s \o t)[k + 1] = t[j + 1] BY <1>2
  <2>5. j > 1 => (s \o t)[k - 1] = t[j - 1] BY <1>2
  <2> QED BY <1>2, <2>1, <2>2, <2>3, <2>4, <2>5
<1> QED BY <1>1, <1>2

LEMMA ValidEmpty == Valid(<<>>)
BY DEF Valid

\* Whole characters only are valid.
LEMMA ValidText ==
  ASSUME NEW s \in Seq(Pieces), \A k \in DOMAIN s : s[k] = "c"
  PROVE  Valid(s)
BY DEF Valid

LEMMA ConcatPieces ==
  ASSUME NEW r \in Seq(Pieces), NEW s \in Seq(Pieces), NEW t \in Seq(Pieces)
  PROVE  r \o s \o t = r \o (s \o t)
BY ConcatAssociative

LEMMA AppendConcat ==
  ASSUME NEW s \in Seq(Pieces), NEW t \in Seq(Pieces), NEW x \in Pieces
  PROVE  Append(s \o t, x) = s \o Append(t, x)
<1>1. Append(s \o t, x) = (s \o t) \o <<x>> /\ Append(t, x) = t \o <<x>> /\ <<x>> \in Seq(Pieces)
  OBVIOUS
<1> QED BY <1>1, ConcatPieces

LEMMA MinOfTwo == ASSUME NEW m \in Nat, NEW n \in Nat
                  PROVE  Min({m, n}) = IF m <= n THEN m ELSE n
BY DEF Min

-----------------------------------------------------------------------------
(* Every step preserves the invariant *)

LEMMA MioInitIInv == MioInit => MioIInv
<1> SUFFICES ASSUME MioInit PROVE MioIInv
  OBVIOUS
<1> USE MioAssumption DEF MioInit
<1>1. MioTypeOK BY DEF MioTypeOK
<1>2. EventInv BY DEF EventInv
<1>3. PeerInv BY DEF PeerInv
<1>4. DataInv /\ WakeupInv BY DEF DataInv, WakeupInv
<1> QED BY <1>1, <1>2, <1>3, <1>4 DEF MioIInv

\* Steps of the clients.
LEMMA MioConnectIInv == ASSUME MioIInv, NEW c \in Clients, MioConnect(c) PROVE MioIInv'
<1> USE MioAssumption DEF MioIInv, MioConnect, serverVars
<1>1. MioTypeOK' BY DEF MioTypeOK, Tokens
<1>2. EventInv' BY DEF MioTypeOK, EventInv, Running
<1>3. PeerInv' BY DEF MioTypeOK, PeerInv
<1>4. DataInv' BY DEF DataInv, TextOnly
<1>5. WakeupInv'
  BY DEF MioTypeOK, WakeupInv, PeerInv, Ready, Readable, Writable, Room
<1> QED BY <1>1, <1>2, <1>3, <1>4, <1>5

LEMMA MioSendIInv == ASSUME MioIInv, NEW c \in Clients, MioSend(c) PROVE MioIInv'
<1> USE MioAssumption DEF MioIInv, serverVars, Edge
<1> PICK piece \in Pieces :
      /\ client[c] = "up"
      /\ sent' = [sent EXCEPT ![c] = Append(@, piece)]
      /\ inq' = [inq EXCEPT ![c] = Append(@, piece)]
      /\ Edge(c, "R")
      /\ UNCHANGED <<client, unread, reset, backlog, serverVars>>
  BY DEF MioSend
<1>1. MioTypeOK' BY DEF MioTypeOK, Tokens
<1>2. EventInv' BY DEF MioTypeOK, EventInv
<1>3. PeerInv' BY DEF MioTypeOK, PeerInv
<1>4. DataInv'
  <2> SUFFICES ASSUME NEW d \in sockets, TextOnly(d)'
               PROVE  sent'[d] = echoed[d] \o message[d] \o inq'[d]
    BY DEF DataInv
  <2>1. CASE d = c
    <3>1. /\ sent[c] \in Seq(Pieces) /\ echoed[c] \in Seq(Pieces) /\ message[c] \in Seq(Pieces)
          /\ inq[c] \in Seq(Pieces)
          /\ sent'[c] = Append(sent[c], piece) /\ inq'[c] = Append(inq[c], piece)
      BY DEF MioTypeOK
    <3>2. TextOnly(c)
      <4> SUFFICES ASSUME NEW k \in DOMAIN sent[c] PROVE sent[c][k] = "c"
        BY DEF TextOnly
      <4>1. k \in DOMAIN sent'[c] /\ sent'[c][k] = sent[c][k] BY <3>1
      <4> QED BY <2>1, <4>1 DEF TextOnly
    <3>3. sent[c] = echoed[c] \o message[c] \o inq[c] BY <2>1, <3>2 DEF DataInv
    <3> DEFINE kept == echoed[c] \o message[c]
    <3>4. kept \in Seq(Pieces) BY <3>1, ConcatProperties
    <3> HIDE DEF kept
    <3>5. Append(kept \o inq[c], piece) = kept \o Append(inq[c], piece)
      BY <3>1, <3>4, AppendConcat
    <3>6. echoed' = echoed /\ message' = message OBVIOUS
    <3> QED BY <2>1, <3>1, <3>3, <3>5, <3>6 DEF kept
  <2>2. CASE d # c
    <3>1. d \in Clients /\ sent'[d] = sent[d] /\ inq'[d] = inq[d] BY <2>2 DEF MioTypeOK
    <3>2. TextOnly(d) BY <3>1 DEF TextOnly
    <3> QED BY <3>1, <3>2 DEF DataInv
  <2> QED BY <2>1, <2>2
<1>5. WakeupInv'
  BY DEF MioTypeOK, WakeupInv, Ready, Readable, Writable, Room
<1> QED BY <1>1, <1>2, <1>3, <1>4, <1>5

LEMMA ReadEchoIInv == ASSUME MioIInv, NEW c \in Clients, ReadEcho(c) PROVE MioIInv'
<1> USE MioAssumption DEF MioIInv, ReadEcho, serverVars, Edge
<1>1. MioTypeOK' BY DEF MioTypeOK, Tokens
<1>2. EventInv' BY DEF MioTypeOK, EventInv
<1>3. PeerInv' BY DEF PeerInv
<1>4. DataInv' BY DEF DataInv, TextOnly
<1>5. WakeupInv'
  BY DEF MioTypeOK, WakeupInv, Ready, Readable, Writable, Room
<1> QED BY <1>1, <1>2, <1>3, <1>4, <1>5

LEMMA MioCloseIInv == ASSUME MioIInv, NEW c \in Clients, MioClose(c) PROVE MioIInv'
<1> USE MioAssumption DEF MioIInv, serverVars
<1> PICK how \in {"closed", "aborted"} : client' = [client EXCEPT ![c] = how]
  BY DEF MioClose
<1> USE DEF MioClose
<1>1. MioTypeOK' BY DEF MioTypeOK, Tokens
<1>2. EventInv' BY DEF MioTypeOK, EventInv
<1>3. PeerInv' BY DEF MioTypeOK, PeerInv
<1>4. DataInv' BY DEF DataInv, TextOnly
<1>5. WakeupInv'
  BY DEF MioTypeOK, WakeupInv, Ready, Readable, Writable, Room
<1> QED BY <1>1, <1>2, <1>3, <1>4, <1>5

LEMMA NetResetIInv == ASSUME MioIInv, NEW c \in Clients, NetReset(c) PROVE MioIInv'
<1> USE MioAssumption DEF MioIInv, NetReset, serverVars
<1>1. MioTypeOK' BY DEF MioTypeOK, Tokens
<1>2. EventInv' BY DEF MioTypeOK, EventInv
<1>3. PeerInv' BY DEF MioTypeOK, PeerInv
<1>4. DataInv' BY DEF DataInv, TextOnly
<1>5. WakeupInv'
  BY DEF MioTypeOK, WakeupInv, Ready, Readable, Writable, Room
<1> QED BY <1>1, <1>2, <1>3, <1>4, <1>5

\* Steps of the server.
LEMMA PollIInv == ASSUME MioIInv, Poll PROVE MioIInv'
<1> USE MioAssumption DEF MioIInv, Poll, peerVars, Event
<1>1. /\ \A c \in Clients : Event(c, "R") \in Reports
                              <=> c \in evq /\ interest[c] = "R" /\ Readable(c)
      /\ \A c \in Clients : Event(c, "W") \in Reports
                              <=> c \in evq /\ interest[c] = "W" /\ Writable(c)
      /\ Event(SERVER, "R") \in Reports <=> SERVER \in evq /\ backlog # {}
      /\ Reports \subseteq [token : Tokens, ready : {"R", "W"}]
  <2>1. \A c \in Clients : interest[c] \in {"none", "R", "W", "off"} /\ c # SERVER BY DEF MioTypeOK
  <2>2. evq \subseteq Clients \cup {SERVER} BY DEF MioTypeOK, Tokens
  <2>3. SERVER \notin Clients BY MioAssumption
  <2> DEFINE due == {d \in evq \ {SERVER} : Ready(d, interest[d])}
             own == {Event(d, interest[d]) : d \in due}
             new == IF SERVER \in evq /\ backlog # {} THEN {Event(SERVER, "R")} ELSE {}
  <2>4. Reports = own \cup new BY DEF Reports
  <2>5. due \subseteq Clients BY <2>2
  <2>6. \A d \in due : interest[d] \in {"R", "W"} BY <2>1, <2>5 DEF Ready
  <2>7. Reports \subseteq [token : Tokens, ready : {"R", "W"}]
    BY <2>4, <2>5, <2>6 DEF Tokens
  <2>8. \A c \in Clients : \A w \in {"R", "W"} : Event(c, w) \in own <=> c \in due /\ interest[c] = w
    OBVIOUS
  <2>9. \A c \in Clients : \A w \in {"R", "W"} : Event(c, w) \notin new BY <2>3
  <2>10. Event(SERVER, "R") \notin own BY <2>3, <2>5
  <2>11. \A c \in Clients : c \in due <=> c \in evq /\ Ready(c, interest[c]) BY <2>3
  <2>12. \A c \in Clients : /\ Event(c, "R") \in Reports <=> c \in evq /\ interest[c] = "R" /\ Readable(c)
                            /\ Event(c, "W") \in Reports <=> c \in evq /\ interest[c] = "W" /\ Writable(c)
    <3> HIDE DEF due, own, new, Event
    <3> QED BY <2>4, <2>8, <2>9, <2>11 DEF Ready
  <2>13. Event(SERVER, "R") \in Reports <=> SERVER \in evq /\ backlog # {}
    BY <2>4, <2>10
  <2> HIDE DEF due, own, new
  <2> QED BY <2>7, <2>12, <2>13
<1>2. MioTypeOK' BY <1>1 DEF MioTypeOK
<1>3. EventInv' BY <1>1 DEF MioTypeOK, EventInv
<1>4. PeerInv' BY DEF PeerInv
<1>5. DataInv' BY DEF DataInv, TextOnly
<1>6. WakeupInv' BY <1>1 DEF MioTypeOK, WakeupInv, EventInv, Ready, Readable, Writable, Room
<1> QED BY <1>2, <1>3, <1>4, <1>5, <1>6

LEMMA AcceptEventIInv == ASSUME MioIInv, AcceptEvent PROVE MioIInv'
<1> USE MioAssumption DEF MioIInv, AcceptEvent, peerVars, epollVars, Event
<1>2. MioTypeOK' BY DEF MioTypeOK
<1>3. EventInv' BY DEF MioTypeOK, EventInv
<1>4. PeerInv' BY DEF PeerInv
<1>5. DataInv' BY DEF DataInv, TextOnly
<1>6. WakeupInv' BY DEF MioTypeOK, WakeupInv, Ready, Readable, Writable, Room
<1> QED BY <1>2, <1>3, <1>4, <1>5, <1>6

LEMMA AcceptIInv == ASSUME MioIInv, Accept PROVE MioIInv'
<1> USE MioAssumption DEF MioIInv, Accept, peerVars, epollVars, Event
<1>1. CASE backlog = {} /\ UNCHANGED <<backlog, epollVars, sockets>>
           /\ stage' = IF batch = {} THEN "poll" ELSE "handle"
  <2>2. MioTypeOK' BY <1>1 DEF MioTypeOK
  <2>3. EventInv' BY <1>1 DEF MioTypeOK, EventInv
  <2>4. PeerInv' BY <1>1 DEF PeerInv
  <2>5. DataInv' BY <1>1 DEF DataInv, TextOnly
  <2>6. WakeupInv' BY <1>1 DEF MioTypeOK, WakeupInv, Ready, Readable, Writable, Room
  <2> QED BY <2>2, <2>3, <2>4, <2>5, <2>6
<1>2. ASSUME NEW c \in backlog,
             backlog' = backlog \ {c}, sockets' = sockets \cup {c}, Register(c, "R"), UNCHANGED stage
      PROVE  MioIInv'
  <2> USE <1>2 DEF Register
  <2>1. c \in Clients BY DEF MioTypeOK
  <2>2. MioTypeOK' BY <2>1 DEF MioTypeOK, Tokens
  <2>3. EventInv' BY <2>1 DEF MioTypeOK, EventInv, PeerInv
  <2>4. PeerInv' BY <2>1 DEF MioTypeOK, PeerInv
  <2>5. DataInv'
    <3>1. echoed[c] = <<>> /\ message[c] = <<>> /\ inq[c] = sent[c] /\ sent[c] \in Seq(Pieces)
      BY <2>1 DEF PeerInv, MioTypeOK
    <3>2. sent[c] = echoed[c] \o message[c] \o inq[c] BY <3>1
    <3> QED BY <3>1, <3>2, ValidEmpty DEF DataInv, TextOnly
  <2>6. WakeupInv' BY <2>1 DEF MioTypeOK, WakeupInv, Ready, Readable, Writable, Room
  <2> QED BY <2>2, <2>3, <2>4, <2>5, <2>6
<1> QED BY <1>1, <1>2

\* The process panics: nothing is left of the server.
LEMMA CrashIInv == ASSUME MioIInv, Crash("panic") PROVE MioIInv'
<1> USE MioAssumption DEF MioIInv, Crash, peerVars, Event
<1>2. MioTypeOK' BY DEF MioTypeOK
<1>3. EventInv' BY DEF MioTypeOK, EventInv
<1>4. PeerInv' BY DEF PeerInv
<1>5. DataInv' BY DEF DataInv, TextOnly
<1>6. WakeupInv' BY DEF WakeupInv
<1> QED BY <1>2, <1>3, <1>4, <1>5, <1>6

\* An event in the batch is for a client in the map, and the only one for it.
LEMMA EventIsOwn ==
  ASSUME MioIInv, NEW c \in Clients
  PROVE  /\ Event(c, "R") \in batch \/ Event(c, "W") \in batch => c \in sockets
         /\ ~(Event(c, "R") \in batch /\ Event(c, "W") \in batch)
BY DEF MioIInv, EventInv, MioTypeOK

\* What becomes of the other events, and of pc, when one is done.
LEMMA DoneEvents ==
  ASSUME MioIInv, NEW e \in batch, Done(e), stage = "handle"
  PROVE  /\ batch' \subseteq batch /\ batch' = batch \ {e}
         /\ stage' \in {"poll", "handle"} /\ (stage' = "poll" <=> batch' = {})
BY DEF Done

\* A client is gone from the map.
LEMMA DropIInv ==
  ASSUME MioIInv, NEW c \in Clients, NEW what \in {"R", "W"}, Event(c, what) \in batch,
         stage = "handle", Done(Event(c, what)), Drop(c),
         UNCHANGED <<client, sent, reset, backlog, message>>,
         unread' \in [Clients -> 0..SendBuffer],
         inq' \in [Clients -> Seq(Pieces)], echoed' \in [Clients -> Seq(Pieces)],
         \A d \in Clients \ {c} : inq'[d] = inq[d] /\ echoed'[d] = echoed[d]
                                  /\ unread'[d] = unread[d]
  PROVE  MioIInv'
<1> USE MioAssumption DEF MioIInv, Drop
<1>1. batch' = batch \ {Event(c, what)} /\ stage' \in {"poll", "handle"}
      /\ (stage' = "poll" <=> batch' = {})
  BY DoneEvents
<1>2. c \in sockets /\ \A w \in {"R", "W"} : Event(c, w) \notin batch'
  BY <1>1, EventIsOwn
<1>3. MioTypeOK' BY <1>1 DEF MioTypeOK
<1>4. EventInv' BY <1>1, <1>2 DEF MioTypeOK, EventInv, Event
<1>5. PeerInv' BY <1>2 DEF MioTypeOK, PeerInv
<1>6. DataInv'
  <2> SUFFICES ASSUME NEW d \in sockets'
               PROVE  /\ TextOnly(d)' => sent'[d] = echoed'[d] \o message'[d] \o inq'[d]
                      /\ Valid(echoed'[d]) /\ Valid(message'[d])
    BY DEF DataInv
  <2>1. d \in sockets /\ d \in Clients \ {c} BY DEF MioTypeOK
  <2>2. inq'[d] = inq[d] /\ echoed'[d] = echoed[d] /\ message'[d] = message[d] BY <2>1
  <2> QED BY <2>1, <2>2 DEF DataInv, TextOnly
<1>7. WakeupInv' BY <1>1 DEF MioTypeOK, WakeupInv, Ready, Readable, Writable, Room, Event
<1> QED BY <1>3, <1>4, <1>5, <1>6, <1>7

LEMMA ReadIInv == ASSUME MioIInv, NEW c \in Clients, MioRead(c) PROVE MioIInv'
<1> DEFINE e == Event(c, "R")
<1>1. stage = "handle" /\ e \in batch BY DEF MioRead, Event
<1>2. c \in sockets BY <1>1, EventIsOwn
<1>3. CASE Crash("panic") BY <1>3, CrashIInv
<1>4. CASE Drop(c) /\ Done(e) /\ inq' = [inq EXCEPT ![c] = <<>>]
           /\ UNCHANGED <<peerVars, echoed, backlog, message>>
  <2>1. /\ unread' \in [Clients -> 0..SendBuffer] /\ echoed' \in [Clients -> Seq(Pieces)]
        /\ inq' \in [Clients -> Seq(Pieces)]
        /\ \A d \in Clients \ {c} : inq'[d] = inq[d] /\ echoed'[d] = echoed[d] /\ unread'[d] = unread[d]
    BY <1>4 DEF MioIInv, MioTypeOK, peerVars
  <2> QED BY <1>1, <1>4, <2>1, DropIInv DEF peerVars
<1>5. ASSUME client[c] = "up",
             message' = IF Valid(inq[c]) THEN [message EXCEPT ![c] = @ \o inq[c]] ELSE message,
             inq' = [inq EXCEPT ![c] = <<>>], Register(c, "W"), Done(e),
             UNCHANGED <<peerVars, echoed, backlog, sockets>>
      PROVE  MioIInv'
  <2> USE MioAssumption, <1>5 DEF MioIInv, peerVars, Register
  <2>1. batch' = batch \ {e} /\ stage' \in {"poll", "handle"} /\ (stage' = "poll" <=> batch' = {})
    BY <1>1, DoneEvents
  <2>2. \A w \in {"R", "W"} : Event(c, w) \notin batch' BY <1>1, <2>1, EventIsOwn
  <2>3. /\ inq[c] \in Seq(Pieces) /\ message[c] \in Seq(Pieces) /\ echoed[c] \in Seq(Pieces)
        /\ sent[c] \in Seq(Pieces)
        /\ inq'[c] = <<>> /\ echoed' = echoed /\ sent' = sent
        /\ message'[c] = IF Valid(inq[c]) THEN message[c] \o inq[c] ELSE message[c]
    BY DEF MioTypeOK
  <2>4. message' \in [Clients -> Seq(Pieces)] /\ inq' \in [Clients -> Seq(Pieces)]
    BY <2>3, ConcatProperties DEF MioTypeOK
  <2>5. MioTypeOK' BY <1>2, <2>1, <2>4 DEF MioTypeOK, Tokens
  <2>6. EventInv' BY <1>2, <2>1, <2>2 DEF MioTypeOK, EventInv, Event
  <2>7. PeerInv' BY <1>2 DEF MioTypeOK, PeerInv
  <2>8. DataInv'
    <3> SUFFICES ASSUME NEW d \in sockets
                 PROVE  /\ TextOnly(d)' => sent'[d] = echoed'[d] \o message'[d] \o inq'[d]
                        /\ Valid(echoed'[d]) /\ Valid(message'[d])
      BY DEF DataInv
    <3>1. TextOnly(d)' <=> TextOnly(d) BY DEF TextOnly
    <3>2. CASE d # c
      <4>1. inq'[d] = inq[d] /\ message'[d] = message[d] BY <3>2 DEF MioTypeOK
      <4> QED BY <2>3, <3>1, <4>1 DEF DataInv
    <3>3. CASE d = c
      <4>1. Valid(message[c]) /\ Valid(echoed[c]) BY <1>2 DEF DataInv
      <4>2. Valid(message'[c]) BY <2>3, <4>1, ValidConcat
      <4>3. ASSUME TextOnly(c) PROVE sent[c] = echoed[c] \o message'[c] \o <<>>
        <5> DEFINE kept == echoed[c] \o message[c]
        <5>1. sent[c] = kept \o inq[c] BY <1>2, <4>3 DEF DataInv
        <5>2. kept \in Seq(Pieces) BY <2>3, ConcatProperties
        <5> HIDE DEF kept
        <5>3. \A k \in DOMAIN inq[c] : inq[c][k] = "c"
          <6> SUFFICES ASSUME NEW k \in DOMAIN inq[c] PROVE inq[c][k] = "c"
            OBVIOUS
          <6>1. /\ Len(kept) + k \in DOMAIN (kept \o inq[c])
                /\ (kept \o inq[c])[Len(kept) + k] = inq[c][k]
            BY <2>3, <5>2
          <6> QED BY <4>3, <5>1, <6>1 DEF TextOnly
        <5>4. Valid(inq[c]) BY <2>3, <5>3, ValidText
        <5>5. kept \o inq[c] = echoed[c] \o (message[c] \o inq[c])
          BY <2>3, ConcatPieces DEF kept
        <5>6. echoed[c] \o message'[c] = sent[c] BY <2>3, <5>1, <5>4, <5>5
        <5> QED BY <2>3, <5>6, ConcatEmptySeq
      <4> QED BY <2>3, <3>1, <3>3, <4>1, <4>2, <4>3
    <3> QED BY <3>2, <3>3
  <2>9. WakeupInv'
    <3>1. \A d \in Clients \ {c} : /\ inq'[d] = inq[d] /\ interest'[d] = interest[d]
                                   /\ Event(d, "R") \in batch => Event(d, "R") \in batch'
      BY <2>1 DEF MioTypeOK, Event
    <3>2. interest'[c] = "W" /\ evq \subseteq evq' /\ (Ready(c, "W") => c \in evq')
      BY DEF MioTypeOK
    <3>3. \A d \in Clients : Ready(d, "W")' <=> Ready(d, "W")
      BY DEF Ready, Writable, Room
    <3>4. \A d \in Clients \ {c} : Ready(d, interest[d])' <=> Ready(d, interest[d])
      BY <3>1, <3>3 DEF Ready, Readable
    <3>5. Event(SERVER, "R") \in batch => Event(SERVER, "R") \in batch'
      BY <2>1 DEF Event
    <3>6. \A d \in sockets' : Ready(d, interest[d])' => d \in evq' \/ Event(d, "R")' \in batch'
      <4> SUFFICES ASSUME NEW d \in sockets, Ready(d, interest[d])'
                   PROVE  d \in evq' \/ Event(d, "R") \in batch'
        BY DEF Event
      <4>1. d \in Clients BY DEF MioTypeOK
      <4>2. CASE d = c BY <3>2, <3>3, <4>1, <4>2 DEF Ready
      <4>3. CASE d # c BY <3>1, <3>2, <3>4, <4>1, <4>3 DEF WakeupInv
      <4> QED BY <4>2, <4>3
    <3> QED BY <1>1, <3>2, <3>5, <3>6 DEF WakeupInv, Event
  <2> QED BY <2>5, <2>6, <2>7, <2>8, <2>9
<1> QED BY <1>1, <1>2, <1>3, <1>4, <1>5 DEF MioRead, Event

\* How many pieces write_all gets into the send buffer: all of them if it succeeds.
LEMMA WrittenPieces ==
  ASSUME MioIInv, NEW c \in Clients
  PROVE  LET k == IF Broken(c) THEN 0 ELSE Min({Len(message[c]), Room(c)})
         IN  /\ k \in 0..Room(c) /\ k <= Len(message[c])
             /\ Fits(c) => k = Len(message[c])
<1>1. Len(message[c]) \in Nat /\ (message[c] = <<>> => Len(message[c]) = 0)
  BY DEF MioIInv, MioTypeOK
<1>2. Room(c) \in Nat BY MioAssumption DEF MioIInv, MioTypeOK, Room
<1>3. Min({Len(message[c]), Room(c)}) = IF Len(message[c]) <= Room(c) THEN Len(message[c]) ELSE Room(c)
  BY <1>1, <1>2, MinOfTwo
<1> QED BY <1>1, <1>2, <1>3 DEF Fits

LEMMA WriteIInv == ASSUME MioIInv, NEW c \in Clients, MioWrite(c) PROVE MioIInv'
<1> DEFINE e == Event(c, "W")
           k == IF Broken(c) THEN 0 ELSE Min({Len(message[c]), Room(c)})
<1>1. stage = "handle" /\ e \in batch BY DEF MioWrite, Event
<1>2. c \in sockets BY <1>1, EventIsOwn
<1>3. /\ echoed' = [echoed EXCEPT ![c] = @ \o SubSeq(message[c], 1, k)]
      /\ unread' = [unread EXCEPT ![c] = @ + k]
      /\ \/ Fits(c) /\ ClearMessage(c) /\ Register(c, "R") /\ UNCHANGED sockets
         \/ Drop(c) /\ UNCHANGED message
      /\ Done(e) /\ UNCHANGED <<client, sent, reset, inq, backlog>>
  BY <1>2 DEF MioWrite, Event
<1>4. k \in 0..Room(c) /\ k <= Len(message[c]) /\ (Fits(c) => k = Len(message[c]))
  BY WrittenPieces
<1> HIDE DEF k
<1>5. /\ unread[c] \in 0..SendBuffer /\ Room(c) = SendBuffer - unread[c]
      /\ inq[c] \in Seq(Pieces) /\ message[c] \in Seq(Pieces) /\ echoed[c] \in Seq(Pieces)
      /\ sent[c] \in Seq(Pieces)
  BY DEF MioIInv, MioTypeOK, Room
<1>6. unread' \in [Clients -> 0..SendBuffer]
  <2>1. unread[c] + k \in 0..SendBuffer BY <1>4, <1>5, MioAssumption
  <2> QED BY <1>3, <2>1 DEF MioIInv, MioTypeOK
<1>7. echoed' \in [Clients -> Seq(Pieces)]
  <2>1. SubSeq(message[c], 1, k) \in Seq(Pieces) BY <1>4, <1>5, SubSeqProperties
  <2>2. echoed[c] \o SubSeq(message[c], 1, k) \in Seq(Pieces) BY <1>5, <2>1, ConcatProperties
  <2> QED BY <1>3, <2>2 DEF MioIInv, MioTypeOK
<1>8. \A d \in Clients \ {c} : /\ inq'[d] = inq[d] /\ echoed'[d] = echoed[d]
                               /\ unread'[d] = unread[d]
  BY <1>3 DEF MioIInv, MioTypeOK
<1>9. CASE Drop(c) /\ UNCHANGED message
  <2>1. inq' \in [Clients -> Seq(Pieces)] BY <1>3 DEF MioIInv, MioTypeOK
  <2> QED BY <1>1, <1>3, <1>6, <1>7, <1>8, <1>9, <2>1, DropIInv
<1>10. CASE Fits(c) /\ ClearMessage(c) /\ Register(c, "R") /\ UNCHANGED sockets
  <2> USE MioAssumption DEF MioIInv, ClearMessage, Register
  <2>1. batch' = batch \ {e} /\ stage' \in {"poll", "handle"} /\ (stage' = "poll" <=> batch' = {})
    BY <1>1, <1>3, DoneEvents
  <2>2. \A w \in {"R", "W"} : Event(c, w) \notin batch' BY <1>1, <2>1, EventIsOwn
  <2>3. MioTypeOK' BY <1>2, <1>3, <1>6, <1>7, <1>10, <2>1 DEF MioTypeOK, Tokens
  <2>4. EventInv' BY <1>2, <1>3, <1>10, <2>1, <2>2 DEF MioTypeOK, EventInv, Event
  <2>5. PeerInv' BY <1>2, <1>3, <1>8, <1>10 DEF MioTypeOK, PeerInv
  <2>6. DataInv'
    <3> SUFFICES ASSUME NEW d \in sockets
                 PROVE  /\ TextOnly(d)' => sent'[d] = echoed'[d] \o message'[d] \o inq'[d]
                        /\ Valid(echoed'[d]) /\ Valid(message'[d])
      BY <1>10 DEF DataInv
    <3>1. sent' = sent /\ inq' = inq /\ (TextOnly(d)' <=> TextOnly(d)) BY <1>3 DEF TextOnly
    <3>2. CASE d # c
      <4>1. d \in Clients /\ message'[d] = message[d] /\ echoed'[d] = echoed[d]
        BY <1>3, <1>8, <1>10, <3>2 DEF MioTypeOK
      <4> QED BY <3>1, <4>1 DEF DataInv
    <3>3. CASE d = c
      <4>1. message'[c] = <<>> BY <1>10 DEF MioTypeOK
      <4>2. SubSeq(message[c], 1, k) = message[c] BY <1>4, <1>5, <1>10, SubSeqFull
      <4>3. echoed'[c] = echoed[c] \o message[c] BY <1>3, <4>2 DEF MioTypeOK
      <4>4. echoed'[c] \in Seq(Pieces) BY <1>7
      <4>5. echoed'[c] \o <<>> = echoed'[c] BY <4>4, ConcatEmptySeq
      <4>6. Valid(echoed[c]) /\ Valid(message[c])
            /\ (TextOnly(c) => sent[c] = echoed[c] \o message[c] \o inq[c])
        BY <1>2 DEF DataInv
      <4>7. Valid(echoed'[c]) BY <1>5, <4>3, <4>6, ValidConcat
      <4> QED BY <3>1, <3>3, <4>1, <4>3, <4>5, <4>6, <4>7, ValidEmpty
    <3> QED BY <3>2, <3>3
  <2>7. WakeupInv'
    <3>1. client' = client /\ inq' = inq /\ reset' = reset /\ backlog' = backlog /\ sockets' = sockets
      BY <1>3, <1>10
    <3>2. \A d \in Clients \ {c} : /\ interest'[d] = interest[d] /\ unread'[d] = unread[d]
                                   /\ Event(d, "R") \in batch => Event(d, "R") \in batch'
      BY <1>8, <1>10, <2>1 DEF MioTypeOK, Event
    <3>3. interest'[c] = "R" /\ evq \subseteq evq' /\ (Ready(c, "R") => c \in evq')
      BY <1>10 DEF MioTypeOK
    <3>4. \A d \in Clients : Readable(d)' <=> Readable(d)
      BY <3>1 DEF Readable
    <3>5. \A d \in Clients \ {c} : Ready(d, interest[d])' <=> Ready(d, interest[d])
      BY <3>1, <3>2, <3>4 DEF Ready, Writable, Room
    <3>6. Event(SERVER, "R") \in batch => Event(SERVER, "R") \in batch'
      BY <2>1 DEF Event
    <3>7. \A d \in sockets' : Ready(d, interest[d])' => d \in evq' \/ Event(d, "R")' \in batch'
      <4> SUFFICES ASSUME NEW d \in sockets, Ready(d, interest[d])'
                   PROVE  d \in evq' \/ Event(d, "R") \in batch'
        BY <3>1 DEF Event
      <4>1. d \in Clients BY DEF MioTypeOK
      <4>2. CASE d = c BY <3>3, <3>4, <4>1, <4>2 DEF Ready
      <4>3. CASE d # c BY <3>2, <3>3, <3>5, <4>1, <4>3 DEF WakeupInv
      <4> QED BY <4>2, <4>3
    <3> QED BY <1>1, <3>1, <3>3, <3>6, <3>7 DEF WakeupInv, Event
  <2> QED BY <2>3, <2>4, <2>5, <2>6, <2>7
<1> QED BY <1>3, <1>9, <1>10

LEMMA MioNextIInv == MioIInv /\ [MioNext]_mioVars => MioIInv'
<1> SUFFICES ASSUME MioIInv, [MioNext]_mioVars PROVE MioIInv'
  OBVIOUS
<1>1. CASE UNCHANGED mioVars
  BY <1>1 DEF MioIInv, MioTypeOK, EventInv, PeerInv, DataInv, WakeupInv, mioVars, peerVars,
     epollVars,
              Event, Ready, Readable, Writable, Room, TextOnly, Valid
<1>2. CASE MioNext
  BY <1>2, PollIInv, AcceptEventIInv, AcceptIInv, ReadIInv, WriteIInv, MioConnectIInv, MioSendIInv,
     ReadEchoIInv, MioCloseIInv, NetResetIInv DEF MioNext, MioServer, MioClient
<1> QED BY <1>1, <1>2

LEMMA MioSpecIInv == MioSpec => []MioIInv
BY MioInitIInv, MioNextIInv, PTL DEF MioSpec

-----------------------------------------------------------------------------
(* What the server promises *)

\* The three unreachable!() of s_mio_poll.rs (lines 80, 116, 119) are never
\* reached: an event in a batch is always for a client that is in the map.
THEOREM MioNeverUnreachable == MioSpec => []NeverUnreachable
<1>1. MioIInv => NeverUnreachable BY DEF MioIInv, EventInv, NeverUnreachable
<1> QED BY <1>1, MioSpecIInv, PTL

\* As long as a connection lasts, what the client sent is what read_to_string
\* and write_all have echoed, then client.message, then what is unread, unless
\* TCP cut a character; and only whole characters are echoed.
THEOREM MioEchoFaithful == MioSpec => []EchoFaithful
<1>1. MioIInv => EchoFaithful BY DEF MioIInv, DataInv, EchoFaithful
<1> QED BY <1>1, MioSpecIInv, PTL

\* No edge is lost: a socket that is ready for what it is registered for is in
\* epoll's ready list or in the batch that is handled, and a client that waits
\* for accept() will be seen, although each edge is reported once.
THEOREM MioNoWakeupLost == MioSpec => []WakeupInv
<1>1. MioIInv => WakeupInv BY DEF MioIInv
<1> QED BY <1>1, MioSpecIInv, PTL

\* The map loses an entry only if the client hung up, if it left echoes unread
\* so that write_all failed, or in a panic.
THEOREM MioClosedForAReason == MioSpec => ClosedForAReason
<1> DEFINE A == \A c \in sockets \ sockets' :
                  client[c] # "up" \/ Len(message[c]) > Room(c) \/ stage' = "panic"
<1>1. MioIInv /\ [MioNext]_mioVars => [A]_mioVars
  <2> SUFFICES ASSUME MioIInv, MioNext, NEW c \in sockets, c \notin sockets'
               PROVE  client[c] # "up" \/ Len(message[c]) > Room(c) \/ stage' = "panic"
    OBVIOUS
  <2>1. c \in Clients BY DEF MioIInv, MioTypeOK
  <2>2. ASSUME NEW d \in Clients, MioRead(d)
        PROVE  client[c] # "up" \/ stage' = "panic"
    <3>1. d \in sockets BY <2>2, EventIsOwn DEF MioRead, Event
    <3> QED BY <2>1, <2>2, <3>1 DEF MioRead, Crash, Drop
  <2>3. ASSUME NEW d \in Clients, MioWrite(d)
        PROVE  client[c] # "up" \/ Len(message[c]) > Room(c)
    <3>1. d \in sockets BY <2>3, EventIsOwn DEF MioWrite, Event
    <3>2. c = d /\ ~Fits(c) BY <2>1, <2>3, <3>1 DEF MioWrite, Drop
    <3>3. Len(message[c]) \in Nat /\ Room(c) \in Nat
      BY <2>1, MioAssumption DEF MioIInv, MioTypeOK, Room
    <3> QED BY <3>2, <3>3 DEF Fits, Broken, MioIInv, PeerInv
  <2>4. CASE \E d \in Clients : MioClient(d)
    BY <2>4 DEF MioClient, MioConnect, MioSend, ReadEcho, MioClose, NetReset, serverVars
  <2>5. CASE Poll \/ AcceptEvent \/ Accept
    BY <2>5 DEF Poll, AcceptEvent, Accept
  <2> QED BY <2>2, <2>3, <2>4, <2>5 DEF MioNext, MioServer
<1> QED BY <1>1, MioSpecIInv, PTL DEF MioSpec, ClosedForAReason

-----------------------------------------------------------------------------
(***************************************************************************)
(* Wiid: messages, keys, owed clicks and samples, for any number of        *)
(* connections, messages and LEDs.                                         *)
(***************************************************************************)

InClick(c) == at[c] \in {"press", "press_syn", "release", "release_syn"}

\* Only a button message has buttons; a click is for the first message.
MessagesInv ==
  \A c \in Conns :
    /\ at[c] = "idle" => todo[c] = <<>>
    /\ InClick(c) => todo[c] # <<>>
    /\ Len(todo[c]) <= 2
    /\ \A k \in DOMAIN todo[c] : todo[c][k].type # "BTN" => todo[c][k].buttons = {}

\* If no write has failed, a callback takes care of each key that is down or
\* held by a reader: there is one that is going to release it.
KeysInv ==
  failures = 0 =>
    /\ \A k \in keypad.down : \E c \in Conns : at[c] \in {"press_syn", "release"} /\ k \in Key(c)
    /\ \A k \in keypad.told :
         \E c \in Conns : at[c] \in {"press_syn", "release", "release_syn"} /\ k \in Key(c)

\* What is owed covers what callbacks are going to press and what is pressed
\* and not reported.  Nothing is owed but for messages that were handed over.
Pressing == {c \in Conns : at[c] = "press" /\ Key(c) # {}}
Waiting(c) == IF InClick(c) THEN Len(todo[c]) - 1 ELSE Len(todo[c])
Pending == {p \in Conns \X (1..2) : p[2] <= Waiting(p[1])}

OwedInv ==
  /\ Cardinality(Pressing) + Cardinality(keypad.down \ keypad.told) <= owed
  /\ owed + Cardinality(Pending) <= delivered

\* As long as no two callbacks ran at once, one callback at most is running, and
\* if no write has failed either what is owed is what it asked for.
AloneInv ==
  ~overlap =>
    /\ \A c \in Conns : \A d \in Conns : at[c] # "idle" /\ at[d] # "idle" => c = d
    /\ failures = 0 /\ main # "gone" =>
         /\ (\A c \in Conns : at[c] \notin {"press", "press_syn"}) => owed = 0
         /\ \A c \in Conns :
              /\ at[c] \in {"press", "press_syn"} => owed = Cardinality(Key(c)) /\ keypad.told = {}
              /\ at[c] = "press_syn" => keypad.down = Key(c)

\* A sample is older than the one that is on its way, by RATE at least.
Whole(s) == s.axes \X {s}
OnItsWay == [REL_X |-> {}, REL_Y |-> {"REL_X"}, REL_Z |-> {"REL_X", "REL_Y"}, syn |-> Axes]
Present(c) == [time |-> read[c], axes |-> tilt[c]]
Passed(c, axes) == (axes \cap tilt[c]) \X {Present(c)}

SamplesInv ==
  failures = 0 /\ ~overlap =>
    /\ sensor.shown # {} => \E u \in Samples : sensor.shown = Whole(u) /\ u.time <= accTime
    /\ sensor.shown # {} => sensor.before = Never \/ Latest(sensor.shown) >= sensor.before + RATE
    /\ (\A c \in Conns : at[c] \notin DOMAIN OnItsWay) => sensor.open = {}
    /\ \A c \in Conns :
         /\ at[c] = "store" => read[c] >= accTime + RATE
         /\ at[c] \in DOMAIN OnItsWay =>
              /\ accTime = read[c] /\ sensor.open = Passed(c, OnItsWay[at[c]])
              /\ sensor.shown # {} => Latest(sensor.shown) + RATE <= read[c]

WiidIInv == WiidTypeOK /\ MessagesInv /\ KeysInv /\ OwedInv /\ AloneInv /\ SamplesInv

-----------------------------------------------------------------------------
(* Keys, messages and samples *)

LEMMA WiidBounds == /\ LEDS \in Nat \ {0} /\ RATE \in Nat /\ RATE <= MaxTime
                    /\ MaxConns \in Nat /\ MaxMsgs \in Nat /\ MaxTime \in Nat /\ MaxFaults \in Nat
                    /\ Conns = 1..MaxConns /\ IsFiniteSet(Conns) /\ Never = MaxTime + 1
<1>1. /\ LEDS \in Nat \ {0} /\ RATE \in Nat /\ RATE <= MaxTime
      /\ MaxConns \in Nat /\ MaxMsgs \in Nat /\ MaxTime \in Nat /\ MaxFaults \in Nat
  BY WiidAssumption
<1>2. IsFiniteSet(1..MaxConns) BY <1>1, FS_Interval
<1> QED BY <1>1, <1>2 DEF Conns, Never

\* A message asks for one key at most.
LEMMA KeysFacts ==
  ASSUME NEW b \in Held \cup {{}}
  PROVE  /\ Keys(b) \subseteq Mapped /\ IsFiniteSet(Keys(b))
         /\ Cardinality(Keys(b)) \in {0, 1} /\ (Cardinality(Keys(b)) = 0 <=> Keys(b) = {})
<1>1. IsFiniteSet(b) BY WiidAssumption, FS_EmptySet
<1>2. Keys(b) \subseteq b /\ Keys(b) \subseteq Mapped BY DEF Keys
<1>3. IsFiniteSet(Keys(b)) /\ Cardinality(Keys(b)) <= Cardinality(b)
  BY <1>1, <1>2, FS_Subset
<1>4. Cardinality(Keys(b)) \in Nat /\ Cardinality(b) \in Nat
      /\ (Cardinality(Keys(b)) = 0 <=> Keys(b) = {})
  BY <1>1, <1>3, FS_CardinalityType, FS_EmptySet
<1>5. Cardinality(b) = 1 \/ Keys(b) = {} BY DEF Keys
<1> QED BY <1>2, <1>3, <1>4, <1>5

LEMMA NoKeys == Keys({}) = {} /\ Cardinality(Keys({})) = 0
BY FS_EmptySet DEF Keys

LEMMA KeyFacts ==
  ASSUME WiidTypeOK, MessagesInv, NEW c \in Conns, InClick(c)
  PROVE  /\ todo[c] \in Seq(Messages) /\ todo[c] # <<>> /\ Head(todo[c]) \in Messages
         /\ Key(c) \subseteq Mapped /\ IsFiniteSet(Key(c))
         /\ Cardinality(Key(c)) \in {0, 1} /\ (Cardinality(Key(c)) = 0 <=> Key(c) = {})
<1>1. todo[c] \in Seq(Messages) /\ todo[c] # <<>> BY DEF WiidTypeOK, MessagesInv
<1>2. Head(todo[c]) \in Messages BY <1>1
<1>3. Head(todo[c]).buttons \in Held \cup {{}} BY <1>2 DEF Messages
<1> QED BY <1>1, <1>2, <1>3, KeysFacts DEF Key

\* The sets of OwedInv are finite.
LEMMA OwedSets ==
  /\ IsFiniteSet(Pressing) /\ Cardinality(Pressing) \in Nat
  /\ IsFiniteSet(Pending) /\ Cardinality(Pending) \in Nat
  /\ WiidTypeOK => /\ IsFiniteSet(keypad.down \ keypad.told)
                   /\ Cardinality(keypad.down \ keypad.told) \in Nat
<1>1. IsFiniteSet(Pressing) BY WiidBounds, FS_Subset DEF Pressing
<1>2. IsFiniteSet(1..2)
  <2>1. \A a \in Int : \A b \in Int : IsFiniteSet(a..b) BY FS_Interval
  <2>2. 1 \in Int /\ 2 \in Int OBVIOUS
  <2> QED BY <2>1, <2>2, Zenon
<1>3. IsFiniteSet(Conns \X (1..2)) BY <1>2, WiidBounds, FS_Product
<1>4. Pending \subseteq Conns \X (1..2) BY DEF Pending
<1>5. IsFiniteSet(Pending) BY <1>3, <1>4, FS_Subset
<1>6. WiidTypeOK => IsFiniteSet(keypad.down \ keypad.told)
  <2> SUFFICES ASSUME WiidTypeOK PROVE IsFiniteSet(keypad.down \ keypad.told)
    OBVIOUS
  <2>1. keypad.down \ keypad.told \subseteq Mapped BY DEF WiidTypeOK
  <2> QED BY <2>1, WiidAssumption, FS_Subset
<1> QED BY <1>1, <1>5, <1>6, FS_CardinalityType

\* Times are natural numbers up to a bound: a set of them has a last one.
LEMMA LastTime ==
  ASSUME NEW n \in Nat, NEW T, T \subseteq 0..n, T # {}
  PROVE  \E t \in T : \A u \in T : u <= t
<1> DEFINE S == {n - t : t \in T}
<1>1. S \subseteq Nat /\ S # {}
  <2>1. \A t \in T : n - t \in Nat OBVIOUS
  <2>2. PICK t \in T : TRUE OBVIOUS
  <2>3. n - t \in S OBVIOUS
  <2> QED BY <2>1, <2>3
<1>2. PICK m \in S : \A k \in S : ~(<<k, m>> \in OpToRel(<, Nat))
  BY <1>1, NatLessThanWellFounded, WFMin
<1>3. PICK t \in T : m = n - t OBVIOUS
<1>4. ASSUME NEW u \in T PROVE u <= t
  <2>1. n - u \in S /\ n - u \in Nat /\ m \in Nat BY <1>1
  <2>2. ~(n - u < m) BY <1>2, <2>1 DEF OpToRel
  <2> QED BY <1>3, <2>2
<1> QED BY <1>4

LEMMA LatestType ==
  ASSUME NEW events, events \subseteq Axes \X Samples, events # {}
  PROVE  Latest(events) \in 0..MaxTime
<1> DEFINE T == {e[2].time : e \in events}
<1>1. \A e \in events : e[2].time \in 0..MaxTime BY DEF Samples
<1>2. T \subseteq 0..MaxTime /\ T # {} BY <1>1
<1>3. PICK t \in T : \A u \in T : u <= t BY <1>2, WiidBounds, LastTime
<1>4. \E v \in T : \A e \in events : e[2].time <= v BY <1>3
<1>5. Latest(events) \in T BY <1>4 DEF Latest
<1> QED BY <1>2, <1>5

\* A whole sample is as old as each of its axes.
LEMMA LatestWhole ==
  ASSUME NEW s \in Samples, s.axes # {}
  PROVE  Latest(Whole(s)) = s.time /\ Whole(s) # {}
<1>0. s.time \in 0..MaxTime BY DEF Samples
<1>1. PICK x \in s.axes : <<x, s>> \in Whole(s) BY DEF Whole
<1>2. {e[2].time : e \in Whole(s)} = {s.time} BY <1>1 DEF Whole
<1>3. \A e \in Whole(s) : e[2].time <= s.time BY <1>0, WiidBounds DEF Whole
<1> QED BY <1>1, <1>2, <1>3 DEF Latest

-----------------------------------------------------------------------------
(* Every step preserves the invariant *)

LEMMA WiidInitIInv == WiidInit => WiidIInv
<1> SUFFICES ASSUME WiidInit PROVE WiidIInv
  OBVIOUS
<1> USE WiidBounds DEF WiidInit
<1>1. WiidTypeOK
  <2>1. sensor \in [open : SUBSET (Axes \X Samples), shown : SUBSET (Axes \X Samples),
                    before : 0..Never]
    OBVIOUS
  <2>2. <<>> \in Seq(Messages) OBVIOUS
  <2>3. /\ clock \in 0..MaxTime /\ accTime \in 0..MaxTime
        /\ read \in [Conns -> 0..MaxTime] /\ tilt \in [Conns -> Tilts \cup {{}}]
    OBVIOUS
  <2>4. conn \in 0..MaxConns /\ led \in 1..LEDS OBVIOUS
  <2>5. keypad \in [down : SUBSET Mapped, told : SUBSET Mapped] OBVIOUS
  <2>6. delivered \in 0..MaxMsgs /\ failures \in 0..MaxFaults /\ owed \in 0..MaxMsgs OBVIOUS
  <2>7. routed \in [Conns -> BOOLEAN] /\ reported \in [Conns -> SUBSET {"BTN", "ACC"}] OBVIOUS
  <2>8. todo \in [Conns -> Seq(Messages)] BY <2>2
  <2>9. /\ android \in BOOLEAN /\ rpt \subseteq {"BTN", "ACC"} /\ reader \in BOOLEAN
        /\ overlap \in BOOLEAN
    OBVIOUS
  <2> HIDE DEF WiidInit
  <2>10. /\ main = "input" /\ link = [c \in Conns |-> "none"] /\ at = [c \in Conns |-> "idle"]
    BY DEF WiidInit
  <2> QED BY <2>1, <2>3, <2>4, <2>5, <2>6, <2>7, <2>8, <2>9, <2>10 DEF WiidTypeOK
<1>2. MessagesInv BY DEF MessagesInv, InClick
<1>3. KeysInv BY DEF KeysInv
<1>4. OwedInv
  <2>1. Pressing = {} /\ Pending = {} BY DEF Pressing, Pending, Waiting, InClick
  <2>2. keypad.down \ keypad.told = {} OBVIOUS
  <2> QED BY <2>1, <2>2, FS_EmptySet DEF OwedInv
<1>5. AloneInv BY DEF AloneInv
<1>6. SamplesInv BY DEF SamplesInv, OnItsWay
<1> QED BY <1>1, <1>2, <1>3, <1>4, <1>5, <1>6 DEF WiidIInv

\* Steps of main, the remote and test_acc that no callback takes part in.
LEMMA QuietIInv ==
  ASSUME WiidIInv, WiidTypeOK', UNCHANGED <<backVars, accTime, seenVars, noteVars>>,
         main = "gone" => main' = "gone"
  PROVE  WiidIInv'
<1> USE DEF WiidIInv, backVars, seenVars, noteVars
<1>1. MessagesInv' BY DEF MessagesInv, InClick
<1>2. KeysInv' BY DEF KeysInv, Key, Keys
<1>3. OwedInv'
  <2>1. Pressing' = Pressing BY DEF Pressing, Key, Keys
  <2>2. Pending' = Pending BY DEF Pending, Waiting, InClick
  <2> QED BY <2>1, <2>2 DEF OwedInv
<1>4. AloneInv' BY DEF AloneInv, Key, Keys
<1>5. SamplesInv' BY DEF SamplesInv, Latest, Whole, Passed, Present
<1> QED BY <1>1, <1>2, <1>3, <1>4, <1>5

\* The process ends.
LEMMA ExitIInv ==
  ASSUME WiidIInv, WiidTypeOK', Exit, UNCHANGED <<accTime, noteVars>>
  PROVE  WiidIInv'
<1> USE WiidBounds DEF WiidIInv, Exit, noteVars
<1>0. \A c \in Conns : at'[c] = "idle" /\ todo'[c] = <<>> OBVIOUS
<1>1. MessagesInv' BY <1>0 DEF MessagesInv, InClick
<1>2. KeysInv' BY DEF KeysInv
<1>3. OwedInv'
  <2>1. Pressing' = {} BY <1>0 DEF Pressing
  <2>2. Pending' = {} BY <1>0 DEF Pending, Waiting, InClick
  <2>3. keypad'.down \ keypad'.told = {} OBVIOUS
  <2>4. owed \in Nat /\ delivered \in Nat BY DEF WiidTypeOK
  <2> QED BY <2>1, <2>2, <2>3, <2>4, FS_EmptySet, OwedSets DEF OwedInv
<1>4. AloneInv' BY <1>0 DEF AloneInv
<1>5. SamplesInv'
  <2>1. sensor'.open = {} /\ sensor'.shown = sensor.shown /\ sensor'.before = sensor.before
    BY DEF WiidTypeOK
  <2>2. \A c \in Conns : at'[c] \notin DOMAIN OnItsWay /\ at'[c] # "store" BY <1>0 DEF OnItsWay
  <2> QED BY <2>1, <2>2 DEF SamplesInv, Latest, Whole
<1> QED BY <1>1, <1>2, <1>3, <1>4, <1>5

LEMMA ExitTypeOK ==
  ASSUME WiidTypeOK, Exit
  PROVE  /\ main' = "gone"
         /\ read' \in [Conns -> 0..MaxTime] /\ tilt' \in [Conns -> Tilts \cup {{}}]
         /\ at' \in [Conns -> {"idle", "next", "press", "press_syn", "release", "release_syn",
                               "clock", "compare", "store", "syn"} \cup Axes]
         /\ todo' \in [Conns -> Seq(Messages)]
         /\ keypad' \in [down : SUBSET Mapped, told : SUBSET Mapped]
         /\ sensor' \in [open : SUBSET (Axes \X Samples), shown : SUBSET (Axes \X Samples),
                         before : 0..Never]
<1> USE WiidBounds DEF Exit, WiidTypeOK
<1>1. <<>> \in Seq(Messages) OBVIOUS
<1>2. sensor' \in [open : SUBSET (Axes \X Samples), shown : SUBSET (Axes \X Samples),
                   before : 0..Never]
  OBVIOUS
<1>3. todo' \in [Conns -> Seq(Messages)] BY <1>1
<1>4. keypad' \in [down : SUBSET Mapped, told : SUBSET Mapped] OBVIOUS
<1>5. read' \in [Conns -> 0..MaxTime] /\ tilt' \in [Conns -> Tilts \cup {{}}] OBVIOUS
<1> HIDE DEF WiidTypeOK
<1> QED BY <1>2, <1>3, <1>4, <1>5

LEMMA InitDeviceIInv ==
  ASSUME WiidIInv, NEW which, NEW next \in {"acc", "start"}, which # "gone", InitDevice(which, next)
  PROVE  WiidIInv'
<1> USE DEF InitDevice, linkVars, timeVars, noteVars
<1>1. CASE main' = next /\ UNCHANGED <<backVars, seenVars>>
  <2>1. WiidTypeOK' BY <1>1 DEF WiidIInv, WiidTypeOK, backVars, seenVars
  <2> QED BY <1>1, <2>1, QuietIInv
<1>2. CASE Exit
  <2>1. WiidTypeOK' BY <1>2, ExitTypeOK DEF WiidIInv, WiidTypeOK
  <2> QED BY <1>2, <2>1, ExitIInv
<1> QED BY <1>1, <1>2

LEMMA WiidConnectIInv == ASSUME WiidIInv, Connect PROVE WiidIInv'
<1> USE WiidBounds DEF Connect, backVars, timeVars, seenVars, noteVars
<1>1. WiidTypeOK' BY DEF WiidIInv, WiidTypeOK
<1> QED BY <1>1, QuietIInv

LEMMA RouteIInv ==
  ASSUME WiidIInv, NEW where, NEW before, NEW next \in {"enable", "rpt_btn"}, where # "gone",
         Route(where, before, next)
  PROVE  WiidIInv'
<1> USE WiidBounds DEF Route, backVars, timeVars, seenVars, noteVars
<1>1. PICK done \in BOOLEAN : routed' = [routed EXCEPT ![conn] = before /\ done] OBVIOUS
<1>2. (before /\ done) \in BOOLEAN OBVIOUS
<1>3. routed' \in [Conns -> BOOLEAN] BY <1>1, <1>2 DEF WiidIInv, WiidTypeOK
<1>4. WiidTypeOK' BY <1>3 DEF WiidIInv, WiidTypeOK
<1> QED BY <1>4, QuietIInv

LEMMA SetReportIInv ==
  ASSUME WiidIInv, NEW where, NEW what \in {"BTN", "ACC"}, NEW next \in {"rpt_acc", "led"},
         where # "gone", SetReport(where, what, next)
  PROVE  WiidIInv'
<1> USE WiidBounds DEF SetReport, backVars, timeVars, seenVars, noteVars
<1>1. rpt' \subseteq {"BTN", "ACC"} BY DEF WiidIInv, WiidTypeOK
<1>2. reported' \in [Conns -> SUBSET {"BTN", "ACC"}]
  <2>1. reported \in [Conns -> SUBSET {"BTN", "ACC"}] BY DEF WiidIInv, WiidTypeOK
  <2>2. CASE reported' = [reported EXCEPT ![conn] = rpt'] BY <1>1, <2>1, <2>2
  <2> QED BY <2>1, <2>2
<1>3. WiidTypeOK' BY <1>1, <1>2 DEF WiidIInv, WiidTypeOK
<1> QED BY <1>3, QuietIInv

LEMMA SetLedIInv == ASSUME WiidIInv, SetLed PROVE WiidIInv'
<1> USE WiidBounds DEF SetLed, linkVars, backVars, timeVars, seenVars, noteVars
<1>1. led' \in 1..LEDS
  <2>1. \A n \in Nat \ {0} : \A l \in 1..n : (l % n) + 1 \in 1..n /\ 1 \in 1..n OBVIOUS
  <2>2. led \in 1..LEDS BY DEF WiidIInv, WiidTypeOK
  <2> QED BY <2>1, <2>2
<1>2. WiidTypeOK' BY <1>1 DEF WiidIInv, WiidTypeOK
<1> QED BY <1>2, QuietIInv

LEMMA WiidCloseIInv == ASSUME WiidIInv, Close PROVE WiidIInv'
<1> USE WiidBounds DEF Close, timeVars, noteVars
<1>0. /\ link' \in [Conns -> {"none", "up", "lost", "closed"}]
      /\ routed' \in [Conns -> BOOLEAN] /\ reported' \in [Conns -> SUBSET {"BTN", "ACC"}]
  BY DEF WiidIInv, WiidTypeOK
<1>1. CASE main' = "start" /\ UNCHANGED <<backVars, seenVars>>
  <2>1. WiidTypeOK' BY <1>0, <1>1 DEF WiidIInv, WiidTypeOK, backVars, seenVars
  <2> QED BY <1>1, <2>1, QuietIInv
<1>2. CASE Exit
  <2>1. WiidTypeOK' BY <1>0, <1>2, ExitTypeOK DEF WiidIInv, WiidTypeOK
  <2> QED BY <1>2, <2>1, ExitIInv
<1> QED BY <1>1, <1>2

LEMMA OutsideIInv ==
  ASSUME WiidIInv, Tick \/ Look \/ ReadFails \/ \E c \in Conns : Lose(c)
  PROVE  WiidIInv'
<1> USE WiidBounds DEF mainVars, linkVars, backVars, timeVars, seenVars, noteVars
<1>1. CASE Tick
  <2>1. clock' \in 0..MaxTime BY <1>1 DEF WiidIInv, WiidTypeOK, Tick
  <2>2. WiidTypeOK' BY <1>1, <2>1 DEF WiidIInv, WiidTypeOK, Tick
  <2> QED BY <1>1, <2>2, QuietIInv DEF Tick
<1>2. CASE Look \/ ReadFails
  <2>1. WiidTypeOK' BY <1>2 DEF WiidIInv, WiidTypeOK, Look, ReadFails
  <2> QED BY <1>2, <2>1, QuietIInv DEF Look, ReadFails
<1>3. CASE \E c \in Conns : Lose(c)
  <2>1. WiidTypeOK' BY <1>3 DEF WiidIInv, WiidTypeOK, Lose
  <2> QED BY <1>3, <2>1, QuietIInv DEF Lose
<1> QED BY <1>1, <1>2, <1>3

\* One more element.
LEMMA OneMore ==
  ASSUME NEW S, IsFiniteSet(S), NEW x
  PROVE  /\ IsFiniteSet(S \cup {x}) /\ Cardinality(S) \in Nat /\ Cardinality(S \cup {x}) \in Nat
         /\ Cardinality(S \cup {x}) <= Cardinality(S) + 1
BY FS_AddElement, FS_CardinalityType

\* The invariants of single callbacks, when only the one of c goes on.
LEMMA MessagesOfOne ==
  ASSUME MessagesInv, NEW c \in Conns,
         \A d \in Conns \ {c} : at'[d] = at[d] /\ todo'[d] = todo[d],
         at'[c] = "idle" => todo'[c] = <<>>,
         InClick(c)' => todo'[c] # <<>>,
         Len(todo'[c]) <= 2,
         \A k \in DOMAIN todo'[c] : todo'[c][k].type # "BTN" => todo'[c][k].buttons = {}
  PROVE  MessagesInv'
<1> SUFFICES ASSUME NEW d \in Conns
             PROVE  /\ at'[d] = "idle" => todo'[d] = <<>>
                    /\ InClick(d)' => todo'[d] # <<>>
                    /\ Len(todo'[d]) <= 2
                    /\ \A k \in DOMAIN todo'[d] : todo'[d][k].type # "BTN" => todo'[d][k].buttons = {}
  BY DEF MessagesInv
<1>1. CASE d = c BY <1>1
<1>2. CASE d # c
  <2>1. at'[d] = at[d] /\ todo'[d] = todo[d] BY <1>2
  <2>2. InClick(d)' <=> InClick(d) BY <2>1 DEF InClick
  <2> QED BY <2>1, <2>2 DEF MessagesInv
<1> QED BY <1>1, <1>2

LEMMA SamplesOfOne ==
  ASSUME SamplesInv, NEW c \in Conns, UNCHANGED <<sensor, accTime>>,
         failures' = 0 => failures = 0, overlap => overlap',
         \A d \in Conns \ {c} : at'[d] = at[d] /\ read'[d] = read[d] /\ tilt'[d] = tilt[d],
         at[c] \notin DOMAIN OnItsWay, at'[c] \notin DOMAIN OnItsWay \cup {"store"}
  PROVE  SamplesInv'
<1> SUFFICES ASSUME failures = 0, ~overlap, failures' = 0, ~overlap' PROVE SamplesInv'
  BY DEF SamplesInv
<1>1. DOMAIN OnItsWay = {"REL_X", "REL_Y", "REL_Z", "syn"} BY DEF OnItsWay
<1>2. sensor.shown # {} => \E u \in Samples : sensor.shown = Whole(u) /\ u.time <= accTime
  BY DEF SamplesInv
<1>3. sensor.shown # {} => sensor.before = Never \/ Latest(sensor.shown) >= sensor.before + RATE
  BY DEF SamplesInv
<1>4. (\A d \in Conns : at'[d] \notin DOMAIN OnItsWay) => sensor.open = {}
  <2> SUFFICES ASSUME \A d \in Conns : at'[d] \notin DOMAIN OnItsWay PROVE sensor.open = {}
    OBVIOUS
  <2>1. \A d \in Conns : at[d] \notin DOMAIN OnItsWay OBVIOUS
  <2> QED BY <2>1 DEF SamplesInv
<1>5. ASSUME NEW d \in Conns
      PROVE  /\ at'[d] = "store" => read'[d] >= accTime + RATE
             /\ at'[d] \in DOMAIN OnItsWay =>
                  /\ accTime = read'[d] /\ sensor.open = Passed(d, OnItsWay[at[d]])'
                  /\ sensor.shown # {} => Latest(sensor.shown) + RATE <= read'[d]
  <2>1. CASE d = c BY <2>1
  <2>2. CASE d # c
    <3>1. at'[d] = at[d] /\ read'[d] = read[d] /\ tilt'[d] = tilt[d] BY <2>2
    <3>2. Passed(d, OnItsWay[at[d]])' = Passed(d, OnItsWay[at[d]])
      BY <3>1 DEF Passed, Present, OnItsWay
    <3> QED BY <3>1, <3>2 DEF SamplesInv
  <2> QED BY <2>1, <2>2
<1>6. sensor' = sensor /\ accTime' = accTime OBVIOUS
<1>7. Latest(sensor.shown)' = Latest(sensor.shown) BY <1>6 DEF Latest
<1> QED BY <1>2, <1>3, <1>4, <1>5, <1>6, <1>7 DEF SamplesInv, Whole

\* What a remote may send.
LEMMA SendableType ==
  ASSUME NEW c \in Conns
  PROVE  /\ Sendable(c) \subseteq Messages
         /\ \A m \in Sendable(c) : m.type # "BTN" => m.buttons = {}
BY DEF Sendable, Message, Messages

LEMMA DeliverIInv == ASSUME WiidIInv, NEW c \in Conns, Deliver(c) PROVE WiidIInv'
<1> USE WiidBounds DEF WiidIInv
<1>1. PICK mesg \in {<<m>> : m \in Sendable(c)} \cup Sendable(c) \X Sendable(c) :
        /\ delivered + Len(mesg) <= MaxMsgs /\ delivered' = delivered + Len(mesg)
        /\ todo' = [todo EXCEPT ![c] = mesg]
  BY DEF Deliver
<1>2. /\ mesg \in Seq(Messages) /\ Len(mesg) \in 1..2
      /\ \A k \in DOMAIN mesg : mesg[k].type # "BTN" => mesg[k].buttons = {}
  <2>1. CASE mesg \in {<<m>> : m \in Sendable(c)}
    <3>1. PICK m \in Sendable(c) : mesg = <<m>> BY <2>1
    <3>2. m \in Messages BY SendableType
    <3>3. DOMAIN mesg = {1} /\ Len(mesg) = 1 /\ mesg[1] = m BY <3>1
    <3> QED BY <3>1, <3>2, <3>3, SendableType
  <2>2. CASE mesg \in Sendable(c) \X Sendable(c)
    <3>1. PICK m \in Sendable(c), n \in Sendable(c) : mesg = <<m, n>> BY <2>2
    <3>2. m \in Messages /\ n \in Messages BY SendableType
    <3>3. DOMAIN mesg = {1, 2} /\ Len(mesg) = 2 /\ mesg[1] = m /\ mesg[2] = n BY <3>1
    <3> QED BY <3>1, <3>2, <3>3, SendableType
  <2> QED BY <1>1, <2>1, <2>2
<1>3. /\ at' = [at EXCEPT ![c] = "next"] /\ at[c] = "idle" /\ main # "gone"
      /\ overlap' = (overlap \/ \E d \in Conns \ {c} : at[d] # "idle")
      /\ UNCHANGED <<mainVars, linkVars, read, tilt, timeVars, seenVars, owed, failures, reader>>
  BY DEF Deliver
<1>4. /\ at'[c] = "next" /\ todo'[c] = mesg
      /\ \A d \in Conns \ {c} : at'[d] = at[d] /\ todo'[d] = todo[d]
  BY <1>1, <1>3 DEF WiidTypeOK
<1> USE <1>3 DEF mainVars, linkVars, timeVars, seenVars
<1>5. WiidTypeOK'
  <2>1. todo' \in [Conns -> Seq(Messages)] BY <1>1, <1>2 DEF WiidTypeOK
  <2>2. delivered' \in 0..MaxMsgs BY <1>1, <1>2 DEF WiidTypeOK
  <2>3. overlap' \in BOOLEAN BY DEF WiidTypeOK
  <2> QED BY <2>1, <2>2, <2>3 DEF WiidTypeOK
<1>6. \A d \in Conns \ {c} : Key(d)' = Key(d) /\ InClick(d)' = InClick(d)
  BY <1>4 DEF Key, Keys, InClick
<1>7. ~InClick(c)' /\ ~InClick(c) BY <1>4 DEF InClick
<1>8. MessagesInv'
  <2>1. Len(mesg) <= 2 /\ "next" # "idle" BY <1>2
  <2>2. at'[c] # "idle" /\ Len(todo'[c]) <= 2 BY <1>4, <2>1, Zenon
  <2> QED BY <1>2, <1>4, <1>7, <2>2, MessagesOfOne
<1>9. KeysInv' BY <1>4, <1>6 DEF KeysInv
<1>10. OwedInv'
  <2>1. Pressing' = Pressing BY <1>4, <1>6 DEF Pressing
  <2>2. Waiting(c)' = Len(mesg) /\ Waiting(c) = 0 /\ \A d \in Conns \ {c} : Waiting(d)' = Waiting(d)
    BY <1>4, <1>6, <1>7 DEF Waiting, MessagesInv
  <2>3. CASE Len(mesg) = 1
    <3>1. Pending' \subseteq Pending \cup {<<c, 1>>} BY <2>2, <2>3 DEF Pending
    <3>2. IsFiniteSet(Pending \cup {<<c, 1>>})
          /\ Cardinality(Pending \cup {<<c, 1>>}) <= Cardinality(Pending) + 1
      BY OwedSets, OneMore
    <3>3. Cardinality(Pending') <= Cardinality(Pending) + 1 /\ Cardinality(Pending') \in Nat
      BY <3>1, <3>2, FS_Subset, FS_CardinalityType, OwedSets
    <3> QED BY <1>1, <2>1, <2>3, <3>3, OwedSets DEF OwedInv, WiidTypeOK
  <2>4. CASE Len(mesg) = 2
    <3>1. Pending' \subseteq (Pending \cup {<<c, 1>>}) \cup {<<c, 2>>} BY <2>2, <2>4 DEF Pending
    <3>2. IsFiniteSet(Pending \cup {<<c, 1>>})
          /\ Cardinality(Pending \cup {<<c, 1>>}) <= Cardinality(Pending) + 1
      BY OwedSets, OneMore
    <3>3. /\ IsFiniteSet((Pending \cup {<<c, 1>>}) \cup {<<c, 2>>})
          /\ Cardinality((Pending \cup {<<c, 1>>}) \cup {<<c, 2>>})
               <= Cardinality(Pending \cup {<<c, 1>>}) + 1
          /\ Cardinality(Pending \cup {<<c, 1>>}) \in Nat
      BY <3>2, OneMore
    <3>4. Cardinality(Pending') <= Cardinality(Pending) + 2 /\ Cardinality(Pending') \in Nat
      BY <3>1, <3>2, <3>3, FS_Subset, FS_CardinalityType, OwedSets
    <3>5. /\ delivered' = delivered + 2 /\ owed' = owed
          /\ owed \in Nat /\ delivered \in Nat
      BY <1>1, <2>4 DEF WiidTypeOK
    <3> QED BY <2>1, <3>4, <3>5, OwedSets DEF OwedInv
  <2> QED BY <1>2, <2>3, <2>4
<1>11. AloneInv'
  <2> SUFFICES ASSUME ~overlap, \A d \in Conns \ {c} : at[d] = "idle" PROVE AloneInv'
    BY DEF AloneInv
  <2>1. \A d \in Conns : at[d] = "idle" /\ at'[d] \in {"idle", "next"} BY <1>4
  <2>2. \A d \in Conns : \A e \in Conns : at'[d] # "idle" /\ at'[e] # "idle" => d = e BY <1>4
  <2>3. failures = 0 => owed = 0 BY <2>1 DEF AloneInv
  <2> QED BY <2>1, <2>2, <2>3 DEF AloneInv
<1>12. SamplesInv'
  <2>1. at[c] \notin DOMAIN OnItsWay /\ at'[c] \notin DOMAIN OnItsWay \cup {"store"}
    BY <1>4 DEF OnItsWay
  <2> QED BY <1>4, <2>1, SamplesOfOne
<1> QED BY <1>5, <1>8, <1>9, <1>10, <1>11, <1>12

LEMMA HandleIInv == ASSUME WiidIInv, NEW c \in Conns, Handle(c) PROVE WiidIInv'
<1> USE WiidBounds DEF WiidIInv, mainVars, linkVars, timeVars, seenVars
<1>1. /\ at[c] = "next" /\ ~InClick(c) /\ todo[c] \in Seq(Messages) /\ Len(todo[c]) <= 2
      /\ UNCHANGED <<mainVars, linkVars, read, tilt, timeVars, seenVars, delivered, failures,
                     overlap, reader>>
  BY DEF Handle, InClick, WiidTypeOK, MessagesInv
<1>2. CASE todo[c] = <<>> /\ WiidGoto(c, "idle") /\ UNCHANGED <<todo, owed>>
  <2> USE <1>1, <1>2 DEF WiidGoto
  <2>1. at'[c] = "idle" /\ \A d \in Conns \ {c} : at'[d] = at[d] BY DEF WiidTypeOK
  <2>2. WiidTypeOK' BY DEF WiidTypeOK
  <2>3. \A d \in Conns : Key(d)' = Key(d) /\ InClick(d)' = InClick(d)
    BY <2>1 DEF Key, Keys, InClick
  <2>4. MessagesInv' BY <2>1, <2>3 DEF MessagesInv
  <2>5. KeysInv' BY <2>1, <2>3 DEF KeysInv
  <2>6. Pressing' = Pressing BY <2>1, <2>3 DEF Pressing
  <2>7. Pending' = Pending BY <2>3 DEF Pending, Waiting
  <2>8. OwedInv' BY <2>6, <2>7 DEF OwedInv
  <2>9. AloneInv' BY <2>1, <2>3 DEF AloneInv
  <2>10. SamplesInv'
    <3>1. at[c] \notin DOMAIN OnItsWay /\ at'[c] \notin DOMAIN OnItsWay \cup {"store"}
      BY <2>1 DEF OnItsWay
    <3> QED BY <2>1, <3>1, SamplesOfOne
  <2> QED BY <2>2, <2>4, <2>5, <2>8, <2>9, <2>10
<1>3. CASE todo[c] # <<>>
  <2> DEFINE m == Head(todo[c])
             to == CASE m.type = "BTN" -> "press"
                     [] m.type = "ACC" -> "clock"
                     [] m.type = "OTHER" -> "next"
  <2>1. /\ m \in Messages /\ m = todo[c][1] /\ 1 \in DOMAIN todo[c]
        /\ Tail(todo[c]) \in Seq(Messages) /\ Len(Tail(todo[c])) = Len(todo[c]) - 1
        /\ \A k \in DOMAIN Tail(todo[c]) : k + 1 \in DOMAIN todo[c] /\ Tail(todo[c])[k] = todo[c][k + 1]
        /\ Len(todo[c]) \in 1..2
    <3>0. \A s \in Seq(Messages) : DOMAIN s = 1..Len(s) /\ Len(s) \in Nat /\ (s # <<>> => Len(s) # 0)
      OBVIOUS
    <3>1. Len(todo[c]) \in 1..2 /\ DOMAIN todo[c] = 1..Len(todo[c])
      <4>1. DOMAIN todo[c] = 1..Len(todo[c]) /\ Len(todo[c]) \in Nat /\ Len(todo[c]) # 0
        BY <1>1, <1>3, <3>0, Zenon
      <4>2. \A n \in Nat : n # 0 /\ n <= 2 => n \in 1..2 OBVIOUS
      <4> QED BY <1>1, <4>1, <4>2, Zenon
    <3>2. /\ Tail(todo[c]) \in Seq(Messages) /\ Len(Tail(todo[c])) = Len(todo[c]) - 1
          /\ \A k \in 1..Len(Tail(todo[c])) : Tail(todo[c])[k] = todo[c][k + 1]
      BY <1>1, <1>3
    <3>3. DOMAIN Tail(todo[c]) = 1..Len(Tail(todo[c])) BY <3>2
    <3>4. m = todo[c][1] /\ 1 \in DOMAIN todo[c] BY <1>3, <3>1
    <3>5. m \in Messages BY <1>1, <3>4
    <3>6. \A k \in DOMAIN Tail(todo[c]) : k + 1 \in DOMAIN todo[c] BY <3>1, <3>2, <3>3
    <3> QED BY <3>1, <3>2, <3>3, <3>4, <3>5, <3>6
  <2>2. m.type \in {"BTN", "ACC", "OTHER"} /\ m.buttons \in Held \cup {{}}
        /\ (m.type # "BTN" => m.buttons = {})
    BY <2>1 DEF Messages, MessagesInv
  <2>3. /\ to \in {"press", "clock", "next"} /\ (m.type = "BTN" <=> to = "press")
    BY <2>2
  <2>4. /\ WiidGoto(c, to)
        /\ todo' = IF m.type = "BTN" THEN todo ELSE [todo EXCEPT ![c] = Tail(@)]
        /\ owed' = owed + Cardinality(Keys(m.buttons))
    BY <1>3 DEF Handle
  <2>5. /\ Cardinality(Keys(m.buttons)) \in {0, 1}
        /\ (Cardinality(Keys(m.buttons)) = 0 <=> Keys(m.buttons) = {})
        /\ m.type # "BTN" => Cardinality(Keys(m.buttons)) = 0
    BY <2>2, KeysFacts, NoKeys
  <2> HIDE DEF to
  <2>6. /\ at'[c] = to /\ \A d \in Conns \ {c} : at'[d] = at[d] /\ todo'[d] = todo[d]
        /\ todo'[c] = IF m.type = "BTN" THEN todo[c] ELSE Tail(todo[c])
    BY <2>4 DEF WiidTypeOK, WiidGoto
  <2>7. /\ \A d \in Conns \ {c} : Key(d)' = Key(d) /\ InClick(d)' = InClick(d)
        /\ InClick(c)' <=> m.type = "BTN"
        /\ m.type = "BTN" => Key(c)' = Keys(m.buttons)
    BY <2>3, <2>6 DEF Key, Keys, InClick
  <2>8. MessagesInv'
    <3>1. /\ at'[c] # "idle" /\ Len(todo'[c]) <= 2
          /\ InClick(c)' => todo'[c] # <<>>
          /\ \A k \in DOMAIN todo'[c] : todo'[c][k].type # "BTN" => todo'[c][k].buttons = {}
      BY <1>3, <2>1, <2>3, <2>6, <2>7 DEF MessagesInv
    <3> QED BY <2>6, <3>1, MessagesOfOne
  <2>9. KeysInv' BY <1>1, <2>3, <2>6, <2>7 DEF KeysInv
  <2>10. Waiting(c) = Len(todo[c]) /\ Waiting(c)' = Len(todo[c]) - 1
         /\ \A d \in Conns \ {c} : Waiting(d)' = Waiting(d)
    BY <1>1, <2>1, <2>6, <2>7 DEF Waiting
  <2>11. Cardinality(Pending') = Cardinality(Pending) - 1 /\ Cardinality(Pending') \in Nat
    <3> DEFINE p == <<c, Len(todo[c])>>
    <3>1. p \in Pending
      <4>1. p \in Conns \X (1..2) BY <2>1
      <4> QED BY <2>1, <2>10, <4>1 DEF Pending
    <3>2. Pending' = Pending \ {p} BY <2>1, <2>10 DEF Pending
    <3> QED BY <3>1, <3>2, OwedSets, FS_RemoveElement, FS_CardinalityType
  <2>12. Cardinality(Pressing') <= Cardinality(Pressing) + Cardinality(Keys(m.buttons))
         /\ Cardinality(Pressing') \in Nat
    <3>1. CASE m.type = "BTN" /\ Keys(m.buttons) # {}
      <4>1. Pressing' = Pressing \cup {c} BY <1>1, <2>3, <2>6, <2>7, <3>1 DEF Pressing
      <4> QED BY <2>5, <3>1, <4>1, OwedSets, OneMore
    <3>2. CASE ~(m.type = "BTN" /\ Keys(m.buttons) # {})
      <4>1. Pressing' = Pressing BY <1>1, <2>3, <2>6, <2>7, <3>2 DEF Pressing
      <4> QED BY <2>5, <4>1, OwedSets
    <3> QED BY <3>1, <3>2
  <2>13. OwedInv'
    <3>1. owed \in Nat /\ delivered \in Nat /\ keypad' = keypad /\ delivered' = delivered
      BY <1>1 DEF WiidTypeOK
    <3>2. /\ Cardinality(keypad.down \ keypad.told) \in Nat /\ Cardinality(Pressing) \in Nat
          /\ Cardinality(Pending) \in Nat
      BY OwedSets
    <3>3. /\ Cardinality(Pressing) + Cardinality(keypad.down \ keypad.told) <= owed
          /\ owed + Cardinality(Pending) <= delivered
      BY DEF OwedInv
    <3> DEFINE n == Cardinality(Keys(m.buttons))
    <3>4. n \in {0, 1} /\ owed' = owed + n /\ Cardinality(Pressing') <= Cardinality(Pressing) + n
      BY <2>4, <2>5, <2>12
    <3> HIDE DEF n
    <3>5. Cardinality(Pressing') + Cardinality(keypad.down \ keypad.told) <= owed'
      BY <2>12, <3>1, <3>2, <3>3, <3>4
    <3>6. owed' + Cardinality(Pending') <= delivered' BY <2>11, <3>1, <3>2, <3>3, <3>4
    <3> QED BY <3>1, <3>5, <3>6 DEF OwedInv
  <2>14. owed' \in 0..MaxMsgs
    <3>1. owed \in Nat /\ delivered \in 0..MaxMsgs /\ delivered' = delivered BY <1>1 DEF WiidTypeOK
    <3>2. owed' \in Nat BY <2>4, <2>5, <3>1
    <3> QED BY <2>11, <2>13, <3>1, <3>2 DEF OwedInv
  <2>15. WiidTypeOK'
    <3>1. todo' \in [Conns -> Seq(Messages)] BY <1>1, <2>1, <2>4 DEF WiidTypeOK
    <3>2. at' \in [Conns -> {"idle", "next", "press", "press_syn", "release", "release_syn",
                             "clock", "compare", "store", "syn"} \cup Axes]
      BY <2>3, <2>4 DEF WiidTypeOK, WiidGoto
    <3> QED BY <1>1, <2>14, <3>1, <3>2 DEF WiidTypeOK
  <2>16. AloneInv'
    <3> SUFFICES ASSUME ~overlap PROVE AloneInv'
      BY <1>1 DEF AloneInv
    <3>1. \A d \in Conns : d # c => at[d] = "idle" /\ at'[d] = "idle" BY <1>1, <2>6 DEF AloneInv
    <3>2. \A d \in Conns : \A e \in Conns : at'[d] # "idle" /\ at'[e] # "idle" => d = e
      BY <3>1
    <3> SUFFICES ASSUME failures = 0, main # "gone"
                 PROVE  /\ (\A d \in Conns : at'[d] \notin {"press", "press_syn"}) => owed' = 0
                        /\ \A d \in Conns :
                             /\ at'[d] \in {"press", "press_syn"} =>
                                  owed' = Cardinality(Key(d)') /\ keypad'.told = {}
                             /\ at'[d] = "press_syn" => keypad'.down = Key(d)'
      BY <1>1, <3>2 DEF AloneInv
    <3>3. \A d \in Conns : at[d] \notin {"press", "press_syn", "release", "release_syn"}
      BY <1>1, <3>1
    <3>4. owed = 0 BY <3>3 DEF AloneInv
    <3>5. keypad.told = {} /\ keypad' = keypad BY <1>1, <3>3 DEF KeysInv
    <3>6. owed' = Cardinality(Keys(m.buttons)) BY <2>4, <2>5, <3>4
    <3> QED BY <2>3, <2>5, <2>6, <2>7, <3>1, <3>5, <3>6
  <2>17. SamplesInv'
    <3>1. at[c] \notin DOMAIN OnItsWay /\ at'[c] \notin DOMAIN OnItsWay \cup {"store"}
      BY <1>1, <2>3, <2>6 DEF OnItsWay
    <3> QED BY <1>1, <2>6, <3>1, SamplesOfOne
  <2> QED BY <2>8, <2>9, <2>13, <2>15, <2>16, <2>17
<1> QED BY <1>2, <1>3 DEF Handle

\* What any write of a callback to the keypad leaves alone.
LEMMA WriteFrame ==
  ASSUME WiidIInv, NEW c \in Conns, NEW where \in {"press", "press_syn", "release", "release_syn"},
         NEW next \in {"press_syn", "release", "release_syn", "next"}, NEW effect,
         Write(c, where, next, effect)
  PROVE  /\ at[c] = where /\ InClick(c) /\ at'[c] \in {next, "next"}
         /\ \A d \in Conns \ {c} : at'[d] = at[d] /\ Key(d)' = Key(d)
         /\ at'[c] # "next" => Key(c)' = Key(c)
         /\ MessagesInv' /\ Pending' = Pending /\ Pressing' = Pressing \ {c} /\ SamplesInv'
         /\ keypad' \in [down : SUBSET Mapped, told : SUBSET Mapped] /\ failures' \in 0..MaxFaults
              /\ owed' \in 0..MaxMsgs => WiidTypeOK'
<1> USE WiidBounds DEF WiidIInv
<1>1. /\ at[c] = where /\ InClick(c)
      /\ \E to \in {next, "next"} : WiidGoto(c, to)
      /\ failures' = failures \/ failures' = failures + 1
      /\ todo' = [todo EXCEPT ![c] = IF at'[c] = "next" THEN Tail(@) ELSE @]
      /\ UNCHANGED <<mainVars, linkVars, read, tilt, timeVars, sensor, delivered, overlap, reader>>
  BY DEF Write, InClick
<1>2. /\ at'[c] \in {next, "next"} /\ \A d \in Conns \ {c} : at'[d] = at[d] /\ todo'[d] = todo[d]
      /\ todo'[c] = IF at'[c] = "next" THEN Tail(todo[c]) ELSE todo[c]
  BY <1>1 DEF WiidTypeOK, WiidGoto
<1>3. /\ todo[c] \in Seq(Messages) /\ todo[c] # <<>> /\ Len(todo[c]) <= 2
      /\ \A k \in DOMAIN todo[c] : todo[c][k].type # "BTN" => todo[c][k].buttons = {}
  BY <1>1, KeyFacts DEF MessagesInv
<1>4. \A s \in Seq(Messages) :
        s # <<>> => /\ Tail(s) \in Seq(Messages) /\ Len(s) \in Nat /\ Len(Tail(s)) = Len(s) - 1
                    /\ \A k \in DOMAIN Tail(s) : k + 1 \in DOMAIN s /\ Tail(s)[k] = s[k + 1]
  <2> SUFFICES ASSUME NEW s \in Seq(Messages), s # <<>>
               PROVE  /\ Tail(s) \in Seq(Messages) /\ Len(s) \in Nat /\ Len(Tail(s)) = Len(s) - 1
                      /\ \A k \in DOMAIN Tail(s) : k + 1 \in DOMAIN s /\ Tail(s)[k] = s[k + 1]
    OBVIOUS
  <2>1. /\ Tail(s) \in Seq(Messages) /\ Len(s) \in Nat /\ Len(Tail(s)) = Len(s) - 1
        /\ DOMAIN Tail(s) = 1..Len(Tail(s)) /\ DOMAIN s = 1..Len(s)
    OBVIOUS
  <2>2. \A k \in 1..Len(Tail(s)) : Tail(s)[k] = s[k + 1] OBVIOUS
  <2>3. \A k \in 1..Len(Tail(s)) : k + 1 \in 1..Len(s) BY <2>1
  <2> QED BY <2>1, <2>2, <2>3
<1>5. /\ Tail(todo[c]) \in Seq(Messages) /\ Len(todo[c]) \in Nat /\ Len(Tail(todo[c])) = Len(todo[c]) - 1
      /\ \A k \in DOMAIN Tail(todo[c]) : k + 1 \in DOMAIN todo[c] /\ Tail(todo[c])[k] = todo[c][k + 1]
  BY <1>3, <1>4, Zenon
<1>6. /\ \A d \in Conns \ {c} : Key(d)' = Key(d) /\ InClick(d)' = InClick(d)
      /\ at'[c] # "next" => Key(c)' = Key(c)
      /\ InClick(c)' <=> at'[c] # "next"
  BY <1>2 DEF Key, Keys, InClick
<1>7. MessagesInv'
  <2>1. Len(todo[c]) - 1 <= 2 BY <1>3, <1>5
  <2>2. at'[c] # "idle" BY <1>2
  <2>3. CASE at'[c] = "next"
    <3>1. todo'[c] = Tail(todo[c]) /\ ~InClick(c)' BY <1>2, <1>6, <2>3
    <3>2. \A k \in DOMAIN todo'[c] : todo'[c][k].type # "BTN" => todo'[c][k].buttons = {}
      BY <1>3, <1>5, <3>1, Zenon
    <3>3. Len(todo'[c]) <= 2 BY <1>5, <2>1, <3>1, Zenon
    <3> QED BY <1>2, <2>2, <3>1, <3>2, <3>3, MessagesOfOne
  <2>4. CASE at'[c] # "next"
    <3>1. todo'[c] = todo[c] BY <1>2, <2>4
    <3> QED BY <1>2, <1>3, <2>2, <3>1, MessagesOfOne
  <2> QED BY <2>3, <2>4
<1>8. Pending' = Pending
  <2>1. Waiting(c)' = Waiting(c)
    <3>1. Waiting(c) = Len(todo[c]) - 1 BY <1>1 DEF Waiting
    <3>2. CASE at'[c] = "next"
      <4>1. Waiting(c)' = Len(Tail(todo[c])) BY <1>2, <1>6, <3>2 DEF Waiting
      <4> QED BY <1>5, <3>1, <4>1, Zenon
    <3>3. CASE at'[c] # "next"
      <4>1. Waiting(c)' = Len(todo[c]) - 1 BY <1>2, <1>6, <3>3 DEF Waiting
      <4> QED BY <3>1, <4>1
    <3> QED BY <3>2, <3>3
  <2>2. \A d \in Conns \ {c} : Waiting(d)' = Waiting(d) BY <1>2, <1>6 DEF Waiting
  <2>3. \A d \in Conns : Waiting(d)' = Waiting(d) BY <2>1, <2>2
  <2> QED BY <2>3 DEF Pending
<1>9. Pressing' = Pressing \ {c} BY <1>2, <1>6 DEF Pressing
<1>10. SamplesInv'
  <2>1. at[c] \notin DOMAIN OnItsWay /\ at'[c] \notin DOMAIN OnItsWay \cup {"store"}
    BY <1>1, <1>2 DEF OnItsWay
  <2>2. failures' = 0 => failures = 0 BY <1>1 DEF WiidTypeOK
  <2> QED BY <1>1, <1>2, <2>1, <2>2, SamplesOfOne DEF timeVars
<1>11. ASSUME keypad' \in [down : SUBSET Mapped, told : SUBSET Mapped], failures' \in 0..MaxFaults,
              owed' \in 0..MaxMsgs
       PROVE  WiidTypeOK'
  <2>1. todo' \in [Conns -> Seq(Messages)] BY <1>1, <1>3, <1>5 DEF WiidTypeOK
  <2>2. at' \in [Conns -> {"idle", "next", "press", "press_syn", "release", "release_syn",
                           "clock", "compare", "store", "syn"} \cup Axes]
    BY <1>1 DEF WiidTypeOK, WiidGoto
  <2> QED BY <1>1, <1>11, <2>1, <2>2 DEF WiidTypeOK, mainVars, linkVars, timeVars
<1> QED BY <1>1, <1>2, <1>6, <1>7, <1>8, <1>9, <1>10, <1>11

\* The numbers of OwedInv.
LEMMA Numbers ==
  ASSUME WiidIInv
  PROVE  /\ owed \in 0..MaxMsgs /\ owed \in Int /\ delivered \in 0..MaxMsgs /\ failures \in 0..MaxFaults
         /\ keypad \in [down : SUBSET Mapped, told : SUBSET Mapped]
         /\ IsFiniteSet(keypad.down \ keypad.told)
         /\ Cardinality(keypad.down \ keypad.told) \in Nat
         /\ IsFiniteSet(Pressing) /\ Cardinality(Pressing) \in Nat /\ Cardinality(Pending) \in Nat
         /\ Cardinality(Pressing) + Cardinality(keypad.down \ keypad.told) <= owed
         /\ owed + Cardinality(Pending) <= delivered
<1>1. WiidTypeOK /\ OwedInv BY DEF WiidIInv
<1>2. /\ owed \in 0..MaxMsgs /\ delivered \in 0..MaxMsgs /\ failures \in 0..MaxFaults
      /\ keypad \in [down : SUBSET Mapped, told : SUBSET Mapped]
  BY <1>1 DEF WiidTypeOK
<1>3. owed \in Int BY <1>2
<1> QED BY <1>1, <1>2, <1>3, OwedSets DEF OwedInv

\* What of OwedInv and TypeOK follows once the sum is right.
LEMMA WriteOwed ==
  ASSUME WiidIInv, owed' \in Int, delivered' = delivered, Pending' = Pending, Pressing' \subseteq Pressing,
         owed' <= owed,
         NEW n \in Nat, Cardinality(keypad'.down \ keypad'.told) <= n,
         Cardinality(keypad'.down \ keypad'.told) \in Nat,
         Cardinality(Pressing') + n <= owed'
  PROVE  OwedInv' /\ owed' \in 0..MaxMsgs
<1>1. /\ owed \in 0..MaxMsgs /\ delivered \in 0..MaxMsgs /\ Cardinality(Pending) \in Nat
      /\ owed + Cardinality(Pending) <= delivered /\ MaxMsgs \in Nat
  BY OwedSets, WiidBounds DEF WiidIInv, WiidTypeOK, OwedInv
<1>2. Cardinality(Pressing') \in Nat BY OwedSets, FS_Subset, FS_CardinalityType
<1>3. Cardinality(Pressing') + Cardinality(keypad'.down \ keypad'.told) <= owed' BY <1>2
<1>4. owed' + Cardinality(Pending') <= delivered' BY <1>1
<1>5. owed' \in 0..MaxMsgs BY <1>1, <1>2
<1> QED BY <1>3, <1>4, <1>5 DEF OwedInv

\* A write fails: the rest of the click is left out.
LEMMA WriteFailsIInv ==
  ASSUME WiidIInv, NEW c \in Conns, NEW where \in {"press", "press_syn", "release", "release_syn"},
         NEW next \in {"press_syn", "release", "release_syn", "next"}, NEW effect,
         Write(c, where, next, effect),
         failures < MaxFaults, failures' = failures + 1, UNCHANGED keypad
  PROVE  WiidIInv'
<1> USE WiidBounds
<1>1. failures' \in 0..MaxFaults /\ failures' # 0 BY DEF WiidIInv, WiidTypeOK
<1>2. owed' = owed
  <2>1. keypad'.told \ keypad.told = {} OBVIOUS
  <2>2. owed' = owed - Cardinality(keypad'.told \ keypad.told) BY DEF Write
  <2>3. owed' = owed - 0 BY <2>1, <2>2, FS_EmptySet, Zenon
  <2> QED BY <2>3, Numbers
<1>3. OwedInv' /\ owed' \in 0..MaxMsgs
  <2>1. Pressing' \subseteq Pressing /\ Pending' = Pending BY WriteFrame
  <2>2. Cardinality(Pressing') <= Cardinality(Pressing) /\ Cardinality(Pressing') \in Nat
    BY <2>1, OwedSets, FS_Subset, FS_CardinalityType
  <2> DEFINE n == Cardinality(keypad.down \ keypad.told)
  <2>3. n \in Nat /\ Cardinality(Pressing) + n <= owed /\ Cardinality(Pressing) \in Nat /\ owed \in Int
    BY Numbers
  <2>4. delivered' = delivered BY DEF Write
  <2>5. n = Cardinality(keypad'.down \ keypad'.told) OBVIOUS
  <2> HIDE DEF n
  <2>6. Cardinality(Pressing') + n <= owed' BY <1>2, <2>2, <2>3
  <2>7. owed' \in Int /\ owed' <= owed BY <1>2, <2>3
  <2>8. /\ Cardinality(keypad'.down \ keypad'.told) <= n
        /\ Cardinality(keypad'.down \ keypad'.told) \in Nat
    BY <2>3, <2>5
  <2> QED BY <2>1, <2>3, <2>4, <2>6, <2>7, <2>8, WriteOwed, Zenon
<1>4. WiidTypeOK' /\ MessagesInv' /\ SamplesInv'
  <2>1. keypad' \in [down : SUBSET Mapped, told : SUBSET Mapped] BY Numbers
  <2> QED BY <1>1, <1>3, <2>1, WriteFrame
<1>5. KeysInv' BY <1>1 DEF KeysInv
<1>6. AloneInv'
  <2>1. \A d \in Conns : at'[d] # "idle" => at[d] # "idle" BY WriteFrame
  <2>2. overlap' = overlap BY DEF Write
  <2> QED BY <1>1, <2>1, <2>2 DEF WiidIInv, AloneInv
<1> QED BY <1>3, <1>4, <1>5, <1>6 DEF WiidIInv

\* Either a write of a click works or WriteFailsIInv is about it.
LEMMA PressIInv ==
  ASSUME WiidIInv, NEW c \in Conns, Write(c, "press", "press_syn", Pressed(c)),
         keypad' = Pressed(c), WiidGoto(c, "press_syn"), UNCHANGED failures
  PROVE  WiidIInv'
<1> USE WiidBounds
<1>1. /\ WiidTypeOK /\ KeysInv /\ AloneInv /\ MessagesInv BY DEF WiidIInv
<1>2. /\ at[c] = "press" /\ InClick(c) /\ at'[c] = "press_syn"
      /\ \A d \in Conns \ {c} : at'[d] = at[d] /\ Key(d)' = Key(d)
      /\ MessagesInv' /\ Pending' = Pending /\ Pressing' = Pressing \ {c} /\ SamplesInv'
      /\ delivered' = delivered /\ overlap' = overlap /\ main' = main
  <2>1. at'[c] = "press_syn" BY <1>1 DEF WiidGoto, WiidTypeOK
  <2> QED BY <2>1, WriteFrame DEF Write, mainVars
<1>3. Key(c)' = Key(c)
  BY <1>2, WriteFrame
<1>4. /\ keypad' = [down |-> keypad.down \cup Key(c), told |-> keypad.told]
      /\ keypad'.told \ keypad.told = {} /\ keypad'.told = keypad.told
      /\ keypad'.down = keypad.down \cup Key(c)
  BY Numbers DEF Pressed
<1>5. owed' = owed
  <2>1. owed' = owed - 0 BY <1>4, FS_EmptySet, Zenon DEF Write
  <2> QED BY <2>1, Numbers
<1>6. /\ Key(c) \subseteq Mapped /\ IsFiniteSet(Key(c))
      /\ Cardinality(Key(c)) \in {0, 1} /\ (Cardinality(Key(c)) = 0 <=> Key(c) = {})
  BY <1>1, <1>2, KeyFacts
<1>7. keypad' \in [down : SUBSET Mapped, told : SUBSET Mapped] BY <1>4, <1>6, Numbers
<1>8. OwedInv' /\ owed' \in 0..MaxMsgs
  <2> DEFINE D == keypad.down \ keypad.told
             n == Cardinality(D) + Cardinality(Key(c))
             DNew == keypad'.down \ keypad'.told
  <2>1. DNew \subseteq D \cup Key(c) BY <1>4
  <2>2. /\ IsFiniteSet(D \cup Key(c)) /\ Cardinality(D) \in Nat /\ IsFiniteSet(D)
        /\ Cardinality(D \cup Key(c)) \in Nat /\ Cardinality(D \cup Key(c)) <= n
    <3>1. CASE Key(c) = {} BY <1>6, <3>1, Numbers
    <3>2. CASE Key(c) # {}
      <4>1. Cardinality(Key(c)) = 1 BY <1>6, <3>2
      <4>2. \E k : Key(c) = {k} BY <1>6, <4>1, FS_Singleton, Zenon
      <4> QED BY <4>1, <4>2, Numbers, OneMore
    <3> QED BY <3>1, <3>2
  <2>3. Cardinality(DNew) \in Nat /\ Cardinality(DNew) <= n
    <3>1. IsFiniteSet(DNew) /\ Cardinality(DNew) <= Cardinality(D \cup Key(c))
      BY <2>1, <2>2, FS_Subset
    <3>2. Cardinality(DNew) \in Nat BY <3>1, FS_CardinalityType
    <3> QED BY <1>6, <2>2, <3>1, <3>2
  <2>4. Cardinality(Pressing') + Cardinality(Key(c)) <= Cardinality(Pressing)
        /\ Cardinality(Pressing') \in Nat
    <3>1. CASE Key(c) = {}
      <4>1. Pressing' = Pressing BY <1>2, <3>1 DEF Pressing
      <4> QED BY <1>6, <3>1, <4>1, Numbers
    <3>2. CASE Key(c) # {}
      <4>1. c \in Pressing BY <1>2, <3>2 DEF Pressing
      <4>2. Cardinality(Pressing') = Cardinality(Pressing) - 1 /\ IsFiniteSet(Pressing')
        BY <1>2, <4>1, Numbers, FS_RemoveElement
      <4>3. Cardinality(Pressing') \in Nat BY <4>2, FS_CardinalityType
      <4> QED BY <1>6, <3>2, <4>2, <4>3, Numbers
    <3> QED BY <3>1, <3>2
  <2>5. n \in Nat /\ Cardinality(Pressing') + n <= owed' /\ owed' \in Int /\ owed' <= owed
    <3>1. /\ Cardinality(D) \in Nat /\ owed \in Int /\ Cardinality(Pressing) \in Nat
          /\ Cardinality(Pressing) + Cardinality(D) <= owed
      BY Numbers
    <3> HIDE DEF D
    <3> QED BY <1>5, <1>6, <2>4, <3>1
  <2>6. Pressing' \subseteq Pressing BY <1>2
  <2> HIDE DEF n
  <2> QED BY <1>2, <2>3, <2>5, <2>6, WriteOwed, Zenon
<1>9. WiidTypeOK' BY <1>7, <1>8, Numbers, WriteFrame
<1>10. KeysInv'
  <2> SUFFICES ASSUME failures = 0
               PROVE  /\ \A k \in keypad'.down :
                           \E d \in Conns : at'[d] \in {"press_syn", "release"} /\ k \in Key(d)'
                      /\ \A k \in keypad'.told :
                           \E d \in Conns : at'[d] \in {"press_syn", "release", "release_syn"}
                                              /\ k \in Key(d)'
    BY DEF KeysInv
  <2>1. ASSUME NEW k \in keypad'.down
        PROVE  \E d \in Conns : at'[d] \in {"press_syn", "release"} /\ k \in Key(d)'
    <3>1. CASE k \in Key(c) BY <1>2, <1>3, <3>1
    <3>2. CASE k \in keypad.down
      <4>1. PICK d \in Conns : at[d] \in {"press_syn", "release"} /\ k \in Key(d)
        BY <1>1, <3>2 DEF KeysInv
      <4>2. d # c BY <1>2, <4>1
      <4> QED BY <1>2, <4>1, <4>2
    <3> QED BY <1>4, <2>1, <3>1, <3>2
  <2>2. ASSUME NEW k \in keypad'.told
        PROVE  \E d \in Conns : at'[d] \in {"press_syn", "release", "release_syn"} /\ k \in Key(d)'
    <3>1. PICK d \in Conns : at[d] \in {"press_syn", "release", "release_syn"} /\ k \in Key(d)
      BY <1>1, <1>4, <2>2 DEF KeysInv
    <3>2. d # c BY <1>2, <3>1
    <3> QED BY <1>2, <3>1, <3>2
  <2> QED BY <2>1, <2>2
<1>11. AloneInv'
  <2> SUFFICES ASSUME ~overlap PROVE AloneInv'
    BY <1>2 DEF AloneInv
  <2>1. \A d \in Conns : d # c => at[d] = "idle" /\ at'[d] = "idle" BY <1>1, <1>2 DEF AloneInv
  <2>2. failures = 0 /\ main # "gone" => owed = Cardinality(Key(c)) /\ keypad.told = {}
    BY <1>1, <1>2 DEF AloneInv
  <2>3. failures = 0 => keypad.down = {}
    BY <1>1, <1>2, <2>1 DEF KeysInv
  <2>4. failures = 0 => keypad'.down = Key(c)' BY <1>3, <1>4, <2>3
  <2> QED BY <1>2, <1>3, <1>4, <1>5, <2>1, <2>2, <2>4 DEF AloneInv
<1> QED BY <1>2, <1>8, <1>9, <1>10, <1>11 DEF WiidIInv

\* EV_SYN after the press or after the release.
LEMMA ReportIInv ==
  ASSUME WiidIInv, NEW c \in Conns, NEW where \in {"press_syn", "release_syn"},
         NEW next \in {"release", "next"}, where = "press_syn" <=> next = "release",
         Write(c, where, next, Reported),
         keypad' = Reported, WiidGoto(c, next), UNCHANGED failures
  PROVE  WiidIInv'
<1> USE WiidBounds
<1>1. /\ WiidTypeOK /\ KeysInv /\ AloneInv /\ MessagesInv BY DEF WiidIInv
<1>2. /\ at[c] = where /\ InClick(c) /\ at'[c] = next
      /\ \A d \in Conns \ {c} : at'[d] = at[d] /\ Key(d)' = Key(d)
      /\ MessagesInv' /\ Pending' = Pending /\ Pressing' \subseteq Pressing /\ SamplesInv'
      /\ delivered' = delivered /\ overlap' = overlap /\ main' = main
  <2>1. at'[c] = next BY <1>1 DEF WiidGoto, WiidTypeOK
  <2> QED BY <2>1, WriteFrame DEF Write, mainVars
<1>3. next = "release" => Key(c)' = Key(c) BY <1>2, WriteFrame
<1>4. keypad'.down = keypad.down /\ keypad'.told = keypad.down
  BY Numbers DEF Reported
<1> DEFINE n == Cardinality(keypad.down \ keypad.told)
<1>5. owed' = owed - n BY <1>4 DEF Write
<1>6. n \in Nat /\ owed' \in Int /\ owed' <= owed /\ Cardinality(Pressing) + n <= owed /\ owed \in Int
      /\ Cardinality(Pressing) \in Nat
  BY <1>5, Numbers
<1> HIDE DEF n
<1>7. keypad' \in [down : SUBSET Mapped, told : SUBSET Mapped] BY Numbers DEF Reported
<1>8. OwedInv' /\ owed' \in 0..MaxMsgs
  <2>1. keypad'.down \ keypad'.told = {} BY <1>4
  <2>2. Cardinality(keypad'.down \ keypad'.told) = 0 BY <2>1, FS_EmptySet, Zenon
  <2>3. Cardinality(Pressing') <= Cardinality(Pressing) /\ Cardinality(Pressing') \in Nat
    BY <1>2, Numbers, FS_Subset, FS_CardinalityType
  <2>4. Cardinality(Pressing') + 0 <= owed' BY <1>5, <1>6, <2>3
  <2>5. /\ 0 \in Nat /\ Cardinality(keypad'.down \ keypad'.told) \in Nat
        /\ Cardinality(keypad'.down \ keypad'.told) <= 0
    BY <2>2
  <2> QED BY <1>2, <1>6, <2>4, <2>5, WriteOwed, Zenon
<1>9. WiidTypeOK' BY <1>7, <1>8, Numbers, WriteFrame
<1>10. KeysInv'
  <2> SUFFICES ASSUME failures = 0, NEW k \in keypad.down
               PROVE  \E d \in Conns : at'[d] \in {"press_syn", "release"} /\ k \in Key(d)'
    BY <1>4 DEF KeysInv
  <2>1. PICK d \in Conns : at[d] \in {"press_syn", "release"} /\ k \in Key(d)
    BY <1>1 DEF KeysInv
  <2>2. CASE d = c BY <1>2, <1>3, <2>1, <2>2
  <2>3. CASE d # c BY <1>2, <2>1, <2>3
  <2> QED BY <2>2, <2>3
<1>11. AloneInv'
  <2> SUFFICES ASSUME ~overlap PROVE AloneInv'
    BY <1>2 DEF AloneInv
  <2>1. \A d \in Conns : d # c => at[d] = "idle" /\ at'[d] = "idle" BY <1>1, <1>2 DEF AloneInv
  <2>2. \A d \in Conns : at'[d] \notin {"press", "press_syn"} BY <1>2, <2>1
  <2>3. \A d \in Conns : \A e \in Conns : at'[d] # "idle" /\ at'[e] # "idle" => d = e BY <2>1
  <2>4. ASSUME failures = 0, main # "gone" PROVE owed' = 0
    <3>1. CASE where = "press_syn"
      <4>1. owed = Cardinality(Key(c)) /\ keypad.told = {} /\ keypad.down = Key(c)
        BY <1>1, <1>2, <2>4, <3>1 DEF AloneInv
      <4>2. n = owed BY <4>1 DEF n
      <4> QED BY <1>5, <1>6, <4>2
    <3>2. CASE where = "release_syn"
      <4>1. \A d \in Conns : at[d] \notin {"press", "press_syn"} BY <1>2, <2>1, <3>2
      <4>2. owed = 0 BY <1>1, <2>4, <4>1 DEF AloneInv
      <4> QED BY <1>5, <1>6, <4>2
    <3> QED BY <3>1, <3>2
  <2> QED BY <1>2, <2>2, <2>3, <2>4 DEF AloneInv
<1> QED BY <1>2, <1>8, <1>9, <1>10, <1>11 DEF WiidIInv

LEMMA ReleaseIInv ==
  ASSUME WiidIInv, NEW c \in Conns, Write(c, "release", "release_syn", Released(c)),
         keypad' = Released(c), WiidGoto(c, "release_syn"), UNCHANGED failures
  PROVE  WiidIInv'
<1> USE WiidBounds
<1>1. /\ WiidTypeOK /\ KeysInv /\ AloneInv /\ MessagesInv BY DEF WiidIInv
<1>2. /\ at[c] = "release" /\ InClick(c) /\ at'[c] = "release_syn"
      /\ \A d \in Conns \ {c} : at'[d] = at[d] /\ Key(d)' = Key(d)
      /\ MessagesInv' /\ Pending' = Pending /\ Pressing' \subseteq Pressing /\ SamplesInv'
      /\ delivered' = delivered /\ overlap' = overlap /\ main' = main
  <2>1. at'[c] = "release_syn" BY <1>1 DEF WiidGoto, WiidTypeOK
  <2> QED BY <2>1, WriteFrame DEF Write, mainVars
<1>3. Key(c)' = Key(c) BY <1>2, WriteFrame
<1>4. keypad'.told \ keypad.told = {} /\ keypad'.told = keypad.told
      /\ keypad'.down = keypad.down \ Key(c)
  BY Numbers DEF Released
<1>5. owed' = owed
  <2>1. owed' = owed - 0 BY <1>4, FS_EmptySet, Zenon DEF Write
  <2> QED BY <2>1, Numbers
<1>7. keypad' \in [down : SUBSET Mapped, told : SUBSET Mapped] BY Numbers DEF Released
<1>8. OwedInv' /\ owed' \in 0..MaxMsgs
  <2> DEFINE n == Cardinality(keypad.down \ keypad.told)
  <2>1. keypad'.down \ keypad'.told \subseteq keypad.down \ keypad.told BY <1>4
  <2>2. /\ Cardinality(keypad'.down \ keypad'.told) <= n
        /\ Cardinality(keypad'.down \ keypad'.told) \in Nat
    BY <2>1, Numbers, FS_Subset, FS_CardinalityType
  <2>3. Cardinality(Pressing') <= Cardinality(Pressing) /\ Cardinality(Pressing') \in Nat
    BY <1>2, Numbers, FS_Subset, FS_CardinalityType
  <2>4. /\ n \in Nat /\ Cardinality(Pressing) + n <= owed /\ owed \in Int
        /\ Cardinality(Pressing) \in Nat
    BY Numbers
  <2> HIDE DEF n
  <2>5. Cardinality(Pressing') + n <= owed' /\ owed' \in Int /\ owed' <= owed
    BY <1>5, <2>3, <2>4
  <2> QED BY <1>2, <2>2, <2>4, <2>5, WriteOwed, Zenon
<1>9. WiidTypeOK' BY <1>7, <1>8, Numbers, WriteFrame
<1>10. KeysInv'
  <2> SUFFICES ASSUME failures = 0
               PROVE  /\ \A k \in keypad'.down :
                           \E d \in Conns : at'[d] \in {"press_syn", "release"} /\ k \in Key(d)'
                      /\ \A k \in keypad'.told :
                           \E d \in Conns : at'[d] \in {"press_syn", "release", "release_syn"}
                                              /\ k \in Key(d)'
    BY DEF KeysInv
  <2>1. ASSUME NEW k \in keypad'.down
        PROVE  \E d \in Conns : at'[d] \in {"press_syn", "release"} /\ k \in Key(d)'
    <3>1. k \in keypad.down /\ k \notin Key(c) BY <1>4, <2>1
    <3>2. PICK d \in Conns : at[d] \in {"press_syn", "release"} /\ k \in Key(d)
      BY <1>1, <3>1 DEF KeysInv
    <3>3. d # c BY <3>1, <3>2
    <3> QED BY <1>2, <3>2, <3>3
  <2>2. ASSUME NEW k \in keypad'.told
        PROVE  \E d \in Conns : at'[d] \in {"press_syn", "release", "release_syn"} /\ k \in Key(d)'
    <3>1. PICK d \in Conns : at[d] \in {"press_syn", "release", "release_syn"} /\ k \in Key(d)
      BY <1>1, <1>4, <2>2 DEF KeysInv
    <3>2. CASE d = c BY <1>2, <1>3, <3>1, <3>2
    <3>3. CASE d # c BY <1>2, <3>1, <3>3
    <3> QED BY <3>2, <3>3
  <2> QED BY <2>1, <2>2
<1>11. AloneInv'
  <2> SUFFICES ASSUME ~overlap PROVE AloneInv'
    BY <1>2 DEF AloneInv
  <2>1. \A d \in Conns : d # c => at[d] = "idle" /\ at'[d] = "idle" BY <1>1, <1>2 DEF AloneInv
  <2>2. \A d \in Conns : at'[d] \notin {"press", "press_syn"} /\ at[d] \notin {"press", "press_syn"}
    BY <1>2, <2>1
  <2>3. failures = 0 /\ main # "gone" => owed' = 0 BY <1>1, <1>5, <2>2 DEF AloneInv
  <2> QED BY <1>2, <2>1, <2>2, <2>3 DEF AloneInv
<1> QED BY <1>2, <1>8, <1>9, <1>10, <1>11 DEF WiidIInv

LEMMA ClickIInv == ASSUME WiidIInv, NEW c \in Conns, Click(c) PROVE WiidIInv'
<1>1. CASE Write(c, "press", "press_syn", Pressed(c))
  BY <1>1, PressIInv, WriteFailsIInv DEF Write
<1>2. CASE Write(c, "press_syn", "release", Reported)
  BY <1>2, ReportIInv, WriteFailsIInv DEF Write
<1>3. CASE Write(c, "release", "release_syn", Released(c))
  BY <1>3, ReleaseIInv, WriteFailsIInv DEF Write
<1>4. CASE Write(c, "release_syn", "next", Reported)
  BY <1>4, ReportIInv, WriteFailsIInv DEF Write
<1> QED BY <1>1, <1>2, <1>3, <1>4 DEF Click

\* A callback that samples does not click.
LEMMA SampleFrame ==
  ASSUME WiidIInv, NEW c \in Conns, NEW to \in {"next", "compare", "store", "syn"} \cup Axes,
         at[c] \in {"clock", "compare", "store", "syn"} \cup Axes, WiidGoto(c, to),
         UNCHANGED <<todo, keypad, owed, delivered, overlap, mainVars>>,
         failures' = failures \/ (failures < MaxFaults /\ failures' = failures + 1)
  PROVE  /\ at'[c] = to /\ \A d \in Conns \ {c} : at'[d] = at[d]
         /\ failures' = 0 => failures = 0
         /\ MessagesInv' /\ KeysInv' /\ OwedInv' /\ AloneInv'
         /\ UNCHANGED <<linkVars, clock, reader>>
              /\ read' \in [Conns -> 0..MaxTime] /\ tilt' \in [Conns -> Tilts \cup {{}}]
              /\ accTime' \in 0..MaxTime
              /\ sensor' \in [open : SUBSET (Axes \X Samples),
                              shown : SUBSET (Axes \X Samples), before : 0..Never]
            => WiidTypeOK'
<1> USE WiidBounds
<1>1. WiidTypeOK /\ MessagesInv /\ KeysInv /\ OwedInv /\ AloneInv BY DEF WiidIInv
<1>2. /\ at'[c] = to /\ \A d \in Conns \ {c} : at'[d] = at[d]
      /\ to \notin {"idle", "press", "press_syn", "release", "release_syn"}
      /\ at[c] \notin {"idle", "press", "press_syn", "release", "release_syn"}
  BY <1>1 DEF WiidGoto, WiidTypeOK, Axes
<1>3. failures' \in 0..MaxFaults /\ (failures' = 0 => failures = 0)
  <2>1. failures \in 0..MaxFaults BY <1>1 DEF WiidTypeOK
  <2> QED BY <2>1
<1>4. \A d \in Conns : /\ Key(d)' = Key(d) /\ InClick(d)' = InClick(d)
                       /\ at'[d] \in {"idle", "press", "press_syn", "release", "release_syn"}
                            \/ at[d] \in {"idle", "press", "press_syn", "release", "release_syn"}
                              => at'[d] = at[d]
  BY <1>2 DEF Key, Keys, InClick
<1>5. MessagesInv' BY <1>1, <1>2, <1>4 DEF MessagesInv
<1>6. KeysInv' BY <1>1, <1>3, <1>4 DEF KeysInv
<1>7. OwedInv'
  <2>1. Pressing' = Pressing BY <1>2, <1>4 DEF Pressing
  <2>2. Pending' = Pending BY <1>4 DEF Pending, Waiting
  <2> QED BY <1>1, <2>1, <2>2 DEF OwedInv
<1>8. AloneInv' BY <1>1, <1>2, <1>3, <1>4 DEF AloneInv, mainVars
<1>9. at' \in [Conns -> {"idle", "next", "press", "press_syn", "release", "release_syn",
                         "clock", "compare", "store", "syn"} \cup Axes]
  BY <1>1 DEF WiidTypeOK, WiidGoto
<1> QED BY <1>1, <1>2, <1>3, <1>5, <1>6, <1>7, <1>8, <1>9 DEF WiidTypeOK, mainVars, linkVars

\* Only one callback is running.
LEMMA SamplesAlone ==
  ASSUME NEW c \in Conns,
         failures' = 0 /\ ~overlap' =>
           /\ \A d \in Conns \ {c} : at'[d] = "idle"
           /\ sensor'.shown # {} => \E u \in Samples : sensor'.shown = Whole(u) /\ u.time <= accTime'
           /\ sensor'.shown # {} =>
                sensor'.before = Never \/ Latest(sensor'.shown) >= sensor'.before + RATE
           /\ at'[c] \notin DOMAIN OnItsWay => sensor'.open = {}
           /\ at'[c] = "store" => read'[c] >= accTime' + RATE
           /\ at'[c] \in DOMAIN OnItsWay =>
                /\ accTime' = read'[c] /\ sensor'.open = Passed(c, OnItsWay[at[c]])'
                /\ sensor'.shown # {} => Latest(sensor'.shown) + RATE <= read'[c]
  PROVE  SamplesInv'
<1> SUFFICES ASSUME failures' = 0, ~overlap' PROVE SamplesInv'
  BY DEF SamplesInv
<1>1. "idle" \notin DOMAIN OnItsWay BY DEF OnItsWay
<1>2. (\A d \in Conns : at'[d] \notin DOMAIN OnItsWay) => sensor'.open = {} OBVIOUS
<1>3. Latest(sensor.shown)' = Latest(sensor'.shown) BY DEF Latest
<1>4. ASSUME NEW d \in Conns
      PROVE  /\ at'[d] = "store" => read'[d] >= accTime' + RATE
             /\ at'[d] \in DOMAIN OnItsWay =>
                  /\ accTime' = read'[d] /\ sensor'.open = Passed(d, OnItsWay[at[d]])'
                  /\ sensor'.shown # {} => Latest(sensor.shown)' + RATE <= read'[d]
  <2>1. CASE d = c BY <2>1, <1>3
  <2>2. CASE d # c BY <2>2, <1>1
  <2> QED BY <2>1, <2>2
<1> QED BY <1>2, <1>3, <1>4 DEF SamplesInv, Whole

\* What SamplesInv says when c is the only callback.
LEMMA SamplesOfAlone ==
  ASSUME WiidIInv, NEW c \in Conns, at[c] # "idle", failures = 0, ~overlap
  PROVE  /\ \A d \in Conns \ {c} : at[d] = "idle"
         /\ sensor.shown # {} =>
              \E u \in Samples :
               sensor.shown = Whole(u) /\ u.time <= accTime /\ Latest(sensor.shown) = u.time
         /\ sensor.shown # {} => sensor.before = Never \/ Latest(sensor.shown) >= sensor.before + RATE
         /\ at[c] \notin DOMAIN OnItsWay => sensor.open = {}
         /\ at[c] = "store" => read[c] >= accTime + RATE
         /\ at[c] \in DOMAIN OnItsWay =>
              /\ accTime = read[c] /\ sensor.open = Passed(c, OnItsWay[at[c]])
              /\ sensor.shown # {} => Latest(sensor.shown) + RATE <= read[c]
<1>1. SamplesInv /\ AloneInv BY DEF WiidIInv
<1>2. \A d \in Conns \ {c} : at[d] = "idle" BY <1>1 DEF AloneInv
<1>3. "idle" \notin DOMAIN OnItsWay BY DEF OnItsWay
<1>4. at[c] \notin DOMAIN OnItsWay => \A d \in Conns : at[d] \notin DOMAIN OnItsWay
  BY <1>2, <1>3
<1>5. sensor.shown # {} =>
        \E u \in Samples : sensor.shown = Whole(u) /\ u.time <= accTime /\ Latest(sensor.shown) = u.time
  <2>1. sensor.shown # {} => \E u \in Samples : sensor.shown = Whole(u) /\ u.time <= accTime
    BY <1>1 DEF SamplesInv
  <2>2. \A u \in Samples : Whole(u) # {} => Latest(Whole(u)) = u.time BY LatestWhole DEF Whole
  <2> QED BY <2>1, <2>2
<1> QED BY <1>1, <1>2, <1>4, <1>5 DEF SamplesInv

LEMMA ClockIInv ==
  ASSUME WiidIInv, NEW c \in Conns, Accelerometer(c), at[c] = "clock" PROVE WiidIInv'
<1>1. /\ WiidGoto(c, "compare") /\ read' = [read EXCEPT ![c] = clock] /\ accTime' = accTime
      /\ tilt' = tilt
      /\ UNCHANGED <<mainVars, linkVars, todo, clock, seenVars, noteVars, reader>>
  BY DEF Accelerometer, Sample
<1>2. /\ WiidTypeOK /\ SamplesInv
      /\ read' \in [Conns -> 0..MaxTime] /\ tilt' \in [Conns -> Tilts \cup {{}}]
      /\ accTime' \in 0..MaxTime
      /\ sensor \in [open : SUBSET (Axes \X Samples),
                     shown : SUBSET (Axes \X Samples), before : 0..Never]
      /\ \A d \in Conns \ {c} : read'[d] = read[d]
  BY <1>1 DEF WiidIInv, WiidTypeOK
<1>3. /\ at'[c] = "compare" /\ \A d \in Conns \ {c} : at'[d] = at[d]
      /\ WiidTypeOK' /\ MessagesInv' /\ KeysInv' /\ OwedInv' /\ AloneInv'
  BY <1>1, <1>2, SampleFrame DEF seenVars, noteVars
<1>4. SamplesInv'
  <2>1. at[c] \notin DOMAIN OnItsWay /\ at'[c] \notin DOMAIN OnItsWay \cup {"store"}
    BY <1>3 DEF OnItsWay
  <2> QED BY <1>1, <1>2, <1>3, <2>1, SamplesOfOne DEF seenVars, noteVars
<1> QED BY <1>3, <1>4 DEF WiidIInv

LEMMA CompareIInv ==
  ASSUME WiidIInv, NEW c \in Conns, Accelerometer(c), at[c] = "compare" PROVE WiidIInv'
<1> USE WiidBounds
<1>1. /\ accTime' = accTime /\ tilt' = tilt
      /\ \/ read[c] >= accTime + RATE /\ WiidGoto(c, "store") /\ UNCHANGED read
         \/ WiidGoto(c, "next") /\ read' = [read EXCEPT ![c] = 0]
      /\ UNCHANGED <<mainVars, linkVars, todo, clock, seenVars, noteVars, reader>>
  BY DEF Accelerometer, Sample
<1>2. /\ WiidTypeOK /\ SamplesInv
      /\ read' \in [Conns -> 0..MaxTime] /\ tilt' \in [Conns -> Tilts \cup {{}}]
      /\ accTime' \in 0..MaxTime
      /\ sensor \in [open : SUBSET (Axes \X Samples),
                     shown : SUBSET (Axes \X Samples), before : 0..Never]
      /\ \A d \in Conns \ {c} : read'[d] = read[d]
  <2>1. WiidTypeOK /\ SamplesInv BY DEF WiidIInv
  <2>2. /\ read \in [Conns -> 0..MaxTime] /\ accTime \in 0..MaxTime
        /\ tilt \in [Conns -> Tilts \cup {{}}]
    BY <2>1 DEF WiidTypeOK
  <2>3. sensor \in [open : SUBSET (Axes \X Samples),
                    shown : SUBSET (Axes \X Samples), before : 0..Never]
    BY <2>1 DEF WiidTypeOK
  <2>4. /\ read' \in [Conns -> 0..MaxTime] /\ tilt' \in [Conns -> Tilts \cup {{}}]
        /\ \A d \in Conns \ {c} : read'[d] = read[d]
    BY <1>1, <2>2
  <2> QED BY <1>1, <2>1, <2>2, <2>3, <2>4
<1>3. /\ at'[c] \in {"store", "next"} /\ \A d \in Conns \ {c} : at'[d] = at[d]
      /\ WiidTypeOK' /\ MessagesInv' /\ KeysInv' /\ OwedInv' /\ AloneInv'
      /\ at'[c] = "store" => read'[c] >= accTime + RATE
  <2>1. CASE read[c] >= accTime + RATE /\ WiidGoto(c, "store") /\ UNCHANGED read
    BY <1>1, <1>2, <2>1, SampleFrame DEF seenVars, noteVars
  <2>2. CASE WiidGoto(c, "next") /\ read' = [read EXCEPT ![c] = 0]
    BY <1>1, <1>2, <2>2, SampleFrame DEF seenVars, noteVars
  <2> QED BY <1>1, <2>1, <2>2
<1>4. SamplesInv'
  <2> SUFFICES ASSUME failures' = 0, ~overlap' PROVE SamplesInv'
    BY DEF SamplesInv
  <2>1. at[c] \notin DOMAIN OnItsWay /\ at'[c] \notin DOMAIN OnItsWay /\ at[c] # "idle"
    BY <1>3 DEF OnItsWay
  <2>2. failures = 0 /\ ~overlap /\ sensor' = sensor BY <1>1 DEF seenVars, noteVars
  <2>3. /\ \A d \in Conns \ {c} : at[d] = "idle"
        /\ sensor.shown # {} => \E u \in Samples : sensor.shown = Whole(u) /\ u.time <= accTime
        /\ sensor.shown # {} => sensor.before = Never \/ Latest(sensor.shown) >= sensor.before + RATE
        /\ sensor.open = {}
    BY <2>1, <2>2, SamplesOfAlone
  <2>4. \A d \in Conns \ {c} : at'[d] = "idle" BY <1>3, <2>3
  <2> QED BY <1>1, <1>3, <2>1, <2>2, <2>3, <2>4, SamplesAlone
<1> QED BY <1>3, <1>4 DEF WiidIInv

LEMMA StoreIInv ==
  ASSUME WiidIInv, NEW c \in Conns, Accelerometer(c), at[c] = "store" PROVE WiidIInv'
<1> USE WiidBounds
<1>1. /\ accTime' = read[c] /\ WiidGoto(c, "REL_X") /\ UNCHANGED read
      /\ \E axes \in Tilts : tilt' = [tilt EXCEPT ![c] = axes]
      /\ UNCHANGED <<mainVars, linkVars, todo, clock, seenVars, noteVars, reader>>
  BY DEF Accelerometer, Sample, ReadAxes
<1>2. /\ WiidTypeOK /\ SamplesInv
      /\ read' \in [Conns -> 0..MaxTime] /\ tilt' \in [Conns -> Tilts \cup {{}}]
      /\ accTime' \in 0..MaxTime /\ accTime \in 0..MaxTime
      /\ sensor \in [open : SUBSET (Axes \X Samples),
                     shown : SUBSET (Axes \X Samples), before : 0..Never]
  BY <1>1 DEF WiidIInv, WiidTypeOK
<1>3. /\ at'[c] = "REL_X" /\ \A d \in Conns \ {c} : at'[d] = at[d]
      /\ WiidTypeOK' /\ MessagesInv' /\ KeysInv' /\ OwedInv' /\ AloneInv'
  <2>1. "REL_X" \in Axes BY DEF Axes
  <2> QED BY <1>1, <1>2, <2>1, SampleFrame DEF seenVars, noteVars
<1>4. SamplesInv'
  <2> SUFFICES ASSUME failures' = 0, ~overlap' PROVE SamplesInv'
    BY DEF SamplesInv
  <2>1. /\ at[c] \notin DOMAIN OnItsWay /\ at[c] # "idle" /\ OnItsWay["REL_X"] = {}
        /\ "REL_X" \in DOMAIN OnItsWay
    BY <1>3 DEF OnItsWay
  <2>2. failures = 0 /\ ~overlap /\ sensor' = sensor /\ read' = read BY <1>1 DEF seenVars, noteVars
  <2>3. /\ \A d \in Conns \ {c} : at[d] = "idle"
        /\ sensor.shown # {} =>
             \E u \in Samples :
               sensor.shown = Whole(u) /\ u.time <= accTime /\ Latest(sensor.shown) = u.time
        /\ sensor.shown # {} => sensor.before = Never \/ Latest(sensor.shown) >= sensor.before + RATE
        /\ sensor.open = {} /\ read[c] >= accTime + RATE
    BY <2>1, <2>2, SamplesOfAlone
  <2>4. \A d \in Conns \ {c} : at'[d] = "idle" BY <1>3, <2>3
  <2>5. read[c] \in 0..MaxTime BY <1>1, <1>2
  <2>6. sensor.shown # {} => /\ Latest(sensor.shown) + RATE <= read[c]
                             /\ \E u \in Samples : sensor.shown = Whole(u) /\ u.time <= read[c]
    <3> SUFFICES ASSUME sensor.shown # {}
                 PROVE  /\ Latest(sensor.shown) + RATE <= read[c]
                        /\ \E u \in Samples : sensor.shown = Whole(u) /\ u.time <= read[c]
      OBVIOUS
    <3>1. PICK u \in Samples : /\ sensor.shown = Whole(u) /\ u.time <= accTime
                               /\ Latest(sensor.shown) = u.time
      BY <2>3
    <3>2. /\ u.time \in Nat /\ accTime \in Nat /\ read[c] \in Nat /\ RATE \in Nat
          /\ u.time <= accTime /\ read[c] >= accTime + RATE
      BY <1>2, <2>3, <2>5, <3>1 DEF Samples
    <3>3. \A t, a, b, r \in Nat : t <= a /\ b >= a + r => t + r <= b /\ t <= b OBVIOUS
    <3>4. u.time + RATE <= read[c] /\ u.time <= read[c] BY <3>2, <3>3, Zenon
    <3> QED BY <3>1, <3>4
  <2>7. sensor.open = Passed(c, OnItsWay[at[c]])' BY <1>3, <2>1, <2>3 DEF Passed
  <2> QED BY <1>1, <1>3, <2>1, <2>2, <2>3, <2>4, <2>6, <2>7, SamplesAlone
<1> QED BY <1>3, <1>4 DEF WiidIInv

LEMMA AccelerometerIInv == ASSUME WiidIInv, NEW c \in Conns, Accelerometer(c) PROVE WiidIInv'
<1>1. at[c] \in {"clock", "compare", "store"} BY DEF Accelerometer, Sample
<1> QED BY <1>1, ClockIInv, CompareIInv, StoreIInv

LEMMA SendAxisIInv == ASSUME WiidIInv, NEW c \in Conns, SendAxis(c) PROVE WiidIInv'
<1> USE WiidBounds
<1>1. /\ at[c] \in Axes /\ WiidGoto(c, NextAxis[at[c]])
      /\ \/ sensor' = [sensor EXCEPT !.open = @ \cup Events(c, at[c])] /\ failures' = failures
         \/ failures < MaxFaults /\ failures' = failures + 1 /\ sensor' = sensor
      /\ UNCHANGED <<mainVars, linkVars, todo, read, tilt, clock, accTime, keypad, delivered, owed,
                     overlap, reader>>
  BY DEF SendAxis, timeVars
<1>2. /\ read \in [Conns -> 0..MaxTime] /\ tilt \in [Conns -> Tilts \cup {{}}]
      /\ accTime \in 0..MaxTime /\ failures \in Nat
      /\ sensor \in [open : SUBSET (Axes \X Samples),
                     shown : SUBSET (Axes \X Samples), before : 0..Never]
  BY DEF WiidIInv, WiidTypeOK
<1>3. NextAxis[at[c]] \in {"syn"} \cup Axes BY <1>1 DEF NextAxis, Axes
<1>4. sensor' \in [open : SUBSET (Axes \X Samples),
                   shown : SUBSET (Axes \X Samples), before : 0..Never]
  <2>1. Present(c) \in Samples BY <1>2 DEF Present, Samples
  <2>2. Events(c, at[c]) \subseteq Axes \X Samples BY <1>1, <2>1 DEF Events, Present
  <2>3. CASE sensor' = [sensor EXCEPT !.open = @ \cup Events(c, at[c])] BY <1>2, <2>2, <2>3
  <2> QED BY <1>1, <1>2, <2>3
<1>5. /\ at'[c] = NextAxis[at[c]] /\ \A d \in Conns \ {c} : at'[d] = at[d]
      /\ WiidTypeOK' /\ MessagesInv' /\ KeysInv' /\ OwedInv' /\ AloneInv'
  BY <1>1, <1>2, <1>3, <1>4, SampleFrame
<1>6. SamplesInv'
  <2> SUFFICES ASSUME failures' = 0, ~overlap' PROVE SamplesInv'
    BY DEF SamplesInv
  <2>1. /\ failures = 0 /\ ~overlap /\ sensor' = [sensor EXCEPT !.open = @ \cup Events(c, at[c])]
        /\ read' = read /\ tilt' = tilt /\ accTime' = accTime
    BY <1>1, <1>2
  <2>2. at[c] \in DOMAIN OnItsWay /\ at[c] # "idle" BY <1>1 DEF OnItsWay, Axes
  <2>3. /\ \A d \in Conns \ {c} : at[d] = "idle"
        /\ sensor.shown # {} => \E u \in Samples : sensor.shown = Whole(u) /\ u.time <= accTime
        /\ sensor.shown # {} => sensor.before = Never \/ Latest(sensor.shown) >= sensor.before + RATE
        /\ accTime = read[c] /\ sensor.open = Passed(c, OnItsWay[at[c]])
        /\ sensor.shown # {} => Latest(sensor.shown) + RATE <= read[c]
    BY <2>1, <2>2, SamplesOfAlone
  <2>4. /\ sensor'.open = sensor.open \cup Events(c, at[c])
        /\ sensor'.shown = sensor.shown /\ sensor'.before = sensor.before
    BY <1>2, <2>1
  <2>5. /\ NextAxis[at[c]] \in DOMAIN OnItsWay /\ NextAxis[at[c]] # "store"
        /\ OnItsWay[NextAxis[at[c]]] = OnItsWay[at[c]] \cup {at[c]}
    BY <1>1 DEF NextAxis, OnItsWay, Axes
  <2>6. sensor'.open = Passed(c, OnItsWay[at[c]])'
    <3>1. sensor'.open = Passed(c, OnItsWay[NextAxis[at[c]]])
      BY <2>3, <2>4, <2>5 DEF Passed, Events, Present
    <3>2. Passed(c, OnItsWay[at[c]])' = Passed(c, OnItsWay[NextAxis[at[c]]])
      BY <1>5, <2>1 DEF Passed, Present, OnItsWay
    <3> QED BY <3>1, <3>2
  <2>7. \A d \in Conns \ {c} : at'[d] = "idle" BY <1>5, <2>3
  <2> QED BY <1>5, <2>1, <2>3, <2>4, <2>5, <2>6, <2>7, SamplesAlone
<1> QED BY <1>5, <1>6 DEF WiidIInv

LEMMA SendSynIInv == ASSUME WiidIInv, NEW c \in Conns, SendSyn(c) PROVE WiidIInv'
<1> USE WiidBounds
<1> DEFINE shift == [open |-> {}, shown |-> sensor.open,
                     before |-> IF sensor.shown = {} THEN Never ELSE Latest(sensor.shown)]
<1>1. /\ at[c] = "syn" /\ WiidGoto(c, "next")
      /\ read' = [read EXCEPT ![c] = 0] /\ tilt' = [tilt EXCEPT ![c] = {}]
      /\ \/ sensor' = (IF sensor.open = {} THEN sensor ELSE shift) /\ failures' = failures
         \/ failures < MaxFaults /\ failures' = failures + 1 /\ sensor' = sensor
      /\ UNCHANGED <<mainVars, linkVars, todo, clock, accTime, keypad, delivered, owed,
                     overlap, reader>>
  BY DEF SendSyn, timeVars
<1>2. /\ read \in [Conns -> 0..MaxTime] /\ tilt \in [Conns -> Tilts \cup {{}}]
      /\ accTime \in 0..MaxTime /\ failures \in Nat
      /\ sensor \in [open : SUBSET (Axes \X Samples),
                     shown : SUBSET (Axes \X Samples), before : 0..Never]
  BY DEF WiidIInv, WiidTypeOK
<1>3. shift.before \in 0..Never
  <2>1. sensor.shown # {} => Latest(sensor.shown) \in 0..MaxTime BY <1>2, LatestType
  <2> QED BY <2>1
<1>4. sensor' \in [open : SUBSET (Axes \X Samples),
                   shown : SUBSET (Axes \X Samples), before : 0..Never]
  <2>1. shift \in [open : SUBSET (Axes \X Samples),
                   shown : SUBSET (Axes \X Samples), before : 0..Never]
    BY <1>2, <1>3
  <2> HIDE DEF shift
  <2> QED BY <1>1, <1>2, <2>1
<1>5. /\ read' \in [Conns -> 0..MaxTime] /\ tilt' \in [Conns -> Tilts \cup {{}}]
      /\ accTime' \in 0..MaxTime
  BY <1>1, <1>2
<1>6. /\ at'[c] = "next" /\ \A d \in Conns \ {c} : at'[d] = at[d]
      /\ WiidTypeOK' /\ MessagesInv' /\ KeysInv' /\ OwedInv' /\ AloneInv'
  <2> HIDE DEF shift
  <2> QED BY <1>1, <1>4, <1>5, SampleFrame
<1>7. SamplesInv'
  <2> SUFFICES ASSUME failures' = 0, ~overlap' PROVE SamplesInv'
    BY DEF SamplesInv
  <2>2. at[c] \in DOMAIN OnItsWay /\ at[c] # "idle" /\ "next" \notin DOMAIN OnItsWay
        /\ OnItsWay[at[c]] = Axes
    BY <1>1 DEF OnItsWay
  <2>1. failures = 0 /\ ~overlap /\ sensor' = (IF sensor.open = {} THEN sensor ELSE shift)
    BY <1>1, <1>2
  <2>3. /\ \A d \in Conns \ {c} : at[d] = "idle"
        /\ sensor.shown # {} =>
             \E u \in Samples :
               sensor.shown = Whole(u) /\ u.time <= accTime /\ Latest(sensor.shown) = u.time
        /\ sensor.shown # {} => sensor.before = Never \/ Latest(sensor.shown) >= sensor.before + RATE
        /\ accTime = read[c] /\ sensor.open = Whole(Present(c))
        /\ sensor.shown # {} => Latest(sensor.shown) + RATE <= read[c]
    <3>1. Whole(Present(c)) = Passed(c, Axes)
      <4>1. Present(c).axes = tilt[c] /\ tilt[c] \subseteq Axes
        BY <1>2, WiidAssumption DEF Present, Axes
      <4>2. Whole(Present(c)) = tilt[c] \X {Present(c)} BY <4>1 DEF Whole
      <4>3. Axes \cap tilt[c] = tilt[c] BY <4>1
      <4> QED BY <4>2, <4>3 DEF Passed
    <3> QED BY <2>1, <2>2, <3>1, SamplesOfAlone
  <2>4. read[c] \in 0..MaxTime /\ Present(c) \in Samples /\ Present(c).time = read[c]
    BY <1>2 DEF Present, Samples
  <2>5. \A d \in Conns \ {c} : at'[d] = "idle" BY <1>6, <2>3
  <2>6. CASE sensor.open = {}
    <3>1. sensor' = sensor /\ accTime' = accTime BY <1>1, <2>1, <2>6
    <3> HIDE DEF shift
    <3> QED BY <1>6, <2>2, <2>3, <2>5, <2>6, <3>1, SamplesAlone
  <2>7. CASE sensor.open # {}
    <3>1. Latest(sensor.open) = read[c]
      <4>1. Present(c).axes # {} BY <2>3, <2>7 DEF Whole
      <4> QED BY <2>3, <2>4, <4>1, LatestWhole
    <3>2. /\ sensor'.open = {} /\ sensor'.shown = Whole(Present(c))
          /\ Latest(sensor'.shown) = read[c]
          /\ sensor'.before = IF sensor.shown = {} THEN Never ELSE Latest(sensor.shown)
      BY <2>1, <2>3, <2>7, <3>1
    <3>3. sensor.shown # {} => read[c] >= Latest(sensor.shown) + RATE
      <4>1. sensor.shown # {} => Latest(sensor.shown) \in Nat BY <1>2, LatestType, WiidBounds
      <4> QED BY <2>3, <2>4, <4>1
    <3>4. accTime' = read[c] /\ read[c] <= accTime' BY <1>1, <2>3, <2>4
    <3> HIDE DEF shift
    <3>5. \E u \in Samples : sensor'.shown = Whole(u) /\ u.time <= accTime' BY <2>4, <3>2, <3>4
    <3> QED BY <1>6, <2>2, <2>5, <3>2, <3>3, <3>5, SamplesAlone
  <2> QED BY <2>6, <2>7
<1> QED BY <1>6, <1>7 DEF WiidIInv

LEMMA WiidNextIInv == WiidIInv /\ [WiidNext]_wiidVars => WiidIInv'
<1> SUFFICES ASSUME WiidIInv, [WiidNext]_wiidVars PROVE WiidIInv'
  OBVIOUS
<1>1. CASE UNCHANGED wiidVars
  <2>1. WiidTypeOK'
    BY <1>1 DEF WiidIInv, WiidTypeOK, wiidVars, mainVars, linkVars, backVars, timeVars, seenVars, noteVars
  <2> QED BY <1>1, <2>1, QuietIInv DEF wiidVars, mainVars, timeVars
<1>2. CASE MainStep
  <2>1. CASE InitInput BY <2>1, InitDeviceIInv DEF InitInput
  <2>2. CASE InitAcc BY <2>2, InitDeviceIInv DEF InitAcc
  <2>3. CASE SetCallback BY <2>3, RouteIInv DEF SetCallback
  <2>4. CASE Enable BY <2>4, RouteIInv DEF Enable
  <2>5. CASE SetButtons BY <2>5, SetReportIInv DEF SetButtons
  <2>6. CASE SetAcc BY <2>6, SetReportIInv DEF SetAcc
  <2> QED
    BY <1>2, <2>1, <2>2, <2>3, <2>4, <2>5, <2>6, WiidConnectIInv, SetLedIInv, WiidCloseIInv DEF MainStep
<1>3. ASSUME NEW c \in Conns, Lose(c) \/ Deliver(c) \/ Callback(c) PROVE WiidIInv'
  BY <1>3, OutsideIInv, DeliverIInv, HandleIInv, ClickIInv, AccelerometerIInv, SendAxisIInv,
     SendSynIInv DEF Callback
<1>4. CASE Tick \/ Look \/ ReadFails BY <1>4, OutsideIInv
<1> QED BY <1>1, <1>2, <1>3, <1>4 DEF WiidNext

LEMMA WiidSpecIInv == WiidSpec => []WiidIInv
BY WiidInitIInv, WiidNextIInv, PTL DEF WiidSpec

-----------------------------------------------------------------------------
(* What the devices promise *)

\* uinput_click() in wiid-tests: as long as no write fails, no key stays down
\* when no callback runs, even if callbacks of two connections have pressed and
\* released it in any order; and if there was one callback at a time, as many
\* clicks were reported as messages asked for.
THEOREM WiidClicksComplete == WiidSpec => []ClicksComplete
<1>1. WiidIInv => ClicksComplete
  <2> SUFFICES ASSUME WiidIInv, Idle, failures = 0, main # "gone"
               PROVE  /\ keypad.down = {} /\ keypad.told = {}
                      /\ overlap \/ owed = 0
    BY DEF WiidIInv, ClicksComplete
  <2>1. \A c \in Conns : at[c] \notin {"press", "press_syn", "release", "release_syn"} BY DEF Idle
  <2> QED BY <2>1 DEF WiidIInv, KeysInv, AloneInv
<1> QED BY <1>1, WiidSpecIInv, PTL

\* wii_handle_accelerometer() in wiid-tests: unless a write failed or two
\* callbacks ran at once, each report is the axes of one sample, all that are
\* not 0, acc_rate_msec at least after the one before.
THEOREM WiidSamplesApart == WiidSpec => []SamplesApart
<1>1. WiidIInv => SamplesApart
  <2> SUFFICES ASSUME WiidIInv, failures = 0, ~overlap, sensor.shown # {}
               PROVE  \E s \in Samples :
                        /\ sensor.shown = s.axes \X {s}
                        /\ sensor.before = Never \/ s.time >= sensor.before + RATE
    BY DEF SamplesApart
  <2>1. PICK u \in Samples : sensor.shown = Whole(u) BY DEF WiidIInv, SamplesInv
  <2>2. u.axes # {} BY <2>1 DEF Whole
  <2>3. Latest(sensor.shown) = u.time BY <2>1, <2>2, LatestWhole
  <2>4. sensor.before = Never \/ u.time >= sensor.before + RATE
    BY <2>3 DEF WiidIInv, SamplesInv
  <2> QED BY <2>1, <2>4 DEF Whole
<1> QED BY <1>1, WiidSpecIInv, PTL

-----------------------------------------------------------------------------
(***************************************************************************)
(* Multicast: packets, lines and faults of the clients, and what is in a   *)
(* server's buffer, for any number of programs and any lengths.            *)
(***************************************************************************)

\* A client's number is its packets and its faults; a C client that goes on has
\* had less than FAULTS of them.
CountInv ==
  \A c \in McastClients :
    /\ phase[c] # "run"
    /\ out[c] \subseteq 0..(cnt[c] - 1)
    /\ cnt[c] = Cardinality(out[c]) + faults[c]
    /\ typed[c] <= enters[c] /\ (phase[c] = "start" => cnt[c] = 0)
    /\ Kind(c) = "c" /\ phase[c] = "send" => faults[c] < FAULTS
    /\ Kind(c) = "c" /\ phase[c] = "done" => faults[c] = FAULTS \/ cnt[c] = 0

\* Lines: a client that is about to send has used one more.
Sent(c) == IF Kind(c) = "c" THEN phase[c] \in {"wait", "done"} ELSE phase[c] # "send"

LinesInv ==
  \A c \in McastClients :
    ~setup[c].cont /\ (Kind(c) = "go" \/ c \notin eof) =>
      cnt[c] + typed[c] + (IF Sent(c) THEN 0 ELSE 1)
        <= enters[c] + (IF Kind(c) = "c" THEN 1 ELSE 0)

\* What is on its way to a C or Rust server was sent to its group; a Rust
\* server's buffer is clear between two reads.
ServerInv ==
  /\ \A d \in net :
       d.what # Empty /\ Kind(d.to) # "go" => setup[d.what.from].group = setup[d.to].group
  /\ \A s \in Servers :
       /\ phase[s] = "run" => faults[s] < FAULTS
       /\ phase[s] = "start" => faults[s] = 0
       /\ Kind(s) = "rust" => \A k \in 1..BUFFER : buffer[s][k] = NUL

McastIInv == McastTypeOK /\ CountInv /\ LinesInv /\ ServerInv /\ OwnText

-----------------------------------------------------------------------------
(* Datagrams and buffers *)

LEMMA McastBounds == /\ BUFFER \in Nat /\ FAULTS \in Nat \ {0} /\ McastClients \cap Servers = {}
                     /\ McastProcs = McastClients \cup Servers
                     /\ MaxPackets \in Nat /\ MaxEnters \in Nat /\ MaxDups \in Nat /\ MaxEmpty \in Nat
BY McastAssumption DEF McastProcs

\* No packet is taken for the datagram of another program or for no text.
LEMMA PacketFacts == /\ Empty \notin Packets /\ NUL \notin Packets
                     /\ \A p \in Packets : p # Empty /\ p # NUL /\ p.from \in McastClients
BY McastAssumption DEF Packets, Empty

\* A packet is its text, and a NUL after it if it is from a C client; a buffer
\* has room for both.
LEMMA BytesFacts ==
  ASSUME NEW what \in Packets
  PROVE  LET n == TextLen[what.from]
         IN  /\ n \in 1..(BUFFER - 2) /\ Len(Bytes(what)) \in {n, n + 1}
             /\ \A k \in 1..n : Bytes(what)[k] = what
             /\ Len(Bytes(what)) = n + 1 => Bytes(what)[n + 1] = NUL
             /\ \A k \in 1..Len(Bytes(what)) : Bytes(what)[k] \in {what, NUL}
<1> DEFINE n == TextLen[what.from]
           text == [k \in 1..n |-> what]
           end == IF Kind(what.from) = "c" THEN <<NUL>> ELSE <<>>
<1>1. n \in 1..(BUFFER - 2) /\ n \in Nat BY McastAssumption, PacketFacts
<1>2. Bytes(what) = text \o end BY PacketFacts DEF Bytes
<1> HIDE DEF n
<1>3. text \in Seq({what, NUL}) /\ Len(text) = n /\ \A k \in 1..n : text[k] = what BY <1>1
<1>4. \/ end = <<NUL>> /\ end \in Seq({what, NUL}) /\ Len(end) = 1 /\ end[1] = NUL
      \/ end = <<>> /\ end \in Seq({what, NUL}) /\ Len(end) = 0
  <2>1. CASE Kind(what.from) = "c"
    <3>1. end = <<NUL>> BY <2>1
    <3>2. <<NUL>> \in Seq({what, NUL}) /\ Len(<<NUL>>) = 1 /\ <<NUL>>[1] = NUL OBVIOUS
    <3> QED BY <3>1, <3>2
  <2>2. CASE Kind(what.from) # "c"
    <3>1. end = <<>> BY <2>2
    <3>2. <<>> \in Seq({what, NUL}) /\ Len(<<>>) = 0 OBVIOUS
    <3> QED BY <3>1, <3>2
  <2> QED BY <2>1, <2>2
<1> HIDE DEF text, end
<1>5. /\ Len(text \o end) = n + Len(end)
      /\ \A k \in 1..n : (text \o end)[k] = what
      /\ \A k \in (n + 1)..(n + Len(end)) : (text \o end)[k] = end[k - n]
  BY <1>1, <1>3, <1>4, ConcatProperties
<1>6. Len(end) = 1 => (text \o end)[n + 1] = NUL
  <2> SUFFICES ASSUME Len(end) = 1 PROVE (text \o end)[n + 1] = NUL
    OBVIOUS
  <2>1. n + 1 \in (n + 1)..(n + Len(end)) /\ (n + 1) - n = 1 BY <1>1
  <2> QED BY <1>4, <1>5, <2>1
<1>7. \A k \in 1..(n + Len(end)) : (text \o end)[k] \in {what, NUL}
  <2> SUFFICES ASSUME NEW k \in 1..(n + Len(end)) PROVE (text \o end)[k] \in {what, NUL}
    OBVIOUS
  <2>0. \A m \in Nat : \A e \in {0, 1} : \A j \in 1..(m + e) : j \in 1..m \/ (e = 1 /\ j = m + 1)
    OBVIOUS
  <2>1. Len(end) \in {0, 1} /\ n \in Nat BY <1>1, <1>4
  <2>2. k \in 1..n \/ (Len(end) = 1 /\ k = n + 1) BY <2>0, <2>1, Zenon
  <2> QED BY <1>5, <1>6, <2>2
<1>8. Len(end) \in {0, 1} BY <1>4
<1>9. Len(Bytes(what)) \in {n, n + 1} /\ (Len(Bytes(what)) = n + 1 => Len(end) = 1)
  BY <1>1, <1>2, <1>5, <1>8
<1> QED BY <1>1, <1>2, <1>5, <1>6, <1>7, <1>9 DEF n

\* What a read does to a buffer.
LEMMA FilledFacts ==
  ASSUME McastTypeOK, NEW s \in Servers, NEW what \in Packets \cup {Empty}
  PROVE  /\ Filled(s, what) \in [1..BUFFER -> Packets \cup {NUL, Junk}]
         /\ what = Empty => Filled(s, what) = buffer[s]
<1>0. buffer[s] \in [1..BUFFER -> Packets \cup {NUL, Junk}] BY DEF McastTypeOK
<1>1. CASE what = Empty
  <2>1. Bytes(what) = <<>> /\ Len(Bytes(what)) = 0 BY <1>1 DEF Bytes
  <2>2. Filled(s, what) = [k \in 1..BUFFER |-> buffer[s][k]] BY <2>1 DEF Filled
  <2> QED BY <1>0, <1>1, <2>1, <2>2
<1>2. CASE what \in Packets
  <2> DEFINE n == TextLen[what.from]
  <2>1. /\ n \in 1..(BUFFER - 2) /\ Len(Bytes(what)) \in {n, n + 1}
        /\ \A k \in 1..Len(Bytes(what)) : Bytes(what)[k] \in {what, NUL}
    BY <1>2, BytesFacts
  <2> HIDE DEF n
  <2>2. Len(Bytes(what)) \in 0..(BUFFER - 1) BY <2>1, McastBounds
  <2>3. \A k \in 1..BUFFER :
          (IF k <= Len(Bytes(what)) THEN Bytes(what)[k] ELSE buffer[s][k]) \in Packets \cup {NUL, Junk}
    <3> SUFFICES ASSUME NEW k \in 1..BUFFER, k <= Len(Bytes(what))
                 PROVE  Bytes(what)[k] \in Packets \cup {NUL, Junk}
      BY <1>0
    <3>1. k \in 1..Len(Bytes(what)) BY <2>2, McastBounds
    <3> QED BY <1>2, <2>1, <3>1
  <2> QED BY <1>2, <2>2, <2>3, PacketFacts DEF Filled
<1> QED BY <1>1, <1>2

\* Reading a packet puts its text at the start of the buffer.
LEMMA FilledText ==
  ASSUME McastTypeOK, NEW s \in Servers, NEW what \in Packets
  PROVE  LET n == TextLen[what.from]
         IN  /\ n \in 1..(BUFFER - 2) /\ Len(Bytes(what)) \in {n, n + 1}
             /\ \A k \in 1..n : Filled(s, what)[k] = what
             /\ Len(Bytes(what)) = n + 1 => Filled(s, what)[n + 1] = NUL
             /\ \A k \in 1..BUFFER : Filled(s, what)[k] \in {what, NUL, buffer[s][k]}
<1> DEFINE n == TextLen[what.from]
<1>1. /\ n \in 1..(BUFFER - 2) /\ Len(Bytes(what)) \in {n, n + 1}
      /\ \A k \in 1..n : Bytes(what)[k] = what
      /\ Len(Bytes(what)) = n + 1 => Bytes(what)[n + 1] = NUL
      /\ \A k \in 1..Len(Bytes(what)) : Bytes(what)[k] \in {what, NUL}
  BY BytesFacts
<1> HIDE DEF n
<1>2. \A k \in 1..BUFFER : Filled(s, what)[k] =
        IF k <= Len(Bytes(what)) THEN Bytes(what)[k] ELSE buffer[s][k]
  BY DEF Filled
<1>3. \A k \in 1..n : k \in 1..BUFFER /\ k <= Len(Bytes(what)) BY <1>1, McastBounds
<1>4. n + 1 \in 1..BUFFER BY <1>1, McastBounds
<1>5. Len(Bytes(what)) = n + 1 => Filled(s, what)[n + 1] = NUL
  BY <1>1, <1>2, <1>4
<1>6. \A k \in 1..BUFFER : Filled(s, what)[k] \in {what, NUL, buffer[s][k]}
  <2> SUFFICES ASSUME NEW k \in 1..BUFFER PROVE Filled(s, what)[k] \in {what, NUL, buffer[s][k]}
    OBVIOUS
  <2>1. k <= Len(Bytes(what)) => k \in 1..Len(Bytes(what)) BY <1>1
  <2> QED BY <1>1, <1>2, <2>1
<1> QED BY <1>1, <1>2, <1>3, <1>5, <1>6 DEF n

\* %s prints the packet and nothing else.
LEMMA CTextOfPacket ==
  ASSUME McastTypeOK, NEW s \in Servers, NEW what \in Packets
  PROVE  CText(Terminated(Filled(s, what), Len(Bytes(what)))) = {what}
<1> DEFINE n == TextLen[what.from]
           old == Filled(s, what)
           cells == Terminated(old, Len(Bytes(what)))
           D == {l \in DOMAIN cells : \A m \in 1..l : cells[m] # NUL}
<1>1. /\ n \in 1..(BUFFER - 2) /\ Len(Bytes(what)) \in {n, n + 1}
      /\ \A k \in 1..n : old[k] = what
      /\ Len(Bytes(what)) = n + 1 => old[n + 1] = NUL
  BY FilledText
<1>2. old \in [1..BUFFER -> Packets \cup {NUL, Junk}] BY FilledFacts
<1> HIDE DEF n, old
<1>3. /\ DOMAIN cells = 1..BUFFER /\ n + 1 \in 1..BUFFER /\ \A k \in 1..n : k \in 1..BUFFER
      /\ \A k \in 1..n : cells[k] = what
      /\ cells[n + 1] = NUL
  <2>1. n + 1 \in 1..BUFFER /\ \A k \in 1..n : k \in 1..BUFFER BY <1>1, McastBounds
  <2>2. Len(Bytes(what)) + 1 \in {n + 1, n + 2} /\ \A k \in 1..n : k # Len(Bytes(what)) + 1
    BY <1>1
  <2>3. \A k \in 1..n : cells[k] = what BY <1>1, <1>2, <2>1, <2>2 DEF Terminated
  <2>4. cells[n + 1] = NUL
    <3>1. CASE Len(Bytes(what)) = n BY <1>2, <2>1, <3>1 DEF Terminated
    <3>2. CASE Len(Bytes(what)) = n + 1
      <4>1. n + 1 # (n + 1) + 1 BY <1>1
      <4> QED BY <1>1, <1>2, <2>1, <3>2, <4>1 DEF Terminated
    <3> QED BY <1>1, <3>1, <3>2
  <2>5. DOMAIN cells = 1..BUFFER BY <1>2 DEF Terminated
  <2> QED BY <2>1, <2>3, <2>4, <2>5
<1> HIDE DEF cells
<1>4. D = 1..n
  <2>1. ASSUME NEW l \in D PROVE l \in 1..n
    <3>1. l \in 1..BUFFER /\ ~(n + 1 \in 1..l) BY <1>3
    <3> QED BY <1>1, <3>1
  <2>2. ASSUME NEW l \in 1..n PROVE l \in D
    <3>1. \A m \in 1..l : m \in 1..n BY <1>1
    <3> QED BY <1>3, <3>1, PacketFacts
  <2> QED BY <2>1, <2>2
<1>5. CText(cells) = {cells[k] : k \in D} \ {NUL}
  BY DEF CText, Text
<1>6. {cells[k] : k \in 1..n} = {what}
  <2>1. 1 \in 1..n BY <1>1
  <2> QED BY <1>3, <2>1
<1>7. CText(cells) = {what} \ {NUL} BY <1>4, <1>5, <1>6
<1> QED BY <1>7, PacketFacts DEF cells, old

-----------------------------------------------------------------------------
(* Every step preserves the invariant *)

LEMMA McastInitIInv == McastInit => McastIInv
<1> SUFFICES ASSUME McastInit PROVE McastIInv
  OBVIOUS
<1> USE McastBounds DEF McastInit
<1>1. McastTypeOK
  <2>1. buffer \in [Servers -> [1..BUFFER -> Packets \cup {NUL, Junk}]] OBVIOUS
  <2>2. shown \in [Servers -> [of : Packets \cup {Empty}, text : SUBSET (Packets \cup {Junk})]]
    BY DEF Nothing
  <2>3. faults \in [McastProcs -> 0..FAULTS] OBVIOUS
  <2> QED BY <2>1, <2>2, <2>3 DEF McastTypeOK
<1>2. CountInv
  <2>1. \A c \in McastClients : Cardinality(out[c]) = 0 BY FS_EmptySet
  <2> QED BY <2>1 DEF CountInv
<1>3. LinesInv BY DEF LinesInv, Sent
<1>4. ServerInv BY DEF ServerInv, Kind
<1>5. OwnText BY DEF OwnText, Nothing
<1> QED BY <1>1, <1>2, <1>3, <1>4, <1>5 DEF McastIInv

\* What a step of a server means for the clients, and the reverse.
LEMMA ClientsFrame ==
  ASSUME McastIInv, UNCHANGED <<setup, clientVars>>,
         \A c \in McastClients : phase'[c] = phase[c] /\ faults'[c] = faults[c]
  PROVE  CountInv' /\ LinesInv'
<1>1. UNCHANGED <<setup, cnt, out, typed, enters, eof>> BY DEF clientVars, stdinVars
<1>2. CountInv' BY <1>1 DEF McastIInv, CountInv, Kind
<1>3. LinesInv' BY <1>1 DEF McastIInv, LinesInv, Kind, Sent
<1> QED BY <1>2, <1>3

LEMMA ServersFrame ==
  ASSUME McastIInv, UNCHANGED <<setup, buffer, shown>>,
         \A s \in Servers : phase'[s] = phase[s] /\ faults'[s] = faults[s],
         \A d \in net' \ net : d.what # Empty /\ Kind(d.to) # "go" =>
                                 setup[d.what.from].group = setup[d.to].group
  PROVE  ServerInv' /\ OwnText'
<1>1. ServerInv' BY DEF McastIInv, ServerInv, Kind
<1>2. OwnText' BY DEF McastIInv, OwnText, Kind
<1> QED BY <1>1, <1>2

\* A step of a client c.
ClientDone(c) ==
  /\ phase[c] # "run"
  /\ out[c] \subseteq 0..(cnt[c] - 1)
  /\ cnt[c] = Cardinality(out[c]) + faults[c]
  /\ typed[c] <= enters[c] /\ (phase[c] = "start" => cnt[c] = 0)
  /\ Kind(c) = "c" /\ phase[c] = "send" => faults[c] < FAULTS
  /\ Kind(c) = "c" /\ phase[c] = "done" => faults[c] = FAULTS \/ cnt[c] = 0
  /\ ~setup[c].cont /\ (Kind(c) = "go" \/ c \notin eof) =>
       cnt[c] + typed[c] + (IF Sent(c) THEN 0 ELSE 1)
         <= enters[c] + (IF Kind(c) = "c" THEN 1 ELSE 0)

LEMMA ClientFrame ==
  ASSUME McastIInv, NEW c \in McastClients, UNCHANGED <<setup, buffer, shown>>,
         \A p \in McastProcs \ {c} : phase'[p] = phase[p] /\ faults'[p] = faults[p],
         \A d \in McastClients \ {c} : /\ cnt'[d] = cnt[d] /\ out'[d] = out[d] /\ typed'[d] = typed[d]
                                       /\ enters'[d] = enters[d] /\ (d \in eof' <=> d \in eof),
         \A d \in net' \ net : d.what # Empty /\ Kind(d.to) # "go" =>
                                 setup[d.what.from].group = setup[d.to].group,
         ClientDone(c)'
  PROVE  CountInv' /\ LinesInv' /\ ServerInv' /\ OwnText'
<1>1. \A s \in Servers : s \in McastProcs \ {c} BY McastBounds
<1>2. ServerInv' /\ OwnText' BY <1>1, ServersFrame
<1>3. ASSUME NEW d \in McastClients PROVE ClientDone(d)'
  <2>1. CASE d = c BY <2>1
  <2>2. CASE d # c
    <3>1. d \in McastProcs \ {c} BY <2>2, McastBounds
    <3> QED BY <2>2, <3>1 DEF McastIInv, CountInv, LinesInv, ClientDone, Sent, Kind
  <2> QED BY <2>1, <2>2
<1> QED BY <1>2, <1>3 DEF CountInv, LinesInv, ClientDone

LEMMA ClientFacts ==
  ASSUME McastIInv, NEW c \in McastClients
  PROVE  /\ ClientDone(c) /\ c \in McastProcs /\ setup \in Setups
         /\ cnt[c] \in 0..MaxPackets /\ out[c] \subseteq 0..MaxPackets
         /\ typed[c] \in Nat /\ enters[c] \in Nat /\ faults[c] \in 0..FAULTS
         /\ IsFiniteSet(out[c]) /\ Cardinality(out[c]) \in Nat
         /\ Kind(c) \in {"c", "go", "rust"} /\ setup[c].cont \in BOOLEAN
<1>1. ClientDone(c) BY DEF McastIInv, CountInv, LinesInv, ClientDone
<1>2. /\ c \in McastProcs /\ setup \in Setups /\ cnt[c] \in 0..MaxPackets /\ out[c] \subseteq 0..MaxPackets
      /\ typed[c] \in 0..MaxEnters /\ enters[c] \in 0..MaxEnters /\ faults[c] \in 0..FAULTS
  BY McastBounds DEF McastIInv, McastTypeOK
<1>3. IsFiniteSet(0..MaxPackets) BY McastBounds, FS_Interval
<1>4. IsFiniteSet(out[c]) /\ Cardinality(out[c]) \in Nat
  BY <1>2, <1>3, FS_Subset, FS_CardinalityType
<1>5. Kind(c) \in {"c", "go", "rust"} /\ setup[c].cont \in BOOLEAN
  BY <1>2, McastAssumption DEF Kind
<1> QED BY <1>1, <1>2, <1>4, <1>5, McastBounds

\* A server is started, or a client.
LEMMA StartIInv ==
  ASSUME McastIInv, NEW p \in McastProcs, CStart(p) \/ GoStart(p) \/ RustStart(p)
  PROVE  McastIInv'
<1>1. PICK first \in {"send", "wait"} : Begin(p, first) /\ (Kind(p) = "c" <=> first = "send")
  BY DEF CStart, GoStart, RustStart
<1>2. PICK to \in {"done", "run", first} :
        /\ McastGoto(p, to)
        /\ p \in McastClients => to \in {"done", first}
        /\ p \notin McastClients => to # first
  BY <1>1, McastBounds DEF Begin
<1>3. /\ phase[p] = "start" /\ phase'[p] = to /\ \A q \in McastProcs \ {p} : phase'[q] = phase[q]
      /\ UNCHANGED <<setup, clientVars, faults, net, buffer, shown, boundVars>>
  BY <1>1, <1>2 DEF McastIInv, McastTypeOK, McastGoto, Begin
<1>4. McastTypeOK'
  BY <1>1, <1>2, <1>3 DEF McastIInv, McastTypeOK, McastGoto, clientVars, stdinVars, boundVars
<1>5. CASE p \in McastClients
  <2>1. UNCHANGED <<cnt, out, typed, enters, eof>> BY <1>3 DEF clientVars, stdinVars
  <2>2. ClientDone(p)'
    <3>1. faults[p] = 0 /\ cnt[p] = 0 BY <1>3, <1>5, ClientFacts DEF ClientDone
    <3> QED
      BY <1>1, <1>2, <1>3, <1>5, <2>1, <3>1, ClientFacts, McastBounds DEF ClientDone, Sent, Kind
  <2> QED BY <1>3, <1>4, <1>5, <2>1, <2>2, ClientFrame DEF McastIInv
<1>6. CASE p \in Servers
  <2>1. \A c \in McastClients : c \in McastProcs \ {p} BY <1>6, McastBounds
  <2>2. CountInv' /\ LinesInv' BY <1>3, <2>1, ClientsFrame
  <2>3. faults[p] = 0 BY <1>3, <1>6 DEF McastIInv, ServerInv
  <2>4. ServerInv'
    <3>1. \A s \in Servers : phase'[s] = "start" => phase[s] = "start"
      BY <1>2, <1>3, <1>6, McastBounds
    <3>2. \A s \in Servers : phase'[s] = "run" => faults[s] < FAULTS
      BY <1>3, <2>3, McastBounds DEF McastIInv, ServerInv
    <3> QED BY <1>3, <3>1, <3>2 DEF McastIInv, ServerInv, Kind
  <2>5. OwnText' BY <1>3 DEF McastIInv, OwnText, Kind
  <2> QED BY <1>4, <2>2, <2>4, <2>5 DEF McastIInv
<1> QED BY <1>5, <1>6, McastBounds

LEMMA SendEmptyIInv == ASSUME McastIInv, NEW s \in Servers, SendEmpty(s) PROVE McastIInv'
<1> USE McastBounds DEF SendEmpty
<1>1. McastTypeOK' BY DEF McastIInv, McastTypeOK, clientVars, stdinVars
<1>2. CountInv' /\ LinesInv' BY ClientsFrame
<1>3. \A d \in net' \ net : d.what = Empty OBVIOUS
<1>4. ServerInv' /\ OwnText' BY <1>3, ServersFrame
<1> QED BY <1>1, <1>2, <1>4 DEF McastIInv

LEMMA TypeIInv == ASSUME McastIInv, NEW c \in McastClients, Type(c) PROVE McastIInv'
<1> USE McastBounds
<1>1. /\ ~setup[c].cont /\ c \notin eof
      /\ \/ /\ enters[c] < MaxEnters /\ enters' = [enters EXCEPT ![c] = @ + 1]
            /\ typed' = [typed EXCEPT ![c] = @ + 1] /\ eof' = eof
         \/ eof' = eof \cup {c} /\ enters' = enters /\ typed' = typed
      /\ UNCHANGED <<setup, phase, cnt, out, nop, faults, net, buffer, shown, boundVars>>
  BY DEF Type
<1>2. ClientDone(c) /\ cnt[c] \in Nat /\ typed[c] \in Nat /\ enters[c] \in Nat BY ClientFacts
<1>3. enters \in [McastClients -> 0..MaxEnters] /\ typed \in [McastClients -> 0..MaxEnters]
  BY DEF McastIInv, McastTypeOK
<1>4. typed[c] <= enters[c] BY <1>2 DEF ClientDone
<1>5. CASE /\ enters[c] < MaxEnters /\ enters' = [enters EXCEPT ![c] = @ + 1]
           /\ typed' = [typed EXCEPT ![c] = @ + 1] /\ eof' = eof
  <2>1. /\ enters'[c] = enters[c] + 1 /\ typed'[c] = typed[c] + 1
        /\ enters' \in [McastClients -> 0..MaxEnters] /\ typed' \in [McastClients -> 0..MaxEnters]
        /\ \A d \in McastClients \ {c} : enters'[d] = enters[d] /\ typed'[d] = typed[d]
    BY <1>2, <1>3, <1>4, <1>5
  <2>2. McastTypeOK' BY <1>1, <1>5, <2>1 DEF McastIInv, McastTypeOK, boundVars
  <2>3. ClientDone(c)'
    <3>1. typed'[c] <= enters'[c] BY <1>2, <1>4, <2>1
    <3>2. ~setup[c].cont /\ (Kind(c) = "go" \/ c \notin eof) =>
            cnt[c] + typed'[c] + (IF Sent(c) THEN 0 ELSE 1)
              <= enters'[c] + (IF Kind(c) = "c" THEN 1 ELSE 0)
      BY <1>2, <2>1 DEF ClientDone
    <3> QED BY <1>1, <1>2, <1>5, <3>1, <3>2 DEF ClientDone, Sent, Kind
  <2> QED BY <1>1, <1>5, <2>1, <2>2, <2>3, ClientFrame DEF McastIInv
<1>6. CASE eof' = eof \cup {c} /\ enters' = enters /\ typed' = typed
  <2>1. McastTypeOK' BY <1>1, <1>6 DEF McastIInv, McastTypeOK, boundVars
  <2>2. ClientDone(c)' BY <1>1, <1>2, <1>6 DEF ClientDone, Sent, Kind
  <2> QED BY <1>1, <1>6, <2>1, <2>2, ClientFrame DEF McastIInv
<1> QED BY <1>1, <1>5, <1>6

\* Datagrams that a client sends are for its own group, but for Go servers.
LEMMA SendToFacts ==
  ASSUME McastIInv, NEW c \in McastClients, cnt[c] < MaxPackets, SendTo(c), setup' = setup,
         cnt' = [cnt EXCEPT ![c] = @ + 1]
  PROVE  /\ net' \subseteq [to : Servers, what : Packets \cup {Empty}]
         /\ \A d \in net' \ net : d.what # Empty /\ Kind(d.to) # "go" =>
                                    setup[d.what.from].group = setup[d.to].group
         /\ out' \in [McastClients -> SUBSET (0..MaxPackets)] /\ cnt' \in [McastClients -> 0..MaxPackets]
         /\ \A d \in McastClients \ {c} : out'[d] = out[d] /\ cnt'[d] = cnt[d]
         /\ cnt'[c] = cnt[c] + 1 /\ out'[c] \subseteq 0..(cnt'[c] - 1)
         /\ Cardinality(out'[c]) = Cardinality(out[c]) + 1
<1> USE McastBounds
<1>1. /\ cnt \in [McastClients -> 0..MaxPackets] /\ out \in [McastClients -> SUBSET (0..MaxPackets)]
      /\ net \subseteq [to : Servers, what : Packets \cup {Empty}]
  BY DEF McastIInv, McastTypeOK
<1>2. PICK reached \in SUBSET Receivers(c) :
        net' = net \cup {[to |-> s, what |-> [from |-> c, num |-> cnt[c]]] : s \in reached}
  BY DEF SendTo
<1>3. [from |-> c, num |-> cnt[c]] \in Packets BY <1>1 DEF Packets
<1>4. net' \subseteq [to : Servers, what : Packets \cup {Empty}]
  BY <1>1, <1>2, <1>3 DEF Receivers
<1>5. \A d \in net' \ net : d.what # Empty /\ Kind(d.to) # "go" =>
                              setup[d.what.from].group = setup[d.to].group
  BY <1>2 DEF Receivers
<1>6. out' = [out EXCEPT ![c] = @ \cup {cnt[c]}] BY DEF SendTo
<1>7. cnt'[c] = cnt[c] + 1 /\ out'[c] = out[c] \cup {cnt[c]} BY <1>1, <1>6
<1>8. out[c] \subseteq 0..(cnt[c] - 1) /\ IsFiniteSet(out[c]) BY ClientFacts DEF ClientDone
<1>9. cnt[c] \notin out[c] /\ out'[c] \subseteq 0..(cnt'[c] - 1) BY <1>1, <1>7, <1>8
<1>10. Cardinality(out'[c]) = Cardinality(out[c]) + 1 BY <1>7, <1>8, <1>9, FS_AddElement
<1>11. out' \in [McastClients -> SUBSET (0..MaxPackets)] /\ cnt' \in [McastClients -> 0..MaxPackets]
  BY <1>1, <1>6
<1> QED BY <1>1, <1>4, <1>5, <1>6, <1>7, <1>9, <1>10, <1>11

LEMMA CSendIInv == ASSUME McastIInv, NEW c \in McastClients, CSend(c) PROVE McastIInv'
<1> USE McastBounds
<1>1. /\ Kind(c) = "c" /\ phase[c] = "send" /\ cnt[c] < MaxPackets
      /\ cnt' = [cnt EXCEPT ![c] = @ + 1] /\ McastGoto(c, "wait")
      /\ \/ SendTo(c) /\ faults' = faults
         \/ faults' = [faults EXCEPT ![c] = @ + 1] /\ net' = net /\ out' = out
      /\ UNCHANGED <<setup, typed, enters, eof, nop, buffer, shown, boundVars>>
  BY DEF CSend, stdinVars
<1>2. /\ ClientDone(c) /\ cnt[c] \in 0..MaxPackets /\ typed[c] \in Nat /\ enters[c] \in Nat
      /\ faults[c] \in 0..FAULTS /\ c \in McastProcs /\ Cardinality(out[c]) \in Nat
      /\ out[c] \subseteq 0..MaxPackets
  BY ClientFacts
<1>3. /\ phase'[c] = "wait" /\ \A p \in McastProcs \ {c} : phase'[p] = phase[p]
      /\ cnt'[c] = cnt[c] + 1 /\ \A d \in McastClients \ {c} : cnt'[d] = cnt[d]
      /\ cnt' \in [McastClients -> 0..MaxPackets]
      /\ phase' \in [McastProcs -> {"start", "send", "wait", "run", "done"}]
  BY <1>1, <1>2 DEF McastIInv, McastTypeOK, McastGoto
<1>4. ~setup[c].cont /\ (Kind(c) = "go" \/ c \notin eof) => cnt'[c] + typed[c] <= enters[c] + 1
  BY <1>1, <1>2, <1>3 DEF ClientDone, Sent
<1>5. CASE SendTo(c) /\ faults' = faults
  <2>1. /\ net' \subseteq [to : Servers, what : Packets \cup {Empty}]
        /\ \A d \in net' \ net : d.what # Empty /\ Kind(d.to) # "go" =>
                                    setup[d.what.from].group = setup[d.to].group
        /\ out' \in [McastClients -> SUBSET (0..MaxPackets)]
        /\ \A d \in McastClients \ {c} : out'[d] = out[d]
        /\ out'[c] \subseteq 0..(cnt'[c] - 1) /\ Cardinality(out'[c]) = Cardinality(out[c]) + 1
    BY <1>1, <1>5, SendToFacts
  <2>2. McastTypeOK' BY <1>1, <1>3, <1>5, <2>1 DEF McastIInv, McastTypeOK, boundVars
  <2>3. cnt'[c] = Cardinality(out'[c]) + faults'[c] BY <1>2, <1>3, <1>5, <2>1 DEF ClientDone
  <2>4. ClientDone(c)' BY <1>1, <1>2, <1>3, <1>4, <1>5, <2>1, <2>3 DEF ClientDone, Sent, Kind
  <2> QED BY <1>1, <1>3, <1>5, <2>1, <2>2, <2>4, ClientFrame DEF McastIInv
<1>6. CASE faults' = [faults EXCEPT ![c] = @ + 1] /\ net' = net /\ out' = out
  <2>1. /\ faults'[c] = faults[c] + 1 /\ \A p \in McastProcs \ {c} : faults'[p] = faults[p]
        /\ faults' \in [McastProcs -> 0..FAULTS]
    BY <1>1, <1>2, <1>6 DEF McastIInv, McastTypeOK, ClientDone
  <2>2. McastTypeOK' BY <1>1, <1>3, <1>6, <2>1 DEF McastIInv, McastTypeOK, boundVars
  <2>3. out'[c] \subseteq 0..(cnt'[c] - 1) BY <1>2, <1>3, <1>6 DEF ClientDone
  <2>4. cnt'[c] = Cardinality(out'[c]) + faults'[c] BY <1>2, <1>3, <1>6, <2>1 DEF ClientDone
  <2>5. ClientDone(c)' BY <1>1, <1>2, <1>3, <1>4, <1>6, <2>3, <2>4 DEF ClientDone, Sent, Kind
  <2> QED BY <1>1, <1>3, <1>6, <2>1, <2>2, <2>5, ClientFrame DEF McastIInv
<1> QED BY <1>1, <1>5, <1>6

LEMMA McastSendIInv == ASSUME McastIInv, NEW c \in McastClients, McastSend(c) PROVE McastIInv'
<1> USE McastBounds
<1>1. /\ Kind(c) # "c" /\ phase[c] = "send" /\ cnt[c] < MaxPackets
      /\ \/ SendTo(c) /\ cnt' = [cnt EXCEPT ![c] = @ + 1] /\ McastGoto(c, "wait")
         \/ McastGoto(c, "done") /\ cnt' = cnt /\ out' = out /\ net' = net
      /\ UNCHANGED <<setup, typed, enters, eof, nop, faults, buffer, shown, boundVars>>
  BY DEF McastSend, stdinVars
<1>2. /\ ClientDone(c) /\ cnt[c] \in 0..MaxPackets /\ typed[c] \in Nat /\ enters[c] \in Nat
      /\ faults[c] \in 0..FAULTS /\ c \in McastProcs /\ Cardinality(out[c]) \in Nat
  BY ClientFacts
<1>3. ~setup[c].cont /\ (Kind(c) = "go" \/ c \notin eof) => cnt[c] + typed[c] + 1 <= enters[c]
  BY <1>1, <1>2 DEF ClientDone, Sent
<1>4. ASSUME NEW to \in {"wait", "done"}, McastGoto(c, to)
      PROVE  /\ phase'[c] = to /\ \A p \in McastProcs \ {c} : phase'[p] = phase[p]
             /\ phase' \in [McastProcs -> {"start", "send", "wait", "run", "done"}]
  BY <1>2, <1>4 DEF McastIInv, McastTypeOK, McastGoto
<1>5. CASE SendTo(c) /\ cnt' = [cnt EXCEPT ![c] = @ + 1] /\ McastGoto(c, "wait")
  <2>1. /\ net' \subseteq [to : Servers, what : Packets \cup {Empty}]
        /\ \A d \in net' \ net : d.what # Empty /\ Kind(d.to) # "go" =>
                                    setup[d.what.from].group = setup[d.to].group
        /\ out' \in [McastClients -> SUBSET (0..MaxPackets)] /\ cnt' \in [McastClients -> 0..MaxPackets]
        /\ \A d \in McastClients \ {c} : out'[d] = out[d] /\ cnt'[d] = cnt[d]
        /\ cnt'[c] = cnt[c] + 1
        /\ out'[c] \subseteq 0..(cnt'[c] - 1) /\ Cardinality(out'[c]) = Cardinality(out[c]) + 1
    BY <1>1, <1>5, SendToFacts
  <2>2. McastTypeOK' BY <1>1, <1>4, <1>5, <2>1 DEF McastIInv, McastTypeOK, boundVars
  <2>3. cnt'[c] = Cardinality(out'[c]) + faults'[c] BY <1>1, <1>2, <2>1 DEF ClientDone
  <2>4. ~setup[c].cont /\ (Kind(c) = "go" \/ c \notin eof) => cnt'[c] + typed[c] <= enters[c]
    BY <1>2, <1>3, <2>1
  <2>5. ClientDone(c)' BY <1>1, <1>2, <1>4, <1>5, <2>1, <2>3, <2>4 DEF ClientDone, Sent, Kind
  <2> QED BY <1>1, <1>4, <1>5, <2>1, <2>2, <2>5, ClientFrame DEF McastIInv
<1>6. CASE McastGoto(c, "done") /\ cnt' = cnt /\ out' = out /\ net' = net
  <2>1. McastTypeOK' BY <1>1, <1>4, <1>6 DEF McastIInv, McastTypeOK, boundVars
  <2>2. ClientDone(c)' BY <1>1, <1>2, <1>3, <1>4, <1>6 DEF ClientDone, Sent, Kind
  <2> QED BY <1>1, <1>4, <1>6, <2>1, <2>2, ClientFrame DEF McastIInv
<1> QED BY <1>1, <1>5, <1>6

\* A client has slept, read a line or met the end of stdin, and goes on or ends.
LEMMA WaitIInv ==
  ASSUME McastIInv, NEW c \in McastClients, NEW to \in {"send", "done"}, phase[c] = "wait", McastGoto(c, to),
         \/ Line(c) /\ (Kind(c) # "c" => to = "send")
         \/ AtEof(c) /\ typed' = typed /\ (Kind(c) = "go" => to = "done"),
         Kind(c) = "c" => (to = "done" <=> Tired(faults[c])),
         nop' \subseteq McastClients,
         UNCHANGED <<setup, cnt, out, enters, eof, faults, net, buffer, shown, boundVars>>
  PROVE  McastIInv'
<1> USE McastBounds
<1>1. /\ ClientDone(c) /\ cnt[c] \in 0..MaxPackets /\ typed[c] \in Nat /\ enters[c] \in Nat
      /\ faults[c] \in 0..FAULTS /\ c \in McastProcs /\ setup[c].cont \in BOOLEAN
  BY ClientFacts
<1>2. /\ phase'[c] = to /\ \A p \in McastProcs \ {c} : phase'[p] = phase[p]
      /\ phase' \in [McastProcs -> {"start", "send", "wait", "run", "done"}]
  BY <1>1 DEF McastIInv, McastTypeOK, McastGoto
<1>3. typed \in [McastClients -> 0..MaxEnters] BY DEF McastIInv, McastTypeOK
<1>4. /\ typed' \in [McastClients -> 0..MaxEnters] /\ \A d \in McastClients \ {c} : typed'[d] = typed[d]
      /\ \/ setup[c].cont /\ typed'[c] = typed[c]
         \/ typed[c] > 0 /\ typed'[c] = typed[c] - 1 /\ (Kind(c) # "c" => to = "send")
         \/ c \in eof /\ typed'[c] = typed[c] /\ (Kind(c) = "go" => to = "done")
  BY <1>1, <1>3 DEF Line, AtEof
<1>5. McastTypeOK' BY <1>2, <1>4 DEF McastIInv, McastTypeOK, boundVars
<1>6. ~setup[c].cont /\ (Kind(c) = "go" \/ c \notin eof) =>
        cnt[c] + typed'[c] + (IF Sent(c)' THEN 0 ELSE 1)
          <= enters[c] + (IF Kind(c) = "c" THEN 1 ELSE 0)
  <2> SUFFICES ASSUME ~setup[c].cont, Kind(c) = "go" \/ c \notin eof
               PROVE  cnt[c] + typed'[c] + (IF Sent(c)' THEN 0 ELSE 1)
                        <= enters[c] + (IF Kind(c) = "c" THEN 1 ELSE 0)
    OBVIOUS
  <2>1. cnt[c] + typed[c] <= enters[c] + (IF Kind(c) = "c" THEN 1 ELSE 0)
    BY <1>1 DEF ClientDone, Sent
  <2>2. Sent(c)' = (IF Kind(c) = "c" THEN to = "done" ELSE to # "send")
    BY <1>2 DEF Sent, Kind
  <2> DEFINE spare == enters[c] + (IF Kind(c) = "c" THEN 1 ELSE 0)
             step == IF Sent(c)' THEN 0 ELSE 1
  <2>3. spare \in Nat /\ step \in {0, 1} /\ cnt[c] + typed[c] <= spare BY <1>1, <2>1
  <2>4. \/ typed[c] > 0 /\ typed'[c] = typed[c] - 1
        \/ typed'[c] = typed[c] /\ step = 0
    <3>1. CASE c \in eof /\ typed'[c] = typed[c] /\ (Kind(c) = "go" => to = "done")
      <4>1. to = "done" /\ Kind(c) # "c" BY <3>1
      <4> QED BY <2>2, <3>1, <4>1
    <3> QED BY <1>4, <3>1
  <2> HIDE DEF spare, step
  <2>5. cnt[c] + typed'[c] + step <= spare BY <1>1, <2>3, <2>4
  <2> QED BY <2>5 DEF spare, step
<1>7. typed'[c] <= enters[c] BY <1>1, <1>4 DEF ClientDone
<1>8. Kind(c) = "c" => /\ to = "send" => faults[c] < FAULTS
                       /\ to = "done" => faults[c] = FAULTS
  BY <1>1 DEF Tired
<1>9. ClientDone(c)' BY <1>1, <1>2, <1>6, <1>7, <1>8 DEF ClientDone, Kind
<1> QED BY <1>2, <1>4, <1>5, <1>9, ClientFrame DEF McastIInv

LEMMA WaitsIInv ==
  ASSUME McastIInv, NEW c \in McastClients, CWait(c) \/ GoWait(c) \/ RustWait(c)
  PROVE  McastIInv'
<1>1. nop \subseteq McastClients BY DEF McastIInv, McastTypeOK
<1>2. CASE CWait(c)
  <2>1. PICK to \in {"send", "done"} : McastGoto(c, to) /\ (to = "done" <=> Tired(faults[c]))
    BY <1>2 DEF CWait
  <2> QED BY <1>1, <1>2, <2>1, WaitIInv DEF CWait
<1>3. CASE GoWait(c) BY <1>1, <1>3, WaitIInv DEF GoWait
<1>4. CASE RustWait(c)
  <2>1. CASE Line(c) /\ McastGoto(c, "send") /\ nop' = (IF setup[c].cont THEN nop ELSE nop \cup {c})
    BY <1>1, <1>4, <2>1, WaitIInv DEF RustWait
  <2>2. CASE AtEof(c) /\ UNCHANGED <<typed, nop>> /\ McastGoto(c, IF c \in nop THEN "send" ELSE "done")
    <3>1. PICK to \in {"send", "done"} : McastGoto(c, to) BY <2>2
    <3> QED BY <1>1, <1>4, <2>2, <3>1, WaitIInv DEF RustWait
  <2> QED BY <1>4, <2>1, <2>2 DEF RustWait
<1> QED BY <1>2, <1>3, <1>4

\* Steps of the servers.
LEMMA ServerStep ==
  ASSUME McastIInv, NEW s \in Servers, phase[s] = "run",
         McastGoto(s, "run") \/ McastGoto(s, "done"),
         faults' = faults \/ faults' = [faults EXCEPT ![s] = @ + 1],
         phase'[s] = "run" => faults'[s] < FAULTS,
         net' \subseteq net, dups' \in 0..MaxDups,
         \A t \in Servers \ {s} : buffer'[t] = buffer[t] /\ shown'[t] = shown[t],
         buffer' \in [Servers -> [1..BUFFER -> Packets \cup {NUL, Junk}]],
         Kind(s) = "rust" => \A k \in 1..BUFFER : buffer'[s][k] = NUL,
         shown' \in [Servers -> [of : Packets \cup {Empty}, text : SUBSET (Packets \cup {Junk})]],
         shown'[s].of # Empty => /\ setup[shown'[s].of.from].group = setup[s].group
                                 /\ shown'[s].of \in shown'[s].text,
         Kind(s) # "go" => shown'[s].text \subseteq {shown'[s].of},
         UNCHANGED <<setup, clientVars, empties>>
  PROVE  McastIInv'
<1> USE McastBounds
<1>1. s \in McastProcs /\ faults[s] \in 0..FAULTS /\ faults[s] < FAULTS
  BY DEF McastIInv, McastTypeOK, ServerInv
<1>2. /\ phase'[s] \in {"run", "done"} /\ \A p \in McastProcs \ {s} : phase'[p] = phase[p]
      /\ phase' \in [McastProcs -> {"start", "send", "wait", "run", "done"}]
  BY <1>1 DEF McastIInv, McastTypeOK, McastGoto
<1>3. /\ \A p \in McastProcs \ {s} : faults'[p] = faults[p]
      /\ faults' \in [McastProcs -> 0..FAULTS]
  <2>1. faults \in [McastProcs -> 0..FAULTS] BY DEF McastIInv, McastTypeOK
  <2>2. faults[s] + 1 \in 0..FAULTS BY <1>1
  <2>3. CASE faults' = [faults EXCEPT ![s] = @ + 1] BY <1>1, <2>1, <2>2, <2>3
  <2> QED BY <2>1, <2>3
<1>4. McastTypeOK' BY <1>2, <1>3 DEF McastIInv, McastTypeOK, clientVars, stdinVars
<1>5. \A c \in McastClients : c \in McastProcs \ {s} OBVIOUS
<1>6. CountInv' /\ LinesInv' BY <1>2, <1>3, <1>5, ClientsFrame
<1>7. ServerInv'
  <2>1. \A d \in net' : d.what # Empty /\ Kind(d.to) # "go" =>
                          setup[d.what.from].group = setup[d.to].group
    BY DEF McastIInv, ServerInv
  <2>2. ASSUME NEW t \in Servers
        PROVE  /\ phase'[t] = "run" => faults'[t] < FAULTS
               /\ phase'[t] = "start" => faults'[t] = 0
               /\ Kind(t) = "rust" => \A k \in 1..BUFFER : buffer'[t][k] = NUL
    <3>1. CASE t = s BY <1>2, <3>1
    <3>2. CASE t # s
      <4>1. t \in McastProcs \ {s} /\ t \in Servers \ {s} BY <3>2
      <4>2. phase'[t] = phase[t] /\ faults'[t] = faults[t] /\ buffer'[t] = buffer[t]
        BY <1>2, <1>3, <4>1
      <4>3. /\ phase[t] = "run" => faults[t] < FAULTS
            /\ phase[t] = "start" => faults[t] = 0
            /\ Kind(t) = "rust" => \A k \in 1..BUFFER : buffer[t][k] = NUL
        BY DEF McastIInv, ServerInv
      <4> QED BY <4>2, <4>3, Zenon
    <3> QED BY <3>1, <3>2
  <2> QED BY <2>1, <2>2 DEF ServerInv, Kind
<1>8. OwnText'
  <2> SUFFICES ASSUME NEW t \in Servers
               PROVE  /\ shown'[t].of # Empty =>
                           /\ setup[shown'[t].of.from].group = setup[t].group
                           /\ shown'[t].of \in shown'[t].text
                      /\ Kind(t) # "go" => shown'[t].text \subseteq {shown'[t].of}
    BY DEF OwnText, Kind
  <2>1. CASE t \in Servers \ {s} BY <2>1 DEF McastIInv, OwnText
  <2>2. CASE t = s BY <2>2
  <2> QED BY <2>1, <2>2
<1> QED BY <1>4, <1>6, <1>7, <1>8 DEF McastIInv

LEMMA ServerFacts ==
  ASSUME McastIInv, NEW s \in Servers
  PROVE  /\ McastTypeOK /\ faults[s] \in 0..FAULTS /\ faults \in [McastProcs -> 0..FAULTS] /\ s \in McastProcs
         /\ buffer[s] \in [1..BUFFER -> Packets \cup {NUL, Junk}]
         /\ buffer \in [Servers -> [1..BUFFER -> Packets \cup {NUL, Junk}]]
         /\ dups \in 0..MaxDups
         /\ net \subseteq [to : Servers, what : Packets \cup {Empty}]
         /\ phase[s] = "run" => faults[s] < FAULTS
         /\ Kind(s) = "rust" => \A k \in 1..BUFFER : buffer[s][k] = NUL
BY McastBounds DEF McastIInv, McastTypeOK, ServerInv

\* What a server has read and printed by now.
LEMMA ReadSoFar ==
  ASSUME McastIInv, NEW s \in Servers
  PROVE  /\ buffer \in [Servers -> [1..BUFFER -> Packets \cup {NUL, Junk}]]
         /\ shown \in [Servers -> [of : Packets \cup {Empty}, text : SUBSET (Packets \cup {Junk})]]
         /\ Kind(s) = "rust" => \A k \in 1..BUFFER : buffer[s][k] = NUL
         /\ shown[s].of # Empty => /\ setup[shown[s].of.from].group = setup[s].group
                                   /\ shown[s].of \in shown[s].text
         /\ Kind(s) # "go" => shown[s].text \subseteq {shown[s].of}
BY DEF McastIInv, McastTypeOK, ServerInv, OwnText

\* A read fills the buffer and prints a text, or prints nothing.
LEMMA ReadStep ==
  ASSUME McastIInv, NEW s \in Servers, NEW cells \in [1..BUFFER -> Packets \cup {NUL, Junk}],
         buffer' = [buffer EXCEPT ![s] = cells]
  PROVE  /\ buffer' \in [Servers -> [1..BUFFER -> Packets \cup {NUL, Junk}]]
         /\ buffer'[s] = cells /\ \A t \in Servers \ {s} : buffer'[t] = buffer[t]
BY ReadSoFar

LEMMA ShowStep ==
  ASSUME McastIInv, NEW s \in Servers, NEW of \in Packets \cup {Empty},
         NEW text \in SUBSET (Packets \cup {Junk}),
         shown' = [shown EXCEPT ![s] = [of |-> of, text |-> text]]
  PROVE  /\ shown' \in [Servers -> [of : Packets \cup {Empty}, text : SUBSET (Packets \cup {Junk})]]
         /\ shown'[s].of = of /\ shown'[s].text = text
         /\ \A t \in Servers \ {s} : shown'[t] = shown[t]
BY ReadSoFar

\* A step that reads nothing.
LEMMA NoReadIInv == ASSUME McastIInv, NEW s \in Servers, CInterrupted(s) \/ Fail(s) PROVE McastIInv'
<1> USE McastBounds
<1>1. buffer' = buffer /\ shown' = shown /\ net' = net /\ dups' = dups
      /\ UNCHANGED <<setup, clientVars, empties>> /\ phase[s] = "run"
  BY DEF CInterrupted, Fail, boundVars
<1>2. /\ McastGoto(s, "run") \/ McastGoto(s, "done")
      /\ faults' = faults \/ faults' = [faults EXCEPT ![s] = @ + 1]
      /\ phase'[s] = "run" => faults'[s] < FAULTS
  <2>1. CASE CInterrupted(s)
    <3>1. PICK to \in {"run", "done"} : McastGoto(s, to) /\ (to = "done" <=> Tired(faults[s] + 1))
      BY <2>1 DEF CInterrupted
    <3>2. faults' = [faults EXCEPT ![s] = @ + 1] BY <2>1 DEF CInterrupted
    <3>3. faults'[s] = faults[s] + 1 BY <3>2, ServerFacts
    <3>4. phase'[s] = to BY <3>1, ServerFacts DEF McastGoto, McastTypeOK
    <3> QED BY <3>1, <3>2, <3>3, <3>4, ServerFacts DEF Tired
  <2>2. CASE Fail(s)
    BY <2>2, ServerFacts DEF Fail, McastGoto, McastTypeOK
  <2> QED BY <2>1, <2>2
<1>3. dups' \in 0..MaxDups /\ net' \subseteq net BY <1>1, ServerFacts
<1> QED BY <1>1, <1>2, <1>3, ReadSoFar, ServerStep

LEMMA CReceiveIInv == ASSUME McastIInv, NEW s \in Servers, CReceive(s) PROVE McastIInv'
<1> USE McastBounds
<1>1. PICK d \in net : d.to = s /\
        LET cells == Terminated(Filled(s, d.what), Len(Bytes(d.what)))
        IN /\ Kind(s) = "c" /\ phase[s] = "run"
           /\ Take(d)
           /\ buffer' = [buffer EXCEPT ![s] = cells]
           /\ IF d.what = Empty
                THEN /\ faults' = [faults EXCEPT ![s] = @ + 1]
                     /\ McastGoto(s, IF Tired(faults[s] + 1) THEN "done" ELSE "run")
                     /\ UNCHANGED shown
                ELSE /\ shown' = [shown EXCEPT ![s] = [of |-> d.what, text |-> CText(cells)]]
                     /\ UNCHANGED <<phase, faults>>
           /\ UNCHANGED <<setup, clientVars, empties>>
  BY DEF CReceive
<1> DEFINE cells == Terminated(Filled(s, d.what), Len(Bytes(d.what)))
<1>2. d.what \in Packets \cup {Empty} /\ net' \subseteq net /\ dups' \in 0..MaxDups
  BY <1>1, ServerFacts DEF Take
<1>3. cells \in [1..BUFFER -> Packets \cup {NUL, Junk}]
  BY <1>2, ServerFacts, FilledFacts DEF Terminated
<1>4. buffer' = [buffer EXCEPT ![s] = cells] BY <1>1
<1>5. UNCHANGED <<setup, clientVars, empties>> /\ Kind(s) = "c" /\ phase[s] = "run" BY <1>1
<1>6. CASE d.what = Empty
  <2>1. shown' = shown BY <1>1, <1>6
  <2>2. /\ McastGoto(s, "run") \/ McastGoto(s, "done")
        /\ faults' = [faults EXCEPT ![s] = @ + 1]
        /\ phase'[s] = "run" => faults'[s] < FAULTS
    BY <1>1, <1>6, ServerFacts DEF McastGoto, Tired, McastTypeOK
  <2> HIDE DEF cells
  <2>3. /\ buffer' \in [Servers -> [1..BUFFER -> Packets \cup {NUL, Junk}]]
        /\ \A t \in Servers \ {s} : buffer'[t] = buffer[t]
    BY <1>3, <1>4, ReadStep
  <2> QED BY <1>2, <1>5, <2>1, <2>2, <2>3, ReadSoFar, ServerStep
<1>7. CASE d.what # Empty
  <2>1. d.what \in Packets BY <1>2, <1>7
  <2>2. CText(cells) = {d.what} BY <2>1, ServerFacts, CTextOfPacket
  <2>3. setup[d.what.from].group = setup[s].group
    BY <1>1, <1>7 DEF McastIInv, ServerInv
  <2>4. faults' = faults /\ McastGoto(s, "run") /\ faults'[s] < FAULTS
    BY <1>1, <1>7, ServerFacts DEF McastGoto, McastTypeOK
  <2>5. shown' = [shown EXCEPT ![s] = [of |-> d.what, text |-> {d.what}]] BY <1>1, <1>7, <2>2
  <2>6. {d.what} \in SUBSET (Packets \cup {Junk}) BY <2>1
  <2> HIDE DEF cells
  <2>7. /\ buffer' \in [Servers -> [1..BUFFER -> Packets \cup {NUL, Junk}]]
        /\ \A t \in Servers \ {s} : buffer'[t] = buffer[t]
    BY <1>3, <1>4, ReadStep
  <2>8. /\ shown' \in [Servers -> [of : Packets \cup {Empty}, text : SUBSET (Packets \cup {Junk})]]
        /\ shown'[s].of = d.what /\ shown'[s].text = {d.what}
        /\ \A t \in Servers \ {s} : shown'[t] = shown[t]
    BY <1>2, <2>5, <2>6, ShowStep
  <2> QED BY <1>2, <1>5, <2>3, <2>4, <2>7, <2>8, ServerStep
<1> QED BY <1>6, <1>7

\* What a server that prints the whole buffer prints.
LEMMA TextType ==
  ASSUME NEW cells \in [1..BUFFER -> Packets \cup {NUL, Junk}]
  PROVE  Text(cells) \in SUBSET (Packets \cup {Junk})
BY DEF Text

LEMMA TextHasPacket ==
  ASSUME McastTypeOK, NEW s \in Servers, NEW what \in Packets
  PROVE  what \in Text(Filled(s, what))
<1> DEFINE n == TextLen[what.from]
<1>1. n \in 1..(BUFFER - 2) /\ \A k \in 1..n : Filled(s, what)[k] = what BY FilledText
<1>2. Filled(s, what) \in [1..BUFFER -> Packets \cup {NUL, Junk}] BY FilledFacts
<1> HIDE DEF n
<1>3. 1 \in 1..n /\ 1 \in 1..BUFFER BY <1>1, McastBounds
<1> QED BY <1>1, <1>2, <1>3, PacketFacts DEF Text

LEMMA GoReceiveIInv == ASSUME McastIInv, NEW s \in Servers, GoReceive(s) PROVE McastIInv'
<1> USE McastBounds
<1>1. PICK d \in net :
        /\ d.to = s /\ Kind(s) = "go" /\ phase[s] = "run" /\ Take(d)
        /\ buffer' = [buffer EXCEPT ![s] = Filled(s, d.what)]
        /\ shown' = IF MyGroup(s, d.what)
                      THEN [shown EXCEPT ![s] = [of |-> d.what, text |-> Text(Filled(s, d.what))]]
                      ELSE shown
        /\ UNCHANGED <<setup, phase, clientVars, faults, empties>>
  BY DEF GoReceive
<1> DEFINE cells == Filled(s, d.what)
<1>2. d.what \in Packets \cup {Empty} /\ net' \subseteq net /\ dups' \in 0..MaxDups
  BY <1>1, ServerFacts DEF Take
<1>3. cells \in [1..BUFFER -> Packets \cup {NUL, Junk}] BY <1>2, ServerFacts, FilledFacts
<1>4. Text(cells) \in SUBSET (Packets \cup {Junk}) BY <1>3, TextType
<1>5. d.what # Empty => d.what \in Text(cells) BY <1>2, ServerFacts, TextHasPacket
<1>6. faults' = faults /\ McastGoto(s, "run") /\ faults'[s] < FAULTS
  BY <1>1, ServerFacts DEF McastGoto, McastTypeOK
<1>7. /\ buffer' \in [Servers -> [1..BUFFER -> Packets \cup {NUL, Junk}]]
      /\ \A t \in Servers \ {s} : buffer'[t] = buffer[t]
  BY <1>1, <1>3, ReadStep
<1>8. UNCHANGED <<setup, clientVars, empties>> /\ Kind(s) = "go" /\ phase[s] = "run" BY <1>1
<1>9. CASE MyGroup(s, d.what)
  <2>1. shown' = [shown EXCEPT ![s] = [of |-> d.what, text |-> Text(cells)]] BY <1>1, <1>9
  <2>2. d.what # Empty => setup[d.what.from].group = setup[s].group BY <1>9 DEF MyGroup
  <2> HIDE DEF cells
  <2>3. /\ shown' \in [Servers -> [of : Packets \cup {Empty}, text : SUBSET (Packets \cup {Junk})]]
        /\ shown'[s].of = d.what /\ shown'[s].text = Text(cells)
        /\ \A t \in Servers \ {s} : shown'[t] = shown[t]
    BY <1>2, <1>4, <2>1, ShowStep
  <2> QED BY <1>2, <1>5, <1>6, <1>7, <1>8, <2>2, <2>3, ServerStep
<1>10. CASE ~MyGroup(s, d.what)
  <2>1. shown' = shown BY <1>1, <1>10
  <2> QED BY <1>2, <1>6, <1>7, <1>8, <2>1, ReadSoFar, ServerStep
<1> QED BY <1>9, <1>10

LEMMA RustReceiveIInv == ASSUME McastIInv, NEW s \in Servers, RustReceive(s) PROVE McastIInv'
<1> USE McastBounds
<1>1. PICK d \in net :
        /\ d.to = s /\ Kind(s) = "rust" /\ phase[s] = "run" /\ Take(d)
        /\ buffer' = [buffer EXCEPT ![s] = Zeroed(Filled(s, d.what))]
        /\ shown' = [shown EXCEPT ![s] = [of |-> d.what, text |-> Text(Filled(s, d.what))]]
        /\ UNCHANGED <<setup, phase, clientVars, faults, empties>>
  BY DEF RustReceive
<1> DEFINE cells == Filled(s, d.what)
<1>2. d.what \in Packets \cup {Empty} /\ net' \subseteq net /\ dups' \in 0..MaxDups
  BY <1>1, ServerFacts DEF Take
<1>3. cells \in [1..BUFFER -> Packets \cup {NUL, Junk}] BY <1>2, ServerFacts, FilledFacts
<1>4. Text(cells) \in SUBSET (Packets \cup {Junk}) BY <1>3, TextType
<1>5. d.what # Empty => d.what \in Text(cells) BY <1>2, ServerFacts, TextHasPacket
<1>6. \A k \in 1..BUFFER : buffer[s][k] = NUL BY <1>1, ServerFacts
<1>7. Text(cells) \subseteq {d.what}
  <2>1. \A k \in 1..BUFFER : cells[k] \in {d.what, NUL}
    <3>1. CASE d.what = Empty BY <1>6, <3>1, ServerFacts, FilledFacts
    <3>2. CASE d.what \in Packets
      <4>1. \A k \in 1..BUFFER : Filled(s, d.what)[k] \in {d.what, NUL, buffer[s][k]}
        BY <3>2, ServerFacts, FilledText
      <4> QED BY <1>6, <4>1
    <3> QED BY <1>2, <3>1, <3>2
  <2> HIDE DEF cells
  <2> QED BY <1>3, <2>1 DEF Text
<1>8. faults' = faults /\ McastGoto(s, "run") /\ faults'[s] < FAULTS
  BY <1>1, ServerFacts DEF McastGoto, McastTypeOK
<1>9. /\ Zeroed(cells) \in [1..BUFFER -> Packets \cup {NUL, Junk}]
      /\ \A k \in 1..BUFFER : Zeroed(cells)[k] = NUL
  BY <1>3 DEF Zeroed
<1>10. buffer' = [buffer EXCEPT ![s] = Zeroed(cells)]
       /\ shown' = [shown EXCEPT ![s] = [of |-> d.what, text |-> Text(cells)]]
  BY <1>1
<1>11. d.what # Empty => setup[d.what.from].group = setup[s].group
  BY <1>1 DEF McastIInv, ServerInv
<1> HIDE DEF cells
<1>12. /\ buffer' \in [Servers -> [1..BUFFER -> Packets \cup {NUL, Junk}]]
       /\ buffer'[s] = Zeroed(cells) /\ \A t \in Servers \ {s} : buffer'[t] = buffer[t]
  BY <1>9, <1>10, ReadStep
<1>13. /\ shown' \in [Servers -> [of : Packets \cup {Empty}, text : SUBSET (Packets \cup {Junk})]]
       /\ shown'[s].of = d.what /\ shown'[s].text = Text(cells)
       /\ \A t \in Servers \ {s} : shown'[t] = shown[t]
  BY <1>2, <1>4, <1>10, ShowStep
<1>14. UNCHANGED <<setup, clientVars, empties>> /\ phase[s] = "run" BY <1>1
<1> QED BY <1>2, <1>5, <1>7, <1>8, <1>9, <1>11, <1>12, <1>13, <1>14, ServerStep

LEMMA McastNextIInv == McastIInv /\ [McastNext]_mcastVars => McastIInv'
<1> SUFFICES ASSUME McastIInv, [McastNext]_mcastVars PROVE McastIInv'
  OBVIOUS
<1>1. CASE UNCHANGED mcastVars
  <2>1. UNCHANGED <<setup, phase, cnt, out, faults, typed, enters, eof, nop, net, buffer, shown,
                    dups, empties>>
    BY <1>1 DEF mcastVars, clientVars, stdinVars, boundVars
  <2> QED BY <2>1 DEF McastIInv, McastTypeOK, CountInv, LinesInv, ServerInv, OwnText, Kind, Sent
<1>2. CASE McastNext
  BY <1>2, StartIInv, TypeIInv, CSendIInv, McastSendIInv, WaitsIInv, SendEmptyIInv, NoReadIInv,
     CReceiveIInv, GoReceiveIInv, RustReceiveIInv DEF McastNext, McastClient, McastServer
<1> QED BY <1>1, <1>2

LEMMA McastSpecIInv == McastSpec => []McastIInv
BY McastInitIInv, McastNextIInv, PTL DEF McastSpec

-----------------------------------------------------------------------------
(* What the tools promise *)

\* The loops of the servers in multicast/: what a server prints was sent to its
\* group, and it is the datagram it has just read, nothing of an earlier one
\* (but for Go), whatever the length of the texts and of the buffer.
THEOREM McastOwnText == McastSpec => []OwnText
<1>1. McastIInv => OwnText BY DEF McastIInv
<1> QED BY <1>1, McastSpecIInv, PTL

\* The loops of the clients in multicast/: numbers, faults and lines of stdin add
\* up to the packets sent, and a C client ends after FAULTS faults only.
THEOREM McastPacketsAccounted == McastSpec => []PacketsAccounted
<1>1. McastIInv => PacketsAccounted
  <2> SUFFICES ASSUME McastIInv, NEW c \in McastClients
               PROVE  /\ out[c] \subseteq 0..(cnt[c] - 1)
                      /\ cnt[c] = Cardinality(out[c]) + faults[c]
                      /\ Kind(c) = "c" /\ phase[c] = "done" => faults[c] = FAULTS \/ cnt[c] = 0
                      /\ ~setup[c].cont /\ (Kind(c) = "go" \/ c \notin eof) =>
                           cnt[c] + typed[c] <= enters[c] + (IF Kind(c) = "c" THEN 1 ELSE 0)
    BY DEF McastIInv, PacketsAccounted
  <2>1. ClientDone(c) /\ cnt[c] \in Nat /\ typed[c] \in Nat /\ enters[c] \in Nat
    BY ClientFacts, McastBounds
  <2> QED BY <2>1 DEF ClientDone
<1> QED BY <1>1, McastSpecIInv, PTL
=============================================================================
