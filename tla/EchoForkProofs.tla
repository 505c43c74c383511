--------------------------- MODULE EchoForkProofs ---------------------------
(***************************************************************************)
(* EchoFork: for every number of clients and of lines, the servers with a  *)
(* child or a thread for each connection leave no connection open that     *)
(* nobody serves (NothingLeftOpen).                                        *)
(***************************************************************************)
EXTENDS EchoFork, EchoNetProofs

-----------------------------------------------------------------------------
(* The inductive invariant *)

\* The children and threads with a line in their hand.
Writers == {c \in Clients : kid[c] = "write"}

\* The queue holds connections that nobody has touched yet, each once, and there
\* is a process that has the listening socket.
QueueInv ==
  /\ \A m, n \in 1..Len(backlog) : backlog[m] = backlog[n] => m = n
  /\ \A c \in Queued : /\ kid[c] = "none" /\ client[c] # "new"
                      /\ \A p \in Procs : hand[p] # c
  /\ Queued # {} => \E p \in Procs : Listens(p)

\* Nobody serves a connection that was never made; only inetd starts shells, and
\* only its servers have children of their own.
ConnInv(c) ==
  /\ client[c] = "new" => kid[c] = "none" /\ \A p \in Procs : hand[p] # c
  /\ kid[c] \in {"exec", "shell", "server"} => kind = "inetd"
  /\ by[c] # None => kid[by[c]] \in {"server", "zombie", "reaped"}

\* A process has one connection in its hand from accept() to close(): before fork()
\* nobody else knows it, after it the child does.
ProcInv(p) ==
  /\ pc[p] \in {"accept", "off"} => hand[p] = None
  /\ pc[p] \in {"fork", "close"} => hand[p] \in Clients /\ ~Threaded
  /\ pc[p] = "fork" => /\ kid[hand[p]] = "none" /\ hand[p] \notin Queued
                       /\ client[hand[p]] # "new"
                       /\ \A q \in Procs : hand[q] = hand[p] => q = p
  /\ pc[p] = "close" => /\ kid[hand[p]] # "none"
                        /\ hand[p] = p \/ by[hand[p]] = p
  /\ p \in Clients => (pc[p] # "off" <=> kid[p] = "server")

\* The time server tells the time once and hears nothing; the others write no
\* more lines than they have read.
AnswerInv ==
  IF kind = "time"
    THEN \A c \in Clients :
           /\ kid[c] \in {"none", "tell", "leave", "zombie", "reaped"}
           /\ sent[c] = 0
           /\ out[c] + got[c] <= 1
           /\ kid[c] \in {"none", "tell"} => out[c] + got[c] = 0
    ELSE LinesInv(Writers) /\ \A c \in Clients : kid[c] \notin {"tell", "leave"}

\* Where the connections are; those that are closed are the ones nobody holds.
PlacesOK ==
  /\ QueueInv
  /\ \A c \in Clients : ConnInv(c)
  /\ \A p \in Procs : ProcInv(p)
  /\ over = Dropped

IInv == TypeOK /\ PlacesOK /\ AnswerInv

\* A child that runs.
Live == {"fresh", "read", "write", "tell", "leave", "exec", "shell", "server"}

-----------------------------------------------------------------------------
(* Lemmas *)

\* Fewer lines in hand, or the same, are no more lines in all.
LEMMA LinesOfFewer ==
  ASSUME NEW busy, NEW fewer, LinesInv(busy), fewer \subseteq busy
  PROVE  LinesInv(fewer)
BY DEF LinesInv

LEMMA QueuedClients == ASSUME NetTypeOK PROVE Queued \subseteq Clients
BY DEF NetTypeOK, Queued, ToSet

LEMMA ActiveIs ==
  ASSUME TypeOK
  PROVE  \A c \in Clients : /\ c \in Active <=> kid[c] \in Live
                            /\ kid[c] \in Live \cup {"none", "zombie", "reaped"}
BY DEF TypeOK, KidStates, Active, Ended, Live

\* Nothing is closed while the same processes hold the same connections.
LEMMA DroppedStays ==
  ASSUME \A c \in Clients : client'[c] = "new" <=> client[c] = "new",
         UNCHANGED backlog,
         \A p \in Procs, c \in Clients : Holds(p, c)' <=> Holds(p, c)
  PROVE  Dropped' = Dropped
BY DEF Dropped, Queued

\* Nothing changes its place when a child goes on.
LEMMA GoesOn ==
  ASSUME TypeOK, PlacesOK, NEW c \in Clients,
         kid[c] \in Live \ {"fresh", "exec", "server"},
         NEW what \in Live \ {"fresh", "exec", "server"}, what = "shell" => kind = "inetd",
         Become(c, what), UNCHANGED <<client, serverEnd>>
  PROVE  PlacesOK'
<1>1. UNCHANGED <<Queued, over, backlog, pc, hand, by, kind, Threaded>>
  BY DEF Queued, serverEnd, Become, Threaded
<1>2. \A d \in Clients : kid'[d] = IF d = c THEN what ELSE kid[d] BY DEF TypeOK, Become
<1>3. \A d \in Clients : /\ kid'[d] = "none" <=> kid[d] = "none"
                         /\ kid'[d] = "fresh" <=> kid[d] = "fresh"
                         /\ kid'[d] = "exec" <=> kid[d] = "exec"
                         /\ kid'[d] = "server" <=> kid[d] = "server"
                         /\ Ended(d)' <=> Ended(d)
  BY <1>2 DEF Live, Ended
<1>4. UNCHANGED Active BY <1>3 DEF Active
<1>5. \A p \in Procs : Listens(p)' <=> Listens(p)
  <2>1. \A p \in Procs : Runs(p)' <=> Runs(p) BY <1>1, <1>4 DEF Runs
  <2> QED BY <1>1, <1>3, <2>1 DEF Listens, Procs
<1>6. QueueInv'
  <2>1. Queued \subseteq Clients BY QueuedClients DEF TypeOK
  <2> QED BY <1>1, <1>3, <1>5, <2>1 DEF QueueInv, PlacesOK
<1>7. \A d \in Clients : ConnInv(d)'
  <2> TAKE d \in Clients
  <2>0. ConnInv(d) BY DEF PlacesOK
  <2>1. by[d] # None => by[d] \in Clients BY DEF TypeOK, Procs
  <2>2. by'[d] # None => kid'[by'[d]] \in {"server", "zombie", "reaped"}
    BY <1>1, <1>3, <2>0, <2>1, <1>2 DEF ConnInv, Ended
  <2> QED BY <1>1, <1>2, <1>3, <2>0, <2>2 DEF ConnInv
<1>8. \A p \in Procs : ProcInv(p)'
  BY <1>1, <1>3 DEF PlacesOK, ProcInv
<1>9. over' = Dropped'
  <2>1. \A p \in Procs, d \in Clients : Holds(p, d)' <=> Holds(p, d)
    BY <1>1, <1>3, <1>4 DEF Holds, Active
  <2> QED BY <1>1, <2>1, DroppedStays DEF PlacesOK
<1> QED BY <1>6, <1>7, <1>8, <1>9 DEF PlacesOK

\* A step of the network or of the handler's flags alone.
LEMMA PlacesStay ==
  ASSUME TypeOK, PlacesOK, UNCHANGED <<kid, serverEnd, pc, hand, by, kind>>,
         \A c \in Clients : client'[c] = "new" <=> client[c] = "new"
  PROVE  PlacesOK'
<1>1. UNCHANGED <<Queued, over, backlog, Active, Threaded>>
  BY DEF Queued, serverEnd, Active, Ended, Threaded
<1>2. Queued \subseteq Clients BY QueuedClients DEF TypeOK
<1>3. \A p \in Procs : Listens(p)' <=> Listens(p) BY <1>1 DEF Listens, Runs
<1>4. QueueInv' BY <1>1, <1>2, <1>3 DEF PlacesOK, QueueInv
<1>5. \A c \in Clients : ConnInv(c)' BY <1>1 DEF PlacesOK, ConnInv
<1>6. \A p \in Procs : ProcInv(p)' BY <1>1 DEF PlacesOK, ProcInv
<1>7. over' = Dropped'
  <2>1. \A p \in Procs, d \in Clients : Holds(p, d)' <=> Holds(p, d)
    BY <1>1 DEF Holds
  <2> QED BY <1>1, <2>1, DroppedStays DEF PlacesOK
<1> QED BY <1>4, <1>5, <1>6, <1>7 DEF PlacesOK

LEMMA Init_IInv == Init => IInv
<1> SUFFICES ASSUME Init PROVE IInv OBVIOUS
<1>1. NetTypeOK /\ PlacesInv /\ LinesInv({}) BY NetInit_Inv DEF Init
<1>2. TypeOK BY <1>1 DEF Init, TypeOK, Procs, KidStates
<1>3. Queued = {} /\ backlog = <<>> BY DEF Init, NetInit, Queued, ToSet
<1>4. PlacesOK
  <2>1. QueueInv BY <1>3 DEF Init, QueueInv
  <2>2. \A c \in Clients : ConnInv(c)
    BY NetAssumption DEF Init, NetInit, ConnInv, Procs
  <2>3. \A p \in Procs : ProcInv(p) BY NetAssumption DEF Init, ProcInv, Procs
  <2>4. over = Dropped BY DEF Init, NetInit, Dropped
  <2> QED BY <2>1, <2>2, <2>3, <2>4 DEF PlacesOK
<1>5. AnswerInv
  <2>1. Writers = {} BY DEF Init, Writers
  <2> QED BY <1>1, <2>1 DEF Init, NetInit, AnswerInv
<1> QED BY <1>2, <1>4, <1>5 DEF IInv

-----------------------------------------------------------------------------
(* The end of a process *)

\* The children and threads that are left are as they were, or were zombies.
LEMMA EndsKids ==
  ASSUME TypeOK, PlacesOK, NEW p \in Procs, Runs(p), Terminate(p)
  PROVE  /\ \A c \in Clients :
              /\ kid'[c] \in KidStates
              /\ kid'[c] = kid[c] \/ (Ended(c)' /\ kid[c] \notin {"none"})
              /\ c = p => Ended(c)'
              /\ kid[c] = "server" /\ c # p => kid'[c] = "server"
         /\ backlog' = backlog \/ backlog' = <<>>
         /\ backlog' # <<>> => \E q \in Procs : Listens(q)'
         /\ over' = Dropped'
<1>1. PICK gone : /\ gone = IF p = None /\ Threaded THEN {None} \cup Active ELSE {p}
                  /\ \A c \in Clients : kid'[c] \in {"zombie", "reaped"} \/
                        /\ c \notin gone
                        /\ kid'[c] = kid[c]
                  /\ \A c \in Clients : c \in gone => kid'[c] \in {"zombie", "reaped"}
                  /\ \A c \in Clients : c \notin gone =>
                        kid'[c] = kid[c] \/ (kid'[c] = "reaped" /\ kid[c] = "zombie")
  BY DEF Terminate
<1>2. \A c \in Clients : c \in gone => c \in Active
  BY <1>1, NetAssumption DEF Runs
<1>3. \A c \in Clients : kid[c] = "server" /\ c # p => c \notin gone
  BY <1>1, NetAssumption DEF PlacesOK, ConnInv, Threaded
<1>4. \A c \in Clients :
        /\ kid'[c] \in KidStates
        /\ kid'[c] = kid[c] \/ (Ended(c)' /\ kid[c] \notin {"none"})
        /\ c = p => Ended(c)'
        /\ kid[c] = "server" /\ c # p => kid'[c] = "server"
  BY <1>1, <1>2, <1>3, NetAssumption DEF Ended, Active, TypeOK, KidStates
<1> QED BY <1>4 DEF Terminate, QueueCloses, ConnsClose

\* What it held, or nobody had accepted, is closed unless another process has it.
LEMMA EndsInv ==
  ASSUME IInv, NEW p \in Procs, Runs(p), Terminate(p), chld' \in BOOLEAN
  PROVE  IInv'
<1>0. TypeOK /\ PlacesOK /\ AnswerInv /\ NetTypeOK BY DEF IInv, TypeOK
<1>1. /\ \A c \in Clients :
           /\ kid'[c] \in KidStates
           /\ kid'[c] = kid[c] \/ (Ended(c)' /\ kid[c] \notin {"none"})
           /\ c = p => Ended(c)'
           /\ kid[c] = "server" /\ c # p => kid'[c] = "server"
      /\ backlog' = backlog \/ backlog' = <<>>
      /\ backlog' # <<>> => \E q \in Procs : Listens(q)'
      /\ over' = Dropped'
  BY <1>0, EndsKids
<1>2. /\ UNCHANGED <<client, mid, sent, got, inq, out, fdc, reset, kind, by, hpc, Threaded>>
      /\ pc' = [pc EXCEPT ![p] = "off"] /\ hand' = [hand EXCEPT ![p] = None]
      /\ kid' = [c \in Clients |-> kid'[c]]
  BY DEF Terminate, clientVars, Threaded
<1>3. \A q \in Procs : /\ pc'[q] = IF q = p THEN "off" ELSE pc[q]
                      /\ hand'[q] = IF q = p THEN None ELSE hand[q]
  BY <1>0, <1>2 DEF TypeOK
<1>4. Queued \subseteq Clients /\ Queued' \subseteq Queued
  BY <1>0, <1>1, QueuedClients DEF Queued, ToSet
<1>5. TypeOK'
  <2>1. None \in Procs BY DEF Procs
  <2>2. over' \subseteq Clients BY <1>1 DEF Dropped
  <2>3. backlog' \in Seq(Clients)
    <3>1. <<>> \in Seq(Clients) OBVIOUS
    <3> QED BY <1>0, <1>1, <3>1 DEF NetTypeOK
  <2>4. kid' \in [Clients -> KidStates] BY <1>1, <1>2
  <2>5. NetTypeOK' BY <1>0, <1>2, <2>2, <2>3 DEF NetTypeOK
  <2> QED BY <1>0, <1>2, <2>1, <2>4, <2>5 DEF TypeOK
<1>6. QueueInv'
  <2>1. \A m, n \in 1..Len(backlog') : backlog'[m] = backlog'[n] => m = n
    BY <1>0, <1>1 DEF PlacesOK, QueueInv
  <2>2. \A c \in Queued' : /\ kid'[c] = "none" /\ client'[c] # "new"
                          /\ \A q \in Procs : hand'[q] # c
    <3> TAKE c \in Queued'
    <3>1. c \in Queued /\ c \in Clients BY <1>4
    <3> QED BY <1>0, <1>1, <1>2, <1>3, <3>1, NetAssumption DEF PlacesOK, QueueInv
  <2>3. Queued' # {} => backlog' # <<>> BY DEF Queued, ToSet
  <2> QED BY <1>1, <2>1, <2>2, <2>3 DEF QueueInv
<1>7. \A c \in Clients : ConnInv(c)'
  <2> TAKE c \in Clients
  <2>0. ConnInv(c) /\ (by[c] # None => by[c] \in Clients) BY <1>0 DEF PlacesOK, TypeOK, Procs
  <2>1. by'[c] # None => kid'[by'[c]] \in {"server", "zombie", "reaped"}
    BY <1>1, <1>2, <2>0 DEF ConnInv, Ended
  <2>2. client'[c] = "new" => kid'[c] = "none" /\ \A q \in Procs : hand'[q] # c
    BY <1>1, <1>2, <1>3, <2>0, NetAssumption DEF ConnInv
  <2>3. kid'[c] \in {"exec", "shell", "server"} => kind' = "inetd"
    BY <1>1, <1>2, <2>0 DEF ConnInv, Ended
  <2> QED BY <2>1, <2>2, <2>3 DEF ConnInv
<1>8. \A q \in Procs : ProcInv(q)'
  <2> TAKE q \in Procs
  <2>0. ProcInv(q) BY <1>0 DEF PlacesOK
  <2>1. CASE q = p
    <3>1. q \in Clients => kid'[q] # "server" BY <1>1, <2>1 DEF Ended
    <3> QED BY <1>3, <2>1, <3>1 DEF ProcInv
  <2>2. CASE q # p
    <3>1. pc'[q] = pc[q] /\ hand'[q] = hand[q] BY <1>3, <2>2
    <3>2. pc[q] = "fork" => /\ kid'[hand[q]] = "none" /\ hand[q] \notin Queued'
                            /\ client'[hand[q]] # "new"
                            /\ \A r \in Procs : hand'[r] = hand[q] => r = q
      BY <1>1, <1>2, <1>3, <1>4, <2>0, NetAssumption DEF ProcInv
    <3>3. pc[q] = "close" => kid'[hand[q]] # "none"
      BY <1>1, <2>0 DEF ProcInv, Ended
    <3>4. q \in Clients => (pc[q] # "off" <=> kid'[q] = "server")
      BY <1>1, <2>0, <2>2 DEF ProcInv, Ended
    <3> QED BY <1>2, <2>0, <3>1, <3>2, <3>3, <3>4 DEF ProcInv
  <2> QED BY <2>1, <2>2
<1>9. AnswerInv'
  <2>1. CASE kind = "time"
    BY <1>0, <1>1, <1>2, <2>1 DEF AnswerInv, Ended
  <2>2. CASE kind # "time"
    <3>1. Writers' \subseteq Writers BY <1>1 DEF Writers, Ended
    <3>2. PICK W : W = Writers' OBVIOUS
    <3>3. LinesInv(Writers)'
      <4>1. LinesInv(W) BY <1>0, <2>2, <3>1, <3>2, LinesOfFewer DEF AnswerInv
      <4> QED BY <1>2, <3>2, <4>1 DEF LinesInv
    <3> QED BY <1>0, <1>1, <1>2, <2>2, <3>3 DEF AnswerInv, Ended
  <2> QED BY <2>1, <2>2
<1> QED BY <1>1, <1>5, <1>6, <1>7, <1>8, <1>9 DEF IInv, PlacesOK

-----------------------------------------------------------------------------
(* The children *)

LEMMA KidExitInv ==
  ASSUME IInv, NEW c \in Clients, kid[c] \in Live, KidExit(c)
  PROVE  IInv'
<1>1. c \in Active /\ c # None BY ActiveIs, NetAssumption DEF IInv
<1>2. Runs(c) BY <1>1 DEF Runs
<1>3. chld' \in BOOLEAN
  <2>1. chld' = (kind = "fork" /\ Runs(None)) BY DEF KidExit
  <2> QED BY <2>1
<1> QED BY <1>2, <1>3, EndsInv DEF KidExit, Procs

\* It reads a piece: of the echo servers, or of a shell.
LEMMA KidReads ==
  ASSUME IInv, NEW c \in Clients, kid[c] \in {"read", "shell"}, inq[c] # <<>>,
         inq' = [inq EXCEPT ![c] = Tail(@)],
         NEW what \in {"read", "write", "shell"}, Become(c, what),
         what = "shell" => kid[c] = "shell",
         what = "write" => Head(inq[c]) = "nl",
         UNCHANGED <<clientVars, out, serverEnd, reset>>
  PROVE  IInv'
<1>0. TypeOK /\ PlacesOK /\ AnswerInv /\ kind # "time" BY DEF IInv, AnswerInv, IInv
<1>1. PICK W : W = Writers OBVIOUS
<1>2. LinesInv(W) /\ c \notin W BY <1>0, <1>1 DEF AnswerInv, Writers
<1>3. /\ NetTypeOK'
      /\ Head(inq[c]) = "nl" => LinesInv(W \cup {c})'
      /\ Head(inq[c]) # "nl" => LinesInv(W)'
  BY <1>0, <1>2, ReadLines DEF TypeOK
<1>4. \A d \in Clients : kid'[d] = IF d = c THEN what ELSE kid[d]
  BY <1>0 DEF TypeOK, Become
<1>5. TypeOK' BY <1>0, <1>3 DEF TypeOK, KidStates, Become
<1>6. PlacesOK'
  <2>1. /\ what \in Live \ {"fresh", "exec", "server"}
        /\ kid[c] \in Live \ {"fresh", "exec", "server"}
    BY DEF Live
  <2>2. what = "shell" => kind = "inetd" BY <1>0 DEF PlacesOK, ConnInv
  <2> QED BY <1>0, <2>1, <2>2, GoesOn DEF clientVars
<1>7. AnswerInv'
  <2>1. LinesInv(Writers)'
    <3>1. CASE what = "write"
      <4>1. Writers' = W \cup {c} BY <1>1, <1>4, <3>1 DEF Writers
      <4> QED BY <1>3, <3>1, <4>1 DEF LinesInv
    <3>2. CASE what # "write"
      <4>1. Writers' = W BY <1>1, <1>4, <1>2, <3>2 DEF Writers
      <4>2. LinesInv(W)' BY <1>3 DEF LinesInv
      <4> QED BY <4>1, <4>2 DEF LinesInv
    <3> QED BY <3>1, <3>2
  <2>2. \A d \in Clients : kid'[d] \notin {"tell", "leave"} BY <1>0, <1>4 DEF AnswerInv
  <2> QED BY <1>0, <2>1, <2>2 DEF AnswerInv, Become
<1> QED BY <1>5, <1>6, <1>7 DEF IInv

\* It writes back the line it has read.
LEMMA KidWriteInv ==
  ASSUME IInv, NEW c \in Clients, KidWrite(c)
  PROVE  IInv'
<1>0. TypeOK /\ PlacesOK /\ AnswerInv /\ kind # "time" /\ kid[c] = "write"
  BY DEF IInv, AnswerInv, IInv, KidWrite
<1>1. CASE KidExit(c) BY <1>0, <1>1, KidExitInv DEF Live
<1>2. CASE /\ out' = [out EXCEPT ![c] = @ + 1] /\ Become(c, "read")
           /\ UNCHANGED <<clientVars, inq, serverEnd, reset>>
  <2>1. PICK W : W = Writers OBVIOUS
  <2>2. LinesInv(W) /\ c \in W BY <1>0, <2>1 DEF AnswerInv, Writers
  <2>3. NetTypeOK' /\ LinesInv(W \ {c})'
    BY <1>0, <1>2, <2>2, WriteLines DEF TypeOK
  <2>4. \A d \in Clients : kid'[d] = IF d = c THEN "read" ELSE kid[d]
    BY <1>0, <1>2 DEF TypeOK, Become
  <2>5. TypeOK' BY <1>0, <1>2, <2>3 DEF TypeOK, KidStates, Become
  <2>6. PlacesOK' BY <1>0, <1>2, GoesOn DEF clientVars, Live
  <2>7. AnswerInv'
    <3>1. Writers' = W \ {c} BY <2>1, <2>4 DEF Writers
    <3>2. LinesInv(Writers)' BY <2>3, <3>1 DEF LinesInv
    <3>3. \A d \in Clients : kid'[d] \notin {"tell", "leave"} BY <1>0, <2>4 DEF AnswerInv
    <3> QED BY <1>0, <1>2, <3>2, <3>3 DEF AnswerInv, Become
  <2> QED BY <2>5, <2>6, <2>7 DEF IInv
<1> QED BY <1>1, <1>2 DEF KidWrite

\* The message of the time server is the only one.
LEMMA KidTellInv ==
  ASSUME IInv, NEW c \in Clients, KidTell(c)
  PROVE  IInv'
<1>0. TypeOK /\ PlacesOK /\ AnswerInv /\ kind = "time" /\ kid[c] \in Live
  BY DEF IInv, AnswerInv, IInv, KidTell, Live
<1>1. CASE KidExit(c) BY <1>0, <1>1, KidExitInv
<1>2. CASE /\ kid[c] = "tell" /\ out' = [out EXCEPT ![c] = @ + 1] /\ Become(c, "leave")
           /\ UNCHANGED <<clientVars, inq, serverEnd, reset>>
  <2>1. out[c] = 0 /\ got[c] = 0
    <3>1. out[c] + got[c] = 0 BY <1>0, <1>2 DEF AnswerInv
    <3>2. out[c] \in Nat /\ got[c] \in Nat BY <1>0, NetAssumption DEF TypeOK, NetTypeOK
    <3> QED BY <3>1, <3>2
  <2>2. out' = [out EXCEPT ![c] = 1] BY <1>2, <2>1
  <2>3. NetTypeOK' BY <1>0, <1>2, <2>2, NetAssumption DEF TypeOK, NetTypeOK, clientVars, serverEnd
  <2>4. TypeOK' BY <1>0, <1>2, <2>3 DEF TypeOK, KidStates, Become
  <2>5. PlacesOK' BY <1>0, <1>2, GoesOn DEF clientVars, Live
  <2>6. AnswerInv'
    <3>1. \A d \in Clients : /\ kid'[d] = IF d = c THEN "leave" ELSE kid[d]
                             /\ out'[d] = IF d = c THEN 1 ELSE out[d]
                             /\ sent'[d] = sent[d] /\ got'[d] = got[d]
      BY <1>0, <1>2, <2>2 DEF TypeOK, NetTypeOK, Become, clientVars
    <3> QED BY <1>0, <1>2, <2>1, <3>1 DEF AnswerInv, Become
  <2> QED BY <2>4, <2>5, <2>6 DEF IInv
<1> QED BY <1>0, <1>1, <1>2 DEF KidTell

\* The listening socket is closed in the child; the queue goes with it if the parent
\* has ended.
LEMMA KidBeginInv ==
  ASSUME IInv, NEW c \in Clients, KidBegin(c)
  PROVE  IInv'
<1> USE DEF KidBegin
<1>0. TypeOK /\ PlacesOK /\ AnswerInv /\ NetTypeOK /\ kind # "time" /\ kid[c] = "fresh"
  BY DEF IInv, AnswerInv, IInv, TypeOK
<1>1. /\ UNCHANGED <<client, mid, sent, got, inq, out, fdc, reset, kind, pc, hand, by, chld, hpc>>
      /\ UNCHANGED Threaded
  BY DEF Become, clientVars, Threaded
<1>2. \A d \in Clients : kid'[d] = IF d = c THEN "read" ELSE kid[d]
  BY <1>0 DEF TypeOK, Become
<1>3. /\ backlog' = backlog \/ backlog' = <<>>
      /\ backlog' # <<>> => \E q \in Procs : Listens(q)'
      /\ over' = Dropped'
  BY DEF QueueCloses, ConnsClose
<1>4. Queued \subseteq Clients /\ Queued' \subseteq Queued
  BY <1>0, <1>3, QueuedClients DEF Queued, ToSet
<1>5. TypeOK'
  <2>1. over' \subseteq Clients BY <1>3 DEF Dropped
  <2>2. backlog' \in Seq(Clients)
    <3>1. <<>> \in Seq(Clients) OBVIOUS
    <3> QED BY <1>0, <1>3, <3>1 DEF NetTypeOK
  <2>3. NetTypeOK' BY <1>0, <1>1, <2>1, <2>2 DEF NetTypeOK
  <2> QED BY <1>0, <1>1, <2>3 DEF TypeOK, KidStates, Become
<1>6. QueueInv'
  <2>1. \A m, n \in 1..Len(backlog') : backlog'[m] = backlog'[n] => m = n
    BY <1>0, <1>3 DEF PlacesOK, QueueInv
  <2>2. \A d \in Queued' : /\ kid'[d] = "none" /\ client'[d] # "new"
                          /\ \A q \in Procs : hand'[q] # d
    BY <1>0, <1>1, <1>2, <1>4 DEF PlacesOK, QueueInv
  <2>3. Queued' # {} => backlog' # <<>> BY DEF Queued, ToSet
  <2> QED BY <1>3, <2>1, <2>2, <2>3 DEF QueueInv
<1>7. \A d \in Clients : ConnInv(d)'
  <2> TAKE d \in Clients
  <2>0. ConnInv(d) /\ (by[d] # None => by[d] \in Clients) BY <1>0 DEF PlacesOK, TypeOK, Procs
  <2>1. by'[d] # None => kid'[by'[d]] \in {"server", "zombie", "reaped"}
    BY <1>0, <1>1, <1>2, <2>0 DEF ConnInv
  <2>2. d # c => kid'[d] = kid[d] BY <1>2
  <2> QED BY <1>0, <1>1, <1>2, <2>0, <2>1, <2>2 DEF ConnInv
<1>8. \A q \in Procs : ProcInv(q)'
  <2> TAKE q \in Procs
  <2>0. ProcInv(q) BY <1>0 DEF PlacesOK
  <2> QED BY <1>0, <1>1, <1>2, <1>4, <2>0 DEF ProcInv
<1>9. AnswerInv'
  <2>1. Writers' = Writers BY <1>0, <1>2 DEF Writers
  <2>2. LinesInv(Writers)' BY <1>0, <1>1, <2>1 DEF AnswerInv, LinesInv
  <2> QED BY <1>0, <1>1, <1>2, <2>2 DEF AnswerInv
<1> QED BY <1>3, <1>5, <1>6, <1>7, <1>8, <1>9 DEF IInv, PlacesOK

\* A shell takes the place of the child, or one more server that has to close its
\* copy of the connection first.
LEMMA KidExecInv ==
  ASSUME IInv, NEW c \in Clients, KidExec(c)
  PROVE  IInv'
<1>0. TypeOK /\ PlacesOK /\ AnswerInv /\ NetTypeOK /\ kind # "time" /\ kid[c] = "exec"
  BY DEF IInv, AnswerInv, IInv, KidExec, TypeOK
<1>1. CASE KidExit(c) BY <1>0, <1>1, KidExitInv DEF Live
<1>2. ASSUME NEW to \in {"shell", "server"}, kid' = [kid EXCEPT ![c] = to],
             IF to = "shell" THEN UNCHANGED <<pc, hand>>
               ELSE hand' = [hand EXCEPT ![c] = c] /\ pc' = [pc EXCEPT ![c] = "close"],
             UNCHANGED <<clientVars, inq, out, backlog, fdc, reset, kind, by, chld, hpc>>,
             ConnsClose
      PROVE  IInv'
  <2>0. kind = "inetd" /\ ~Threaded BY <1>0 DEF PlacesOK, ConnInv, Threaded
  <2>1. \A d \in Clients : kid'[d] = IF d = c THEN to ELSE kid[d]
    BY <1>0, <1>2 DEF TypeOK
  <2>2. \A p \in Procs :
          /\ pc'[p] = IF p = c /\ to = "server" THEN "close" ELSE pc[p]
          /\ hand'[p] = IF p = c /\ to = "server" THEN c ELSE hand[p]
    BY <1>0, <1>2 DEF TypeOK
  <2>3. /\ UNCHANGED <<client, mid, sent, got, inq, out, backlog, fdc, reset, kind, by>>
        /\ UNCHANGED <<chld, hpc, Queued, Threaded>> /\ over' = Dropped'
    BY <1>2 DEF clientVars, Threaded, Queued, ConnsClose
  <2>4. Queued \subseteq Clients /\ c \notin Queued /\ c # None /\ c \in Procs
    BY <1>0, QueuedClients, NetAssumption DEF PlacesOK, QueueInv, Procs
  <2>5. pc[c] = "off" /\ client[c] # "new" BY <1>0, <2>4 DEF PlacesOK, ProcInv, ConnInv
  <2>6. TypeOK'
    <3>1. over' \subseteq Clients BY <2>3 DEF Dropped
    <3>2. NetTypeOK' BY <1>0, <2>3, <3>1 DEF NetTypeOK
    <3> QED BY <1>0, <1>2, <2>3, <2>4, <3>2 DEF TypeOK, KidStates
  <2>7. QueueInv'
    <3>1. Active' = Active BY <1>0, <2>1 DEF Active, Ended
    <3>2. \A p \in Procs : Listens(p) => Listens(p)'
      <4>1. \A p \in Procs : Runs(p)' <=> Runs(p) BY <2>2, <2>4, <3>1 DEF Runs, Procs
      <4> QED BY <2>0, <2>3, <4>1 DEF Listens
    <3> QED BY <1>0, <2>1, <2>2, <2>3, <2>4, <3>2 DEF PlacesOK, QueueInv
  <2>8. \A d \in Clients : ConnInv(d)'
    <3> TAKE d \in Clients
    <3>0. ConnInv(d) /\ (by[d] # None => by[d] \in Clients) BY <1>0 DEF PlacesOK, TypeOK, Procs
    <3>1. by'[d] # None => kid'[by'[d]] \in {"server", "zombie", "reaped"}
      BY <1>0, <2>1, <2>3, <3>0 DEF ConnInv
    <3>2. d # c => kid'[d] = kid[d] BY <2>1
    <3>3. client'[d] = "new" => kid'[d] = "none" /\ \A q \in Procs : hand'[q] # d
      BY <2>2, <2>3, <2>5, <3>0, <3>2 DEF ConnInv
    <3> QED BY <2>0, <2>3, <3>1, <3>3 DEF ConnInv
  <2>9. \A p \in Procs : ProcInv(p)'
    <3> TAKE p \in Procs
    <3>0. ProcInv(p) BY <1>0 DEF PlacesOK
    <3>1. CASE p = c
      <4>1. CASE to = "server" BY <2>0, <2>1, <2>2, <2>3, <3>1, <4>1 DEF ProcInv
      <4>2. CASE to # "server"
        <5>1. pc'[p] = "off" /\ hand'[p] = hand[p] /\ kid'[p] # "server"
          BY <2>1, <2>2, <2>5, <3>1, <4>2
        <5> QED BY <2>5, <3>0, <3>1, <5>1 DEF ProcInv
      <4> QED BY <4>1, <4>2
    <3>2. CASE p # c
      <4>1. pc'[p] = pc[p] /\ hand'[p] = hand[p] BY <2>2, <3>2
      <4>2. pc[p] = "fork" => /\ kid'[hand[p]] = "none" /\ hand[p] # c
                              /\ \A q \in Procs : hand'[q] = hand[p] => q = p
        BY <1>0, <2>1, <2>2, <3>0 DEF ProcInv
      <4>3. pc[p] = "close" => kid'[hand[p]] # "none"
        BY <2>1, <3>0 DEF ProcInv
      <4>4. p \in Clients => kid'[p] = kid[p] BY <2>1, <3>2
      <4> QED BY <2>3, <3>0, <4>1, <4>2, <4>3, <4>4 DEF ProcInv
    <3> QED BY <3>1, <3>2
  <2>10. AnswerInv'
    <3>1. Writers' = Writers BY <1>0, <2>1 DEF Writers
    <3>2. LinesInv(Writers)' BY <1>0, <2>3, <3>1 DEF AnswerInv, LinesInv
    <3> QED BY <1>0, <2>1, <2>3, <3>2 DEF AnswerInv
  <2> QED BY <2>3, <2>6, <2>7, <2>8, <2>9, <2>10 DEF IInv, PlacesOK
<1>3. CASE KidExec(c) /\ ~KidExit(c)
  <2>1. CASE Become(c, "shell") BY <1>2, <1>3, <2>1 DEF KidExec, Become
  <2>2. CASE ~Become(c, "shell") BY <1>2, <1>3, <2>2 DEF KidExec
  <2> QED BY <2>1, <2>2
<1> QED BY <1>1, <1>3

LEMMA KidInv ==
  ASSUME IInv, NEW c \in Clients, Kid(c)
  PROVE  IInv'
<1>1. CASE KidRead(c)
  <2>1. CASE KidExit(c) BY <1>1, <2>1, KidExitInv DEF KidRead, Live
  <2>2. CASE Head(inq[c]) = "nl" /\ ~KidExit(c)
    BY <1>1, <2>2, KidReads DEF KidRead
  <2>3. CASE Head(inq[c]) # "nl" /\ ~KidExit(c)
    BY <1>1, <2>3, KidReads DEF KidRead
  <2> QED BY <2>1, <2>2, <2>3
<1>2. CASE KidShell(c)
  <2>1. CASE KidExit(c) BY <1>2, <2>1, KidExitInv DEF KidShell, Live
  <2>2. CASE ~KidExit(c) BY <1>2, <2>2, KidReads DEF KidShell
  <2> QED BY <2>1, <2>2
<1> QED BY <1>1, <1>2, KidBeginInv, KidWriteInv, KidTellInv, KidExecInv DEF Kid, HandleEcho

-----------------------------------------------------------------------------
(* The accept loop and the handler *)

\* accept(): the first of the queue gets a thread, or is in the process's hand.
LEMMA AcceptStep ==
  ASSUME IInv, NEW p \in Procs, Accept(p)
  PROVE  IInv'
<1> USE DEF Accept
<1>0. TypeOK /\ PlacesOK /\ AnswerInv /\ NetTypeOK BY DEF IInv, TypeOK
<1>1. PICK c : c = Head(backlog) OBVIOUS
<1>2. /\ c \in Queued /\ Queued' = Queued \ {c} /\ c \in Clients /\ backlog' \in Seq(Clients)
      /\ \A m, n \in 1..Len(backlog') : backlog'[m] = backlog'[n] => m = n
  BY <1>0, <1>1, Dequeue DEF PlacesOK, QueueInv
<1>3. /\ kid[c] = "none" /\ client[c] # "new" /\ \A q \in Procs : hand[q] # c
      /\ c # None /\ Queued \subseteq Clients /\ hand[p] = None
  BY <1>0, <1>2, NetAssumption, QueuedClients DEF PlacesOK, QueueInv, ProcInv
<1>4. UNCHANGED <<client, mid, sent, got, inq, out, over, fdc, reset, kind, by, chld, hpc, Threaded>>
  BY DEF clientVars, Threaded
<1>5. \E q \in Procs : Listens(q) BY <1>0, <1>2 DEF PlacesOK, QueueInv
<1>6. CASE Threaded
  <2>1. kid' = [kid EXCEPT ![c] = "read"] /\ UNCHANGED <<hand, pc>> BY <1>1, <1>6
  <2>2. \A d \in Clients : kid'[d] = IF d = c THEN "read" ELSE kid[d]
    BY <1>0, <2>1 DEF TypeOK
  <2>3. TypeOK' BY <1>0, <1>2, <1>4, <2>1 DEF TypeOK, NetTypeOK, KidStates
  <2>4. \A d \in Clients : /\ d # c => (d \in Active' <=> d \in Active)
                           /\ c \in Active'
    BY <1>2, <2>2 DEF Active, Ended
  <2>5. \A q \in Procs : Listens(q) => Listens(q)'
    <3>1. \A q \in Procs : Runs(q) => Runs(q)' BY <2>1, <2>4 DEF Runs, Procs
    <3>2. \A q \in Procs : q # None => q \in Clients BY DEF Procs
    <3>3. kind \notin {"time", "inetd"} BY <1>6 DEF Threaded
    <3>4. \A q \in Procs : Listens(q) => (q = None \/ kid[q] = "fresh")
      BY <3>3 DEF Listens
    <3>5. \A q \in Clients : kid[q] = "fresh" => kid'[q] = "fresh" BY <1>3, <2>2
    <3> QED BY <3>1, <3>2, <3>4, <3>5 DEF Listens
  <2>6. QueueInv'
    BY <1>0, <1>2, <1>3, <1>4, <1>5, <2>1, <2>2, <2>5 DEF PlacesOK, QueueInv
  <2>7. \A d \in Clients : ConnInv(d)'
    <3> TAKE d \in Clients
    <3>0. ConnInv(d) /\ (by[d] # None => by[d] \in Clients) BY <1>0 DEF PlacesOK, TypeOK, Procs
    <3>1. by'[d] # None => kid'[by'[d]] \in {"server", "zombie", "reaped"}
      BY <1>3, <1>4, <2>2, <3>0 DEF ConnInv
    <3> QED BY <1>3, <1>4, <2>1, <2>2, <3>0, <3>1 DEF ConnInv
  <2>8. \A q \in Procs : ProcInv(q)'
    <3> TAKE q \in Procs
    <3>0. ProcInv(q) BY <1>0 DEF PlacesOK
    <3>1. pc[q] \in {"accept", "off"} BY <1>0, <1>6, <3>0 DEF ProcInv, TypeOK
    <3>2. q \in Clients => (kid'[q] = "server" <=> kid[q] = "server")
      BY <1>3, <2>2
    <3> QED BY <2>1, <3>0, <3>1, <3>2 DEF ProcInv
  <2>9. over' = Dropped'
    <3>1. \A q \in Procs, d \in Clients : d # c => (Holds(q, d)' <=> Holds(q, d))
      <4> TAKE q \in Procs, d \in Clients
      <4>1. d # c => (hand'[q] = d <=> hand[q] = d) BY <2>1
      <4>2. CASE q = c
        <5>1. q \notin Active BY <1>3, <4>2 DEF Active
        <5>2. kid'[q] # "exec" BY <1>2, <2>2, <4>2
        <5> QED BY <1>4, <4>1, <4>2, <5>1, <5>2 DEF Holds
      <4>3. CASE q # c
        <5>1. q \in Active' <=> q \in Active BY <2>4, <4>3 DEF Active
        <5>2. q \in Active => kid'[q] = kid[q] BY <2>2, <4>3 DEF Active
        <5> QED BY <1>4, <4>1, <5>1, <5>2 DEF Holds
      <4> QED BY <4>2, <4>3
    <3>2. c \notin Dropped BY <1>2 DEF Dropped
    <3>3. c \notin Dropped'
      <4>1. Holds(c, c)' BY <1>2, <2>4 DEF Holds
      <4>2. c \in Procs BY <1>2 DEF Procs
      <4> QED BY <4>1, <4>2 DEF Dropped
    <3>4. \A d \in Clients : d # c => (d \in Dropped' <=> d \in Dropped)
      BY <1>2, <1>4, <3>1 DEF Dropped
    <3>5. \A d \in Clients : d \in Dropped' <=> d \in Dropped BY <3>2, <3>3, <3>4
    <3>6. Dropped' = Dropped BY <3>5 DEF Dropped
    <3> QED BY <1>0, <1>4, <3>6 DEF PlacesOK
  <2>10. AnswerInv'
    <3>1. kind # "time" BY <1>6 DEF Threaded
    <3>2. Writers' = Writers BY <1>3, <2>2 DEF Writers
    <3>3. LinesInv(Writers)' BY <1>0, <1>4, <3>1, <3>2 DEF AnswerInv, LinesInv
    <3> QED BY <1>0, <1>4, <2>2, <3>1, <3>3 DEF AnswerInv
  <2> QED BY <2>3, <2>6, <2>7, <2>8, <2>9, <2>10 DEF IInv, PlacesOK
<1>7. CASE ~Threaded
  <2>1. /\ hand' = [hand EXCEPT ![p] = c] /\ pc' = [pc EXCEPT ![p] = "fork"] /\ UNCHANGED kid
        /\ UNCHANGED Active
    BY <1>1, <1>7 DEF Active, Ended
  <2>2. \A q \in Procs : /\ pc'[q] = IF q = p THEN "fork" ELSE pc[q]
                        /\ hand'[q] = IF q = p THEN c ELSE hand[q]
    BY <1>0, <2>1 DEF TypeOK
  <2>3. TypeOK'
    <3>1. c \in Procs BY <1>2 DEF Procs
    <3> QED BY <1>0, <1>2, <1>4, <2>1, <3>1 DEF TypeOK, NetTypeOK
  <2>5. \A q \in Procs : Listens(q) => Listens(q)'
    <3>1. \A q \in Procs : Runs(q) => Runs(q)'
      BY <2>1, <2>2 DEF Runs, Procs
    <3> QED BY <1>4, <2>1, <3>1 DEF Listens
  <2>6. QueueInv'
    BY <1>0, <1>2, <1>3, <1>4, <1>5, <2>1, <2>2, <2>5 DEF PlacesOK, QueueInv
  <2>7. \A d \in Clients : ConnInv(d)'
    BY <1>0, <1>3, <1>4, <2>1, <2>2 DEF PlacesOK, ConnInv
  <2>8. \A q \in Procs : ProcInv(q)'
    <3> TAKE q \in Procs
    <3>0. ProcInv(q) /\ ProcInv(p) BY <1>0 DEF PlacesOK
    <3>1. CASE q = p
      <4>1. \A r \in Procs : hand'[r] = c => r = p BY <1>3, <2>2
      <4>2. p \in Clients => kid'[p] = "server" BY <2>1, <3>0 DEF ProcInv
      <4> QED BY <1>2, <1>3, <1>4, <1>7, <2>1, <2>2, <3>1, <4>1, <4>2 DEF ProcInv
    <3>2. CASE q # p
      <4>1. pc'[q] = pc[q] /\ hand'[q] = hand[q] BY <2>2, <3>2
      <4>2. pc[q] = "fork" => \A r \in Procs : hand'[r] = hand[q] => r = q
        BY <1>3, <2>2, <3>0 DEF ProcInv
      <4> QED BY <1>2, <1>4, <2>1, <3>0, <4>1, <4>2 DEF ProcInv
    <3> QED BY <3>1, <3>2
  <2>9. over' = Dropped'
    <3>1. \A q \in Procs, d \in Clients : d # c => (Holds(q, d)' <=> Holds(q, d))
      <4> TAKE q \in Procs, d \in Clients
      <4>1. d # None BY NetAssumption
      <4>2. d # c => (hand'[q] = d <=> hand[q] = d) BY <1>3, <2>2, <4>1
      <4> QED BY <1>4, <2>1, <4>2 DEF Holds
    <3>2. c \notin Dropped BY <1>2 DEF Dropped
    <3>3. c \notin Dropped'
      <4>1. Holds(p, c)' BY <2>2 DEF Holds
      <4> QED BY <4>1 DEF Dropped
    <3>4. \A d \in Clients : d # c => (d \in Dropped' <=> d \in Dropped)
      BY <1>2, <1>4, <3>1 DEF Dropped
    <3>5. \A d \in Clients : d \in Dropped' <=> d \in Dropped BY <3>2, <3>3, <3>4
    <3>6. Dropped' = Dropped BY <3>5 DEF Dropped
    <3> QED BY <1>0, <1>4, <3>6 DEF PlacesOK
  <2>10. AnswerInv'
    <3>1. Writers' = Writers BY <2>1 DEF Writers
    <3>2. CASE kind = "time" BY <1>0, <1>4, <2>1, <3>2 DEF AnswerInv
    <3>3. CASE kind # "time"
      <4>1. LinesInv(Writers)' BY <1>0, <1>4, <3>1, <3>3 DEF AnswerInv, LinesInv
      <4> QED BY <1>0, <1>4, <2>1, <3>3, <4>1 DEF AnswerInv
    <3> QED BY <3>2, <3>3
  <2> QED BY <2>3, <2>6, <2>7, <2>8, <2>9, <2>10 DEF IInv, PlacesOK
<1> QED BY <1>6, <1>7

LEMMA AcceptFailsStep ==
  ASSUME IInv, NEW p \in Procs, AcceptFails(p)
  PROVE  IInv'
<1>1. TypeOK /\ ProcInv(p) BY DEF IInv, PlacesOK
<1>2. Runs(p)
  <2>1. p \in Clients => kid[p] = "server" BY <1>1 DEF ProcInv, AcceptFails
  <2>2. p \in Clients => p \in Active BY <2>1 DEF Active, Ended
  <2> QED BY <2>2 DEF Runs, Procs, AcceptFails
<1>3. chld' \in BOOLEAN BY <1>1 DEF AcceptFails, TypeOK
<1> QED BY <1>2, <1>3, EndsInv DEF AcceptFails

\* fork() gives the connection in the process's hand its child.
LEMMA ForkStep ==
  ASSUME IInv, NEW p \in Procs, Fork(p)
  PROVE  IInv'
<1>0. TypeOK /\ PlacesOK /\ AnswerInv /\ NetTypeOK /\ pc[p] = "fork" /\ ProcInv(p)
  BY DEF IInv, TypeOK, Fork, PlacesOK
<1>1. CASE Terminate(p)
  <2>1. p \in Clients => kid[p] = "server" BY <1>0 DEF ProcInv
  <2>2. p \in Clients => p \in Active BY <2>1 DEF Active, Ended
  <2>3. Runs(p) BY <1>0, <2>2 DEF Runs, Procs
  <2>4. chld' \in BOOLEAN BY <1>0 DEF Fork, TypeOK
  <2> QED BY <1>1, <2>3, <2>4, EndsInv
<1>2. CASE /\ kid' = [kid EXCEPT ![hand[p]] = First[kind]]
           /\ by' = [by EXCEPT ![hand[p]] = p]
           /\ pc' = [pc EXCEPT ![p] = "close"]
           /\ UNCHANGED <<netVars, kind, hand, hpc, chld>>
  <2>1. PICK c \in Clients : c = hand[p] BY <1>0 DEF ProcInv
  <2>2. /\ kid[c] = "none" /\ c \notin Queued /\ client[c] # "new" /\ ~Threaded
        /\ \A q \in Procs : hand[q] = c => q = p
        /\ p # c /\ (p \in Clients => kid[p] = "server") /\ c # None
    BY <1>0, <2>1, NetAssumption DEF ProcInv
  <2>3. PICK f : f = First[kind] OBVIOUS
  <2>4. /\ f \in Live \ {"write", "leave", "read", "shell", "server"}
        /\ f = "tell" <=> kind = "time"
        /\ f = "exec" <=> kind = "inetd"
    <3>1. kind \in {"fork", "time", "inetd"} BY <1>0, <2>2 DEF TypeOK, Threaded
    <3> QED BY <2>3, <3>1 DEF First, Live
  <2>5. \A d \in Clients : /\ kid'[d] = IF d = c THEN f ELSE kid[d]
                           /\ by'[d] = IF d = c THEN p ELSE by[d]
    BY <1>0, <1>2, <2>1, <2>3 DEF TypeOK
  <2>6. \A q \in Procs : pc'[q] = IF q = p THEN "close" ELSE pc[q]
    BY <1>0, <1>2 DEF TypeOK
  <2>7. /\ UNCHANGED <<Queued, over, client, backlog, kind, hand, Threaded, sent, out, got, inq, mid>>
        /\ Queued \subseteq Clients
    BY <1>0, <1>2, QueuedClients DEF netVars, Queued, Threaded
  <2>8. TypeOK'
    <3>1. NetTypeOK' BY <1>0, <1>2, NetStays
    <3>2. f \in KidStates BY <2>4 DEF KidStates, Live
    <3> QED BY <1>0, <1>2, <2>1, <2>3, <3>1, <3>2 DEF TypeOK
  <2>9. \A d \in Clients : d \in Active' <=> d \in Active \/ d = c
    BY <2>4, <2>5 DEF Active, Ended, Live
  <2>10. QueueInv'
    <3>1. \A q \in Procs : Listens(q) => Listens(q)'
      <4>1. \A q \in Procs : Runs(q) => Runs(q)' BY <2>6, <2>9 DEF Runs, Procs
      <4>2. \A q \in Procs : q # None /\ kid[q] = "fresh" => kid'[q] = "fresh"
        BY <2>2, <2>5 DEF Procs
      <4> QED BY <2>7, <4>1, <4>2 DEF Listens
    <3> QED BY <1>0, <2>2, <2>5, <2>7, <3>1 DEF PlacesOK, QueueInv
  <2>11. \A d \in Clients : ConnInv(d)'
    <3> TAKE d \in Clients
    <3>0. ConnInv(d) /\ (by[d] # None => by[d] \in Clients) BY <1>0 DEF PlacesOK, TypeOK, Procs
    <3>1. by'[d] # None => kid'[by'[d]] \in {"server", "zombie", "reaped"}
      <4>1. CASE d = c
        <5>1. by'[d] = p /\ (p # None => p \in Clients) BY <2>5, <4>1 DEF Procs
        <5> QED BY <2>2, <2>5, <5>1
      <4>2. CASE d # c
        <5>1. by'[d] = by[d] /\ (by[d] # None => by[d] # c) BY <2>2, <2>5, <3>0, <4>2 DEF ConnInv
        <5> QED BY <2>5, <3>0, <5>1 DEF ConnInv
      <4> QED BY <4>1, <4>2
    <3>2. client'[d] = "new" => kid'[d] = "none" /\ \A q \in Procs : hand'[q] # d
      BY <2>2, <2>5, <2>7, <3>0 DEF ConnInv
    <3>3. kid'[d] \in {"exec", "shell", "server"} => kind' = "inetd"
      BY <2>4, <2>5, <2>7, <3>0 DEF ConnInv
    <3> QED BY <3>1, <3>2, <3>3 DEF ConnInv
  <2>12. \A q \in Procs : ProcInv(q)'
    <3> TAKE q \in Procs
    <3>0. ProcInv(q) BY <1>0 DEF PlacesOK
    <3>1. q \in Clients => (kid'[q] = "server" <=> kid[q] = "server")
      BY <2>2, <2>4, <2>5
    <3>2. CASE q = p
      <4>1. kid'[hand[p]] # "none" /\ by'[hand[p]] = p BY <2>1, <2>4, <2>5 DEF Live
      <4> QED BY <1>0, <2>1, <2>2, <2>6, <2>7, <3>0, <3>1, <3>2, <4>1 DEF ProcInv
    <3>3. CASE q # p
      <4>1. pc'[q] = pc[q] BY <2>6, <3>3
      <4>2. pc[q] = "fork" => kid'[hand[q]] = "none"
        BY <2>2, <2>5, <3>0, <3>3 DEF ProcInv
      <4>3. pc[q] = "close" => /\ kid'[hand[q]] # "none"
                               /\ hand[q] = q \/ by'[hand[q]] = q
        BY <2>2, <2>5, <3>0, <3>3 DEF ProcInv
      <4> QED BY <2>7, <3>0, <3>1, <4>1, <4>2, <4>3 DEF ProcInv
    <3> QED BY <3>2, <3>3
  <2>13. over' = Dropped'
    <3>1. \A q \in Procs, d \in Clients : Holds(q, d) => Holds(q, d)'
      <4> TAKE q \in Procs, d \in Clients
      <4>1. q \in Active => q \in Active' /\ q # c BY <2>2, <2>9 DEF Active
      <4>2. q \in Active => kid'[q] = kid[q] /\ by'[q] = by[q] BY <2>5, <4>1 DEF Active
      <4> QED BY <2>7, <4>1, <4>2 DEF Holds
    <3>2. \A q \in Procs, d \in Clients : Holds(q, d)' => Holds(q, d) \/ d = c \/ (q = c /\ d = p)
      <4> TAKE q \in Procs, d \in Clients
      <4>1. q \in Active' => q \in Active \/ q = c BY <2>9 DEF Active
      <4>2. q \in Active => q # c /\ kid'[q] = kid[q] /\ by'[q] = by[q] BY <2>2, <2>5 DEF Active
      <4>3. by'[c] = p BY <2>5
      <4> QED BY <2>7, <4>1, <4>2, <4>3 DEF Holds
    <3>3. Holds(p, c) BY <2>1 DEF Holds
    <3>4. p \in Clients => Holds(p, p)
      <4>1. p \in Clients => p \in Active BY <2>2 DEF Active, Ended
      <4> QED BY <4>1 DEF Holds
    <3>5. \A d \in Clients : (\A q \in Procs : ~Holds(q, d)') <=> \A q \in Procs : ~Holds(q, d)
      BY <3>1, <3>2, <3>3, <3>4
    <3>6. Dropped' = Dropped BY <2>7, <3>5 DEF Dropped
    <3> QED BY <1>0, <2>7, <3>6 DEF PlacesOK
  <2>14. AnswerInv'
    <3>1. Writers' = Writers BY <2>2, <2>4, <2>5 DEF Writers
    <3>2. CASE kind = "time"
      BY <1>0, <2>2, <2>4, <2>5, <2>7, <3>2 DEF AnswerInv
    <3>3. CASE kind # "time"
      <4>1. LinesInv(Writers)' BY <1>0, <2>7, <3>1, <3>3 DEF AnswerInv, LinesInv
      <4> QED BY <1>0, <2>4, <2>5, <2>7, <3>3, <4>1 DEF AnswerInv
    <3> QED BY <3>2, <3>3
  <2> QED BY <2>8, <2>10, <2>11, <2>12, <2>13, <2>14 DEF IInv, PlacesOK
<1> QED BY <1>1, <1>2 DEF Fork

\* close(): if the child has ended already the connection goes with it.
LEMMA ParentCloseStep ==
  ASSUME IInv, NEW p \in Procs, ParentClose(p)
  PROVE  IInv'
<1> USE DEF ParentClose
<1>0. TypeOK /\ PlacesOK /\ AnswerInv /\ NetTypeOK BY DEF IInv, TypeOK
<1>1. UNCHANGED <<client, mid, sent, got, inq, out, backlog, fdc, reset, kind, by, kid, chld, hpc>>
  BY DEF clientVars
<1>2. /\ UNCHANGED <<Queued, Active, Threaded, Writers>> /\ over' = Dropped'
      /\ Queued \subseteq Clients
  BY <1>0, <1>1, QueuedClients DEF Queued, Active, Ended, Threaded, Writers, ConnsClose
<1>3. \A q \in Procs : /\ pc'[q] = IF q = p THEN "accept" ELSE pc[q]
                      /\ hand'[q] = IF q = p THEN None ELSE hand[q]
  BY <1>0 DEF TypeOK
<1>4. TypeOK'
  <2>1. over' \subseteq Clients BY <1>2 DEF Dropped
  <2>2. None \in Procs BY DEF Procs
  <2>3. NetTypeOK' BY <1>0, <1>1, <2>1 DEF NetTypeOK
  <2> QED BY <1>0, <1>1, <2>2, <2>3 DEF TypeOK
<1>5. QueueInv'
  <2>1. \A q \in Procs : Listens(q) => Listens(q)'
    <3>1. \A q \in Procs : Runs(q) => Runs(q)' BY <1>2, <1>3 DEF Runs, Procs
    <3> QED BY <1>1, <3>1 DEF Listens
  <2>2. \A d \in Queued : \A q \in Procs : hand'[q] # d
    BY <1>0, <1>2, <1>3, NetAssumption DEF PlacesOK, QueueInv
  <2> QED BY <1>0, <1>1, <1>2, <2>1, <2>2 DEF PlacesOK, QueueInv
<1>6. \A d \in Clients : ConnInv(d)'
  BY <1>0, <1>1, <1>3, NetAssumption DEF PlacesOK, ConnInv
<1>7. \A q \in Procs : ProcInv(q)'
  <2> TAKE q \in Procs
  <2>0. ProcInv(q) BY <1>0 DEF PlacesOK
  <2>1. CASE q = p
    <3>1. p \in Clients => kid[p] = "server" BY <2>0, <2>1 DEF ProcInv
    <3> QED BY <1>1, <1>3, <2>1, <3>1 DEF ProcInv
  <2>2. CASE q # p
    <3>1. pc'[q] = pc[q] /\ hand'[q] = hand[q] BY <1>3, <2>2
    <3>2. pc[q] = "fork" => \A r \in Procs : hand'[r] = hand[q] => r = q
      BY <1>3, <2>0, NetAssumption DEF ProcInv
    <3> QED BY <1>1, <1>2, <2>0, <3>1, <3>2 DEF ProcInv
  <2> QED BY <2>1, <2>2
<1>8. AnswerInv'
  <2>1. CASE kind = "time" BY <1>0, <1>1, <2>1 DEF AnswerInv
  <2>2. CASE kind # "time"
    <3>1. LinesInv(Writers)' BY <1>0, <1>1, <1>2, <2>2 DEF AnswerInv, LinesInv
    <3> QED BY <1>0, <1>1, <2>2, <3>1 DEF AnswerInv
  <2> QED BY <2>1, <2>2
<1> QED BY <1>2, <1>4, <1>5, <1>6, <1>7, <1>8 DEF IInv, PlacesOK

\* The handler only reaps.
LEMMA HandlerStep == IInv /\ Handler => IInv'
<1> SUFFICES ASSUME IInv, Handler PROVE IInv' OBVIOUS
<1>0. TypeOK /\ PlacesOK /\ AnswerInv /\ NetTypeOK BY DEF IInv, TypeOK
<1>1. UNCHANGED netVars /\ UNCHANGED <<pc, hand, by, kind, Threaded>>
  BY DEF Handler, Deliver, WaitPid, Threaded
<1>2. /\ UNCHANGED <<Queued, over, backlog, client, sent, out, got, inq, mid>> /\ NetTypeOK'
      /\ Queued \subseteq Clients
  BY <1>0, <1>1, NetStays, QueuedClients DEF netVars, Queued
<1>3. \A d \in Clients : kid'[d] = kid[d] \/ (kid[d] = "zombie" /\ kid'[d] = "reaped")
  BY <1>0 DEF Handler, Deliver, WaitPid, Zombies, TypeOK
<1>4. TypeOK'
  <2>1. kid' \in [Clients -> KidStates]
    BY <1>0 DEF TypeOK, KidStates, Handler, Deliver, WaitPid, Zombies
  <2>2. chld' \in BOOLEAN /\ hpc' \in {"off", "wait"}
    BY <1>0 DEF TypeOK, Handler, Deliver, WaitPid
  <2> QED BY <1>0, <1>1, <1>2, <2>1, <2>2 DEF TypeOK
<1>5. \A d \in Clients : /\ kid'[d] = "none" <=> kid[d] = "none"
                         /\ kid'[d] = "write" <=> kid[d] = "write"
                         /\ Ended(d)' <=> Ended(d)
                         /\ ~Ended(d) => kid'[d] = kid[d]
  BY <1>3 DEF Ended
<1>6. Active' = Active /\ Writers' = Writers BY <1>5 DEF Active, Writers
<1>7. QueueInv'
  <2>1. \A q \in Procs : Listens(q) => Listens(q)'
    <3>1. \A q \in Procs : Runs(q) => Runs(q)' BY <1>1, <1>6 DEF Runs
    <3>2. \A q \in Procs : q # None /\ kid[q] = "fresh" => kid'[q] = "fresh"
      BY <1>5 DEF Procs, Ended
    <3> QED BY <1>1, <3>1, <3>2 DEF Listens
  <2> QED BY <1>0, <1>1, <1>2, <1>5, <2>1 DEF PlacesOK, QueueInv
<1>8. \A d \in Clients : ConnInv(d)'
  <2> TAKE d \in Clients
  <2>0. ConnInv(d) /\ (by[d] # None => by[d] \in Clients) BY <1>0 DEF PlacesOK, TypeOK, Procs
  <2>1. by'[d] # None => kid'[by'[d]] \in {"server", "zombie", "reaped"}
    BY <1>1, <1>3, <2>0 DEF ConnInv
  <2> QED BY <1>1, <1>2, <1>3, <2>0, <2>1 DEF ConnInv
<1>9. \A q \in Procs : ProcInv(q)'
  <2> TAKE q \in Procs
  <2>0. ProcInv(q) BY <1>0 DEF PlacesOK
  <2>1. q \in Clients => (kid'[q] = "server" <=> kid[q] = "server") BY <1>3
  <2>2. pc[q] \in {"fork", "close"} => (kid'[hand[q]] = "none" <=> kid[hand[q]] = "none")
    BY <1>5, <2>0 DEF ProcInv
  <2> QED BY <1>1, <1>2, <2>0, <2>1, <2>2 DEF ProcInv
<1>10. over' = Dropped'
  <2>1. \A q \in Procs, d \in Clients : Holds(q, d)' <=> Holds(q, d)
    <3>1. \A q \in Active : q \in Clients /\ kid'[q] = kid[q] BY <1>5 DEF Active
    <3> QED BY <1>1, <1>6, <3>1 DEF Holds
  <2> QED BY <1>0, <1>2, <2>1, DroppedStays DEF PlacesOK
<1>11. AnswerInv'
  <2>1. CASE kind = "time" BY <1>0, <1>1, <1>2, <1>3, <2>1 DEF AnswerInv
  <2>2. CASE kind # "time"
    <3>1. LinesInv(Writers)' BY <1>0, <1>2, <1>6, <2>2 DEF AnswerInv, LinesInv
    <3> QED BY <1>0, <1>1, <1>3, <2>2, <3>1 DEF AnswerInv
  <2> QED BY <2>1, <2>2
<1> QED BY <1>4, <1>7, <1>8, <1>9, <1>10, <1>11 DEF IInv, PlacesOK

-----------------------------------------------------------------------------
(* The clients *)

\* Clients write to the time server nothing.
LEMMA TimeClient ==
  ASSUME TypeOK, AnswerInv, kind = "time", NEW c \in Clients, Client(c), sent' = sent,
         UNCHANGED serverVars, mid' = {}
  PROVE  NetTypeOK' /\ AnswerInv'
<1>1. \A d \in Clients : /\ out[d] \in Nat /\ got[d] \in Nat /\ sent[d] = 0
                         /\ out[d] + got[d] <= 1
  BY NetAssumption DEF TypeOK, NetTypeOK, AnswerInv
<1>2. ~SendText(c) BY DEF SendText
<1>3. ~SendNewline(c) BY <1>1 DEF SendNewline, TypeOK, NetTypeOK
<1>4. CASE ReadEcho(c)
  <2>1. out[c] = 1 /\ got[c] = 0 BY <1>1, <1>4 DEF ReadEcho
  <2>2. out' = [out EXCEPT ![c] = 0] /\ got' = [got EXCEPT ![c] = 1]
    BY <1>4, <2>1 DEF ReadEcho
  <2>3. NetTypeOK'
    <3>1. 0 \in 0..MaxLines /\ 1 \in 0..MaxLines BY NetAssumption
    <3>2. out' \in [Clients -> 0..MaxLines] /\ got' \in [Clients -> 0..MaxLines]
      BY <2>2, <3>1 DEF TypeOK, NetTypeOK
    <3> QED BY <1>4, <3>2 DEF ReadEcho, TypeOK, NetTypeOK
  <2>4. \A d \in Clients : out'[d] + got'[d] = out[d] + got[d]
    BY <2>1, <2>2 DEF TypeOK, NetTypeOK
  <2> QED BY <2>3, <2>4 DEF AnswerInv, serverVars
<1>5. CASE Quit(c)
  BY <1>5 DEF Quit, TypeOK, NetTypeOK, AnswerInv, serverVars
<1>6. CASE NetReset(c)
  BY <1>6 DEF NetReset, TypeOK, NetTypeOK, AnswerInv, serverVars
<1> QED BY <1>2, <1>3, <1>4, <1>5, <1>6 DEF Client

LEMMA ClientStepInv ==
  ASSUME IInv, NEW c \in Clients, ClientStep(c)
  PROVE  IInv'
<1>0. TypeOK /\ PlacesOK /\ AnswerInv /\ NetTypeOK /\ UNCHANGED serverVars
  BY DEF IInv, TypeOK, ClientStep
<1>1. CASE Client(c)
  <2>1. PlacesOK'
    <3>1. \A d \in Clients : client'[d] = "new" <=> client[d] = "new"
      BY <1>0, <1>1 DEF Client, SendText, SendNewline, ReadEcho, Quit, NetReset, CanSend, NetTypeOK
    <3>2. UNCHANGED serverEnd
      BY <1>1 DEF Client, SendText, SendNewline, ReadEcho, Quit, NetReset, serverEnd
    <3> QED BY <1>0, <3>1, <3>2, PlacesStay DEF serverVars
  <2>2. CASE kind = "time"
    <3>1. mid' = {} /\ sent' = sent BY <2>2 DEF ClientStep
    <3>2. NetTypeOK' /\ AnswerInv' BY <1>0, <1>1, <2>2, <3>1, TimeClient
    <3> QED BY <1>0, <2>1, <3>2 DEF IInv, TypeOK, serverVars
  <2>3. CASE kind # "time"
    <3>1. PICK W : W = Writers OBVIOUS
    <3>2. NetTypeOK' /\ LinesInv(W)' BY <1>0, <1>1, <2>3, <3>1, ClientLines DEF AnswerInv
    <3>3. Writers' = W BY <1>0, <3>1 DEF Writers, serverVars
    <3>4. LinesInv(Writers)' BY <3>2, <3>3 DEF LinesInv
    <3> QED BY <1>0, <2>1, <2>3, <3>2, <3>4 DEF IInv, TypeOK, AnswerInv, serverVars
  <2> QED BY <2>2, <2>3
<1>2. CASE (\E p \in Procs : Listens(p)) /\ Connect(c)
  <2> USE <1>2 DEF Connect
  <2>1. /\ backlog' \in Seq(Clients) /\ Queued' = Queued \cup {c}
        /\ c \notin Queued =>
             \A m, n \in 1..Len(backlog') : backlog'[m] = backlog'[n] => m = n
    BY <1>0, Enqueue DEF NetTypeOK, PlacesOK, QueueInv
  <2>2. c \notin Queued /\ kid[c] = "none" /\ \A q \in Procs : hand[q] # c
    BY <1>0 DEF PlacesOK, QueueInv, ConnInv
  <2>3. Queued \subseteq Clients BY <1>0, QueuedClients
  <2>4. \A d \in Clients : client'[d] = IF d = c THEN "up" ELSE client[d]
    BY <1>0 DEF NetTypeOK
  <2>5. UNCHANGED <<Active, Threaded, over, kid, pc, hand, by, kind>>
    BY <1>0 DEF Active, Ended, Threaded, serverVars
  <2>6. TypeOK' BY <1>0, <2>1 DEF TypeOK, NetTypeOK, serverVars
  <2>7. QueueInv'
    <3>1. \A q \in Procs : Listens(q)' <=> Listens(q) BY <2>5 DEF Listens, Runs
    <3> QED BY <1>0, <2>1, <2>2, <2>3, <2>4, <2>5, <3>1 DEF PlacesOK, QueueInv
  <2>8. \A d \in Clients : ConnInv(d)'
    BY <1>0, <2>4, <2>5 DEF PlacesOK, ConnInv
  <2>9. \A q \in Procs : ProcInv(q)'
    BY <1>0, <2>1, <2>2, <2>4, <2>5 DEF PlacesOK, ProcInv
  <2>10. over' = Dropped'
    <3>1. \A q \in Procs, d \in Clients : Holds(q, d)' <=> Holds(q, d)
      BY <2>5 DEF Holds
    <3>2. c \notin Dropped /\ c \notin Dropped' BY <2>1 DEF Dropped
    <3>3. \A d \in Clients : d # c => (d \in Dropped' <=> d \in Dropped)
      BY <2>1, <2>4, <3>1 DEF Dropped
    <3>4. \A d \in Clients : d \in Dropped' <=> d \in Dropped BY <3>2, <3>3
    <3>5. Dropped' = Dropped BY <3>4 DEF Dropped
    <3> QED BY <1>0, <2>5, <3>5 DEF PlacesOK
  <2>11. AnswerInv'
    <3>1. Writers' = Writers BY <2>5 DEF Writers
    <3>2. CASE kind = "time" BY <1>0, <2>5, <3>2 DEF AnswerInv
    <3>3. CASE kind # "time"
      <4>1. LinesInv(Writers)' BY <1>0, <3>1, <3>3 DEF AnswerInv, LinesInv
      <4> QED BY <1>0, <2>5, <3>3, <4>1 DEF AnswerInv
    <3> QED BY <3>2, <3>3
  <2> QED BY <2>6, <2>7, <2>8, <2>9, <2>10, <2>11 DEF IInv, PlacesOK
<1> QED BY <1>1, <1>2 DEF ClientStep

LEMMA IInvNext == IInv /\ [Next]_vars => IInv'
<1> SUFFICES ASSUME IInv, [Next]_vars PROVE IInv' OBVIOUS
<1>1. ASSUME NEW p \in Procs, Server(p) PROVE IInv'
  BY <1>1, AcceptStep, ForkStep, ParentCloseStep DEF Server
<1>2. ASSUME NEW p \in Procs, AcceptFails(p) PROVE IInv' BY <1>2, AcceptFailsStep
<1>3. CASE Handler BY <1>3, HandlerStep
<1>4. ASSUME NEW c \in Clients, Kid(c) PROVE IInv' BY <1>4, KidInv
<1>5. ASSUME NEW c \in Clients, ClientStep(c) PROVE IInv' BY <1>5, ClientStepInv
<1>6. CASE UNCHANGED vars
  <2>1. UNCHANGED netVars /\ UNCHANGED <<kind, pc, hand, by, kid, chld, hpc>>
    BY <1>6 DEF vars, serverVars
  <2>2. TypeOK /\ PlacesOK /\ AnswerInv BY DEF IInv
  <2>3. PlacesOK' BY <2>1, <2>2, PlacesStay DEF netVars, serverEnd
  <2>4. TypeOK' BY <2>1, <2>2, NetStays DEF TypeOK
  <2>5. Writers' = Writers BY <2>1 DEF Writers
  <2>6. AnswerInv' BY <2>1, <2>2, <2>5 DEF AnswerInv, LinesInv, netVars
  <2> QED BY <2>3, <2>4, <2>6 DEF IInv
<1> QED BY <1>1, <1>2, <1>3, <1>4, <1>5, <1>6 DEF Next

-----------------------------------------------------------------------------
(* What follows from it *)

\* The forking, inetd, goroutine and thread servers lose no connection: whenever a
\* process waits in accept() it holds none in its hand, each one whose child or thread
\* has ended is closed, each other one is queued, between accept() and fork(), or has a
\* child or thread, and a queue with clients in it is one that a process can accept
\* from; for every number of clients, in whatever order accept(), fork(), the children,
\* their ends, the end of the first process and the SIGCHLD handler come, and whichever
\* of these calls fail.
THEOREM ForkLosesNone == Spec => []NothingLeftOpen
<1>1. IInv => NothingLeftOpen
  <2> SUFFICES ASSUME IInv PROVE NothingLeftOpen OBVIOUS
  <2>0. TypeOK /\ PlacesOK BY DEF IInv
  <2>1. \A p \in Procs : pc[p] \in {"accept", "off"} => hand[p] = None
    BY <2>0 DEF PlacesOK, ProcInv
  <2>2. ASSUME NEW c \in Clients, client[c] # "new", c \notin Queued \cup over
        PROVE  \/ c \in Active
               \/ \E d \in Clients : kid[d] = "exec" /\ by[d] = c
               \/ \E p \in Procs : hand[p] = c
    <3>1. PICK p \in Procs : Holds(p, c) BY <2>0, <2>2 DEF PlacesOK, Dropped
    <3>2. p \in Active => p \in Clients BY DEF Active
    <3> QED BY <3>1, <3>2 DEF Holds
  <2>3. ASSUME NEW c \in Clients, Ended(c)
        PROVE  \/ c \in over
               \/ pc[by[c]] = "close" /\ hand[by[c]] = c
               \/ \E d \in Clients : kid[d] = "exec" /\ by[d] = c
    <3>1. client[c] # "new" /\ c \notin Queued /\ c \notin Active
      BY <2>0, <2>3 DEF PlacesOK, ConnInv, QueueInv, Ended, Active
    <3>2. ASSUME NEW p \in Procs, hand[p] = c PROVE pc[by[c]] = "close" /\ hand[by[c]] = c
      <4>1. ProcInv(p) /\ c # None BY <2>0, NetAssumption DEF PlacesOK
      <4>2. pc[p] = "close" BY <2>0, <2>3, <3>2, <4>1 DEF ProcInv, Ended, TypeOK
      <4>3. p # c BY <2>3, <4>1, <4>2 DEF ProcInv, Ended
      <4> QED BY <3>2, <4>1, <4>2, <4>3 DEF ProcInv
    <3> QED BY <2>2, <3>1, <3>2
  <2>4. ASSUME NEW c \in Clients, client[c] # "new"
        PROVE  \/ c \in Queued \cup Active \cup over \/ Ended(c)
               \/ \E p \in Procs : pc[p] = "fork" /\ hand[p] = c
    <3>1. CASE kid[c] # "none" BY <3>1 DEF Active
    <3>2. CASE kid[c] = "none"
      <4>1. ASSUME NEW d \in Clients, by[d] = c PROVE FALSE
        BY <2>0, <3>2, <4>1, NetAssumption DEF PlacesOK, ConnInv
      <4>2. ASSUME NEW p \in Procs, hand[p] = c PROVE pc[p] = "fork"
        BY <2>0, <3>2, <4>2, NetAssumption DEF PlacesOK, ProcInv, TypeOK
      <4> QED BY <2>2, <2>4, <4>1, <4>2
    <3> QED BY <3>1, <3>2
  <2> QED BY <2>0, <2>1, <2>3, <2>4 DEF NothingLeftOpen, PlacesOK, QueueInv
<1> QED BY <1>1, Init_IInv, IInvNext, PTL DEF Spec
=============================================================================
