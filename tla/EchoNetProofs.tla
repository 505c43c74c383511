--------------------------- MODULE EchoNetProofs ----------------------------
(***************************************************************************)
(* Lemmas about EchoNet, for EchoPollProofs, EchoSelectProofs and          *)
(* EchoForkProofs: what holds of the connections, of the lines on their    *)
(* way and of a server's array of clients whatever loop the server runs,   *)
(* and what the steps that the two servers with an array share are to      *)
(* EchoService.                                                            *)
(***************************************************************************)
EXTENDS EchoNet, FiniteSetTheorems, FunctionTheorems, SequenceTheorems,
        WellFoundedInduction, TLAPS

\* Every nonempty set of natural numbers has a least element.
LEMMA LeastNatural ==
  ASSUME NEW S \in SUBSET Nat, S # {}
  PROVE  Min(S) \in S /\ \A x \in S : Min(S) <= x
<1> DEFINE R == OpToRel(<, Nat)
<1>1. \E x \in S : \A y \in S : ~(<<y, x>> \in R)
  BY NatLessThanWellFounded, WFMin
<1>2. \A x, y \in Nat : y < x => <<y, x>> \in R
  BY DEF OpToRel
<1> HIDE DEF R
<1>3. PICK x \in S : \A y \in S : ~(<<y, x>> \in R)
  BY <1>1
<1>4. \A y \in S : ~(y < x)
  BY <1>2, <1>3, Zenon
<1>5. \A y \in S : x <= y
  BY <1>4
<1> QED BY <1>5 DEF Min

\* Every bounded set of natural numbers that is not empty has a greatest one.
LEMMA GreatestNatural ==
  ASSUME NEW S \in SUBSET Nat, S # {}, NEW n \in Nat, \A x \in S : x <= n
  PROVE  Max(S) \in S /\ \A x \in S : x <= Max(S)
<1> DEFINE Bounds == {m \in Nat : \A x \in S : x <= m}
<1>1. Min(Bounds) \in Bounds /\ \A m \in Bounds : Min(Bounds) <= m
  BY LeastNatural
<1>2. PICK m \in Bounds : \A k \in Bounds : m <= k
  BY <1>1
<1>3. m \in S
  <2> SUFFICES ASSUME m \notin S PROVE FALSE OBVIOUS
  <2>1. \A x \in S : x < m BY <1>2
  <2>2. PICK y \in S : TRUE OBVIOUS
  <2>3. m - 1 \in Nat BY <2>1, <2>2
  <2>4. m - 1 \in Bounds BY <2>1, <2>3
  <2> QED BY <1>2, <2>4
<1> QED BY <1>2, <1>3 DEF Max

-----------------------------------------------------------------------------
(* Lines that are on their way *)

Pieces == {"txt", "nl"}

\* The ends of lines among what a client has sent.
Ends(s) == {k \in 1..Len(s) : s[k] = "nl"}
Lines(s) == Cardinality(Ends(s))

LEMMA EndsFinite ==
  ASSUME NEW s \in Seq(Pieces)
  PROVE  IsFiniteSet(Ends(s)) /\ Lines(s) \in Nat
<1>1. IsFiniteSet(1..Len(s)) BY FS_Interval
<1>2. Ends(s) \in SUBSET (1..Len(s)) BY DEF Ends
<1>3. IsFiniteSet(Ends(s)) BY <1>1, <1>2, FS_Subset
<1> QED BY <1>3, FS_CardinalityType DEF Lines

LEMMA LinesAppend ==
  ASSUME NEW s \in Seq(Pieces), NEW p \in Pieces
  PROVE  Lines(Append(s, p)) = Lines(s) + (IF p = "nl" THEN 1 ELSE 0)
<1>1. Append(s, p) \in Seq(Pieces) /\ Len(Append(s, p)) = Len(s) + 1
      /\ Len(s) \in Nat
  OBVIOUS
<1>2. CASE p = "nl"
  <2>1. Ends(Append(s, p)) = Ends(s) \cup {Len(s) + 1} BY <1>1, <1>2 DEF Ends
  <2>2. Len(s) + 1 \notin Ends(s) BY <1>1 DEF Ends
  <2> QED BY <1>2, <2>1, <2>2, EndsFinite, FS_AddElement DEF Lines
<1>3. CASE p # "nl"
  <2>1. Ends(Append(s, p)) = Ends(s) BY <1>1, <1>3 DEF Ends
  <2> QED BY <1>3, <2>1, EndsFinite DEF Lines
<1> QED BY <1>2, <1>3

LEMMA LinesTail ==
  ASSUME NEW s \in Seq(Pieces), s # <<>>
  PROVE  Lines(s) = Lines(Tail(s)) + (IF Head(s) = "nl" THEN 1 ELSE 0)
<1> DEFINE rest == Ends(Tail(s))
           shift == [k \in rest |-> k + 1]
<1>1. Tail(s) \in Seq(Pieces) /\ Len(Tail(s)) = Len(s) - 1 /\ Len(s) \in Nat \ {0}
      /\ \A k \in 1..Len(Tail(s)) : Tail(s)[k] = s[k + 1]
  BY HeadTailProperties, EmptySeq
<1>2. shift \in Bijection(rest, Ends(s) \ {1})
  <2>1. shift \in [rest -> Ends(s) \ {1}] BY <1>1 DEF Ends
  <2>2. \A a, b \in rest : shift[a] = shift[b] => a = b BY DEF Ends
  <2>3. ASSUME NEW k \in Ends(s) \ {1} PROVE \E j \in rest : shift[j] = k
    <3>1. k - 1 \in rest BY <1>1 DEF Ends
    <3>2. shift[k - 1] = k BY <3>1 DEF Ends
    <3> QED BY <3>1, <3>2
  <2> QED BY <2>1, <2>2, <2>3, Fun_IsBij
<1>3. Lines(Tail(s)) = Cardinality(Ends(s) \ {1})
  BY <1>1, <1>2, EndsFinite, FS_Bijection DEF ExistsBijection, Lines
<1>4. Head(s) = "nl" <=> 1 \in Ends(s)
  BY <1>1 DEF Ends
<1>5. Cardinality(Ends(s) \ {1}) = IF 1 \in Ends(s) THEN Lines(s) - 1 ELSE Lines(s)
  BY EndsFinite, FS_RemoveElement DEF Lines
<1> QED BY <1>3, <1>4, <1>5, EndsFinite

-----------------------------------------------------------------------------
(* Invariants of the connections, whatever the server's loop is *)

\* A connection is in one place: it has a descriptor, or waits in the queue, or
\* is over.  Only a client that has closed can send a reset.
PlacesInv ==
  /\ \A f, g \in Fds : fdc[f] = fdc[g] /\ fdc[f] # None => f = g
  /\ \A m, n \in 1..Len(backlog) : backlog[m] = backlog[n] => m = n
  /\ Held \cap Queued = {} /\ (Held \cup Queued) \cap over = {}
  /\ \A c \in Clients : client[c] = "new" <=> c \notin Held \cup Queued \cup over
  /\ \A c \in reset : client[c] = "closed"

\* Each line of a client is on its way to the server, in the server's hand (for
\* the clients in `busy'), on its way back, or read.
LinesInv(busy) ==
  \A c \in Clients :
    /\ out[c] + got[c] + Lines(inq[c]) <= sent[c]
    /\ c \in busy => out[c] + got[c] + Lines(inq[c]) < sent[c]

LEMMA NetInit_Inv == NetInit => NetTypeOK /\ PlacesInv /\ LinesInv({})
<1> SUFFICES ASSUME NetInit PROVE NetTypeOK /\ PlacesInv /\ LinesInv({})
  OBVIOUS
<1> USE NetAssumption DEF NetInit
<1>1. NetTypeOK BY DEF NetTypeOK
<1>2. Held = {} /\ Queued = {} BY DEF Held, Queued, ToSet
<1>3. PlacesInv BY <1>2 DEF PlacesInv
<1>4. Lines(<<>>) = 0
  <2>1. Ends(<<>>) = {} BY DEF Ends
  <2> QED BY <2>1, FS_EmptySet DEF Lines
<1>5. LinesInv({}) BY <1>4 DEF LinesInv
<1> QED BY <1>1, <1>3, <1>5

LEMMA AppendNonEmpty ==
  ASSUME NEW s \in Seq(Pieces), NEW p \in {"txt", "nl"}
  PROVE  Append(s, p) # <<>>
BY AppendProperties DEF Pieces

\* What a client does to its own connection; the server's end stays as it is.
LEMMA ClientLines ==
  ASSUME NEW busy, NetTypeOK, LinesInv(busy), NEW c \in Clients, Client(c)
  PROVE  /\ (NetTypeOK /\ LinesInv(busy))'
         /\ UNCHANGED serverEnd
         /\ \A d \in Clients : Readable(d) => Readable(d)'
<1> USE NetAssumption DEF NetTypeOK
<1>0. UNCHANGED serverEnd
  BY DEF Client, SendText, SendNewline, ReadEcho, Quit, NetReset, serverEnd
<1>2. \A d \in Clients : /\ inq[d] \in Seq(Pieces) /\ Lines(inq[d]) \in Nat
                        /\ out[d] \in Nat /\ got[d] \in Nat /\ sent[d] \in Nat
  BY EndsFinite DEF Pieces
<1>3. CASE SendText(c)
  <2> USE <1>3 DEF SendText, CanSend
  <2>1. NetTypeOK' OBVIOUS
  <2>3. Lines(inq'[c]) = Lines(inq[c]) BY <1>2, LinesAppend DEF Pieces
  <2>4. LinesInv(busy)' BY <2>3 DEF LinesInv
  <2>5. \A d \in Clients : Readable(d) => Readable(d)'
    <3>1. \A d \in Clients : inq[d] # <<>> => inq'[d] # <<>> BY <1>2, AppendNonEmpty
    <3> QED BY <3>1 DEF Readable
  <2> QED BY <1>0, <2>1, <2>4, <2>5
<1>4. CASE SendNewline(c)
  <2> USE <1>4 DEF SendNewline, CanSend
  <2>1. NetTypeOK' OBVIOUS
  <2>3. Lines(inq'[c]) = Lines(inq[c]) + 1 BY <1>2, LinesAppend DEF Pieces
  <2>4. LinesInv(busy)'
    <3>1. \A d \in Clients : /\ out'[d] = out[d] /\ got'[d] = got[d]
                            /\ sent'[d] - Lines(inq'[d]) = sent[d] - Lines(inq[d])
                            /\ Lines(inq'[d]) \in Nat /\ sent'[d] \in Nat
      <4> TAKE d \in Clients
      <4>1. CASE d = c BY <1>2, <2>3, <4>1
      <4>2. CASE d # c BY <1>2, <4>2
      <4> QED BY <4>1, <4>2
    <3> HIDE <1>4 DEF NetTypeOK, SendNewline, CanSend
    <3> QED BY <1>2, <3>1 DEF LinesInv
  <2>5. \A d \in Clients : Readable(d) => Readable(d)'
    <3>1. \A d \in Clients : inq[d] # <<>> => inq'[d] # <<>> BY <1>2, AppendNonEmpty
    <3> QED BY <3>1 DEF Readable
  <2> QED BY <1>0, <2>1, <2>4, <2>5
<1>5. CASE ReadEcho(c)
  <2> USE <1>5 DEF ReadEcho
  <2>1. LinesInv(busy)'
    <3>1. \A d \in Clients : /\ out'[d] + got'[d] = out[d] + got[d]
                            /\ sent'[d] = sent[d] /\ inq'[d] = inq[d]
      BY <1>2
    <3> HIDE <1>5 DEF NetTypeOK, ReadEcho
    <3> QED BY <1>2, <3>1 DEF LinesInv
  <2>2. got[c] + 1 \in 0..MaxLines /\ out[c] - 1 \in 0..MaxLines
    <3>1. out[c] + got[c] <= sent[c] BY <1>2 DEF LinesInv
    <3> QED BY <3>1
  <2>3. NetTypeOK' BY <2>2
  <2>5. \A d \in Clients : Readable(d) => Readable(d)' BY DEF Readable
  <2> QED BY <1>0, <2>1, <2>3, <2>5
<1>6. CASE Quit(c)
  <2> USE <1>6 DEF Quit
  <2>1. NetTypeOK' OBVIOUS
  <2>3. LinesInv(busy)' BY DEF LinesInv
  <2>4. \A d \in Clients : Readable(d) => Readable(d)' BY DEF Readable
  <2> QED BY <1>0, <2>1, <2>3, <2>4
<1>7. CASE NetReset(c)
  <2> USE <1>7 DEF NetReset
  <2>1. NetTypeOK' OBVIOUS
  <2>3. LinesInv(busy)' BY DEF LinesInv
  <2>4. \A d \in Clients : Readable(d) => Readable(d)' BY DEF Readable
  <2> QED BY <1>0, <2>1, <2>3, <2>4
<1> QED BY <1>3, <1>4, <1>5, <1>6, <1>7 DEF Client

LEMMA ClientInv ==
  ASSUME NEW busy, NetTypeOK, PlacesInv, LinesInv(busy),
         NEW c \in Clients, Client(c)
  PROVE  /\ (NetTypeOK /\ PlacesInv /\ LinesInv(busy))'
         /\ UNCHANGED serverEnd
         /\ \A d \in Clients : Readable(d) => Readable(d)'
<1>1. /\ (NetTypeOK /\ LinesInv(busy))' /\ UNCHANGED serverEnd
      /\ \A d \in Clients : Readable(d) => Readable(d)'
  BY ClientLines
<1>2. UNCHANGED <<fdc, backlog, over, Held, Queued>>
  BY <1>1 DEF serverEnd, Held, Queued
<1>3. \A d \in Clients : client'[d] = "new" <=> client[d] = "new"
  BY DEF Client, SendText, SendNewline, ReadEcho, Quit, NetReset, CanSend, NetTypeOK
<1>4. \A d \in reset' : client'[d] = "closed"
  BY DEF Client, SendText, SendNewline, ReadEcho, Quit, NetReset, CanSend, NetTypeOK, PlacesInv
<1> QED BY <1>1, <1>2, <1>3, <1>4 DEF PlacesInv

\* The queue grows at its end.
LEMMA Enqueue ==
  ASSUME backlog \in Seq(Clients), NEW c \in Clients, backlog' = Append(backlog, c),
         \A m, n \in 1..Len(backlog) : backlog[m] = backlog[n] => m = n
  PROVE  /\ backlog' \in Seq(Clients) /\ Queued' = Queued \cup {c}
         /\ c \notin Queued =>
              \A m, n \in 1..Len(backlog') : backlog'[m] = backlog'[n] => m = n
<1>1. /\ Len(backlog) \in Nat /\ Len(backlog') = Len(backlog) + 1
      /\ backlog'[Len(backlog) + 1] = c /\ backlog' \in Seq(Clients)
      /\ \A k \in 1..Len(backlog) : backlog'[k] = backlog[k]
  BY AppendProperties, LenProperties
<1>2. Queued = {backlog[k] : k \in 1..Len(backlog)} BY DEF Queued, ToSet
<1>3. Queued' = {backlog'[k] : k \in 1..Len(backlog')}
  <2>1. DOMAIN backlog' = 1..Len(backlog') BY <1>1, LenProperties
  <2> QED BY <2>1 DEF Queued, ToSet
<1> QED BY <1>1, <1>2, <1>3

\* A client that connects enters the queue, which it is not in yet.
LEMMA ConnectInv ==
  ASSUME NetTypeOK, PlacesInv, NEW c \in Clients, Connect(c)
  PROVE  /\ (NetTypeOK /\ PlacesInv)'
         /\ UNCHANGED <<fdc, over, Held>> /\ Queued' = Queued \cup {c}
         /\ client[c] = "new"
<1> USE DEF Connect
<1>1. NetTypeOK' BY DEF NetTypeOK
<1>2. c \notin Held \cup Queued \cup over BY DEF PlacesInv
<1>3. /\ Queued' = Queued \cup {c}
      /\ \A m, n \in 1..Len(backlog') : backlog'[m] = backlog'[n] => m = n
  BY <1>2, Enqueue DEF NetTypeOK, PlacesInv
<1>4. UNCHANGED <<fdc, over, Held>> /\ client[c] = "new" BY DEF Held
<1>5. PlacesInv'
  <2>1. \A d \in Clients : client'[d] = "new" <=> d \notin Held' \cup Queued' \cup over'
    BY <1>3, <1>4 DEF PlacesInv, NetTypeOK
  <2>2. \A d \in reset' : client'[d] = "closed"
    BY <1>4 DEF PlacesInv, NetTypeOK
  <2> QED BY <1>2, <1>3, <1>4, <2>1, <2>2 DEF PlacesInv
<1> QED BY <1>1, <1>3, <1>4, <1>5

\* The head of the queue leaves it.
LEMMA Dequeue ==
  ASSUME NetTypeOK, backlog # <<>>, backlog' = Tail(backlog),
         \A m, n \in 1..Len(backlog) : backlog[m] = backlog[n] => m = n
  PROVE  /\ Head(backlog) \in Queued /\ Queued' = Queued \ {Head(backlog)}
         /\ Head(backlog) \in Clients /\ backlog' \in Seq(Clients)
         /\ \A m, n \in 1..Len(backlog') : backlog'[m] = backlog'[n] => m = n
<1>1. backlog \in Seq(Clients) BY DEF NetTypeOK
<1>2. /\ Len(backlog) \in Nat \ {0} /\ Len(backlog') = Len(backlog) - 1
      /\ \A k \in 1..Len(backlog') : backlog'[k] = backlog[k + 1]
      /\ backlog' \in Seq(Clients)
  BY <1>1, HeadTailProperties, EmptySeq
<1>3. Head(backlog) = backlog[1] BY <1>1
<1>4. Queued = {backlog[k] : k \in 1..Len(backlog)} BY <1>1 DEF Queued, ToSet
<1>5. Queued' = {backlog'[k] : k \in 1..Len(backlog')}
  <2>1. DOMAIN backlog' = 1..Len(backlog') BY <1>2, LenProperties
  <2> QED BY <2>1 DEF Queued, ToSet
<1>6. Head(backlog) \in Queued BY <1>2, <1>3, <1>4
<1>7. Queued' = Queued \ {Head(backlog)}
  <2>1. \A k \in 2..Len(backlog) : k - 1 \in 1..Len(backlog') /\ backlog'[k - 1] = backlog[k]
    BY <1>2
  <2>2. \A k \in 2..Len(backlog) : backlog[k] # backlog[1] BY <1>2
  <2>3. Queued' \subseteq Queued \ {Head(backlog)} BY <1>2, <1>3, <1>4, <1>5, <2>2
  <2>4. Queued \ {Head(backlog)} \subseteq Queued'
    <3> SUFFICES ASSUME NEW k \in 1..Len(backlog), backlog[k] # backlog[1]
                 PROVE  backlog[k] \in Queued'
      BY <1>3, <1>4
    <3>1. k \in 2..Len(backlog) BY <1>2
    <3> QED BY <1>5, <2>1, <3>1
  <2> QED BY <2>3, <2>4
<1>8. \A m, n \in 1..Len(backlog') : backlog'[m] = backlog'[n] => m = n
  BY <1>2
<1> QED BY <1>1, <1>2, <1>6, <1>7, <1>8, HeadTailProperties

\* accept() moves the head of the queue to a free descriptor.
LEMMA AcceptInv ==
  ASSUME NetTypeOK, PlacesInv, backlog # <<>>, NEW fd \in Fds, fdc[fd] = None,
         backlog' = Tail(backlog), fdc' = [fdc EXCEPT ![fd] = Head(backlog)],
         UNCHANGED <<clientVars, inq, out, over, reset>>
  PROVE  /\ (NetTypeOK /\ PlacesInv)'
         /\ Head(backlog) \in Queued /\ Head(backlog) \in Clients
         /\ Queued' = Queued \ {Head(backlog)} /\ Held' = Held \cup {Head(backlog)}
<1> DEFINE c == Head(backlog)
<1>1. /\ c \in Queued /\ Queued' = Queued \ {c} /\ c \in Clients
      /\ backlog' \in Seq(Clients)
      /\ \A m, n \in 1..Len(backlog') : backlog'[m] = backlog'[n] => m = n
  BY Dequeue DEF PlacesInv
<1> HIDE DEF c
<1>2. fdc \in [Fds -> Clients \cup {None}] /\ fdc' = [fdc EXCEPT ![fd] = c]
  BY DEF NetTypeOK, c
<1>3. Held' = Held \cup {c} BY <1>1, <1>2, NetAssumption DEF Held
<1>4. NetTypeOK' BY <1>1, <1>2 DEF NetTypeOK, clientVars
<1>5. PlacesInv'
  <2>1. c \notin Held \cup over BY <1>1 DEF PlacesInv
  <2>2. \A f \in Fds : fdc[f] # c BY <1>1, <2>1 DEF Held
  <2>3. \A f, g \in Fds : fdc'[f] = fdc'[g] /\ fdc'[f] # None => f = g
    BY <1>2, <2>2 DEF PlacesInv
  <2>4. Held' \cap Queued' = {} /\ (Held' \cup Queued') \cap over' = {}
    BY <1>1, <1>3, <2>1 DEF PlacesInv
  <2>5. Held' \cup Queued' \cup over' = Held \cup Queued \cup over
    BY <1>1, <1>3
  <2> QED BY <1>1, <2>3, <2>4, <2>5 DEF PlacesInv, clientVars
<1> QED BY <1>1, <1>3, <1>4, <1>5 DEF c

\* A connection that is accepted and closed at once leaves the queue.
LEMMA RefuseInv ==
  ASSUME NetTypeOK, PlacesInv, backlog # <<>>,
         backlog' = Tail(backlog), over' = over \cup {Head(backlog)},
         UNCHANGED <<clientVars, inq, out, fdc, reset>>
  PROVE  /\ (NetTypeOK /\ PlacesInv)'
         /\ Head(backlog) \in Queued /\ Head(backlog) \in Clients
         /\ Queued' = Queued \ {Head(backlog)} /\ UNCHANGED Held
<1> DEFINE c == Head(backlog)
<1>1. /\ c \in Queued /\ Queued' = Queued \ {c} /\ c \in Clients
      /\ backlog' \in Seq(Clients)
      /\ \A m, n \in 1..Len(backlog') : backlog'[m] = backlog'[n] => m = n
  BY Dequeue DEF PlacesInv
<1> HIDE DEF c
<1>2. over' = over \cup {c} BY DEF c
<1>3. UNCHANGED Held BY DEF Held
<1>4. NetTypeOK' BY <1>1, <1>2 DEF NetTypeOK, clientVars
<1>5. PlacesInv'
  <2>1. c \notin Held \cup over BY <1>1 DEF PlacesInv
  <2>2. Held' \cap Queued' = {} /\ (Held' \cup Queued') \cap over' = {}
    BY <1>1, <1>2, <1>3, <2>1 DEF PlacesInv
  <2>3. Held' \cup Queued' \cup over' = Held \cup Queued \cup over
    BY <1>1, <1>2, <1>3
  <2> QED BY <1>1, <2>2, <2>3 DEF PlacesInv, clientVars
<1> QED BY <1>1, <1>3, <1>4, <1>5 DEF c

\* A descriptor that is closed gives its connection up.
LEMMA CloseInv ==
  ASSUME NetTypeOK, PlacesInv, NEW fd \in Fds, fdc[fd] # None, FdClose(fd),
         UNCHANGED <<clientVars, inq, out, backlog, reset>>
  PROVE  /\ (NetTypeOK /\ PlacesInv)'
         /\ fdc[fd] \in Held /\ Held' = Held \ {fdc[fd]} /\ UNCHANGED Queued
<1> USE DEF FdClose
<1>1. fdc \in [Fds -> Clients \cup {None}] /\ fdc[fd] \in Clients BY DEF NetTypeOK
<1>2. fdc[fd] \in Held BY <1>1 DEF Held
<1>3. \A f \in Fds : f # fd => fdc[f] # fdc[fd] BY DEF PlacesInv
<1>4. Held' = Held \ {fdc[fd]}
  <2>1. \A f \in Fds : fdc'[f] = IF f = fd THEN None ELSE fdc[f] BY <1>1
  <2> QED BY <1>1, <1>3, <2>1, NetAssumption DEF Held
<1>5. UNCHANGED Queued BY DEF Queued
<1>6. NetTypeOK' BY <1>1 DEF NetTypeOK, clientVars
<1>7. PlacesInv'
  <2>1. \A f, g \in Fds : fdc'[f] = fdc'[g] /\ fdc'[f] # None => f = g
    BY <1>1 DEF PlacesInv
  <2>2. Held' \cap Queued' = {} /\ (Held' \cup Queued') \cap over' = {}
    BY <1>2, <1>4, <1>5 DEF PlacesInv
  <2>3. Held' \cup Queued' \cup over' = Held \cup Queued \cup over
    BY <1>2, <1>4, <1>5
  <2> QED BY <2>1, <2>2, <2>3 DEF PlacesInv, clientVars
<1> QED BY <1>2, <1>4, <1>5, <1>6, <1>7

\* The end of the process gives all connections up.
LEMMA EndInv ==
  ASSUME NetTypeOK, PlacesInv, ProcessEnds
  PROVE  /\ (NetTypeOK /\ PlacesInv)'
         /\ Held' = {} /\ Queued' = {} /\ over' = over \cup Held \cup Queued
<1> USE DEF ProcessEnds
<1>1. Held' = {} BY NetAssumption DEF Held
<1>2. Queued' = {} BY DEF Queued, ToSet
<1>3. Queued \subseteq Clients /\ Held \subseteq Clients
  BY DEF Queued, Held, ToSet, NetTypeOK
<1>4. NetTypeOK' BY <1>3 DEF NetTypeOK, clientVars
<1>5. PlacesInv' BY <1>1, <1>2, <1>3 DEF PlacesInv, clientVars
<1> QED BY <1>1, <1>2, <1>4, <1>5

\* Nothing of this moves when only variables of the server's loop change.
LEMMA NetStays ==
  ASSUME UNCHANGED netVars
  PROVE  /\ NetTypeOK' = NetTypeOK /\ PlacesInv' = PlacesInv
         /\ \A busy : LinesInv(busy)' = LinesInv(busy)
         /\ \A c \in Clients : Readable(c)' = Readable(c)
         /\ UNCHANGED <<Held, Queued, Gone, Answered>>
<1> USE DEF netVars
<1>1. UNCHANGED <<Held, Queued, Gone, Answered>>
  BY DEF Held, Queued, Gone, Answered
<1>2. NetTypeOK' = NetTypeOK BY DEF NetTypeOK
<1>3. PlacesInv' = PlacesInv BY <1>1 DEF PlacesInv
<1>4. \A busy : LinesInv(busy)' = LinesInv(busy) BY DEF LinesInv
<1>5. \A c \in Clients : Readable(c)' = Readable(c) BY DEF Readable
<1> QED BY <1>1, <1>2, <1>3, <1>4, <1>5

-----------------------------------------------------------------------------
(* Lines that the server reads and writes *)

\* A step that moves no piece and no echo moves no line.
LEMMA LinesStay ==
  ASSUME NEW busy, LinesInv(busy), UNCHANGED <<inq, out, got, sent>>
  PROVE  LinesInv(busy)'
BY DEF LinesInv

\* The server takes the next piece; with the end of a line the line is its own.
LEMMA ReadLines ==
  ASSUME NetTypeOK, NEW busy, LinesInv(busy),
         NEW c \in Clients, c \notin busy, inq[c] # <<>>, inq' = [inq EXCEPT ![c] = Tail(@)],
         UNCHANGED <<clientVars, out, serverEnd, reset>>
  PROVE  /\ NetTypeOK'
         /\ Head(inq[c]) = "nl" => LinesInv(busy \cup {c})'
         /\ Head(inq[c]) # "nl" => LinesInv(busy)'
<1>3. \A d \in Clients : /\ inq[d] \in Seq(Pieces) /\ Lines(inq[d]) \in Nat
                        /\ out[d] \in Nat /\ got[d] \in Nat /\ sent[d] \in Nat
  BY EndsFinite DEF NetTypeOK, Pieces
<1>4. Tail(inq[c]) \in Seq(Pieces) /\ Lines(Tail(inq[c])) \in Nat
  BY <1>3, HeadTailProperties, EndsFinite
<1>5. NetTypeOK' BY <1>4 DEF NetTypeOK, serverEnd, clientVars, Pieces
<1>6. Lines(inq[c]) = Lines(Tail(inq[c])) + (IF Head(inq[c]) = "nl" THEN 1 ELSE 0)
  BY <1>3, LinesTail
<1>7. \A d \in Clients : inq'[d] = IF d = c THEN Tail(inq[c]) ELSE inq[d]
  BY DEF NetTypeOK
<1>8. out' = out /\ got' = got /\ sent' = sent BY DEF clientVars
<1>9. ASSUME Head(inq[c]) = "nl" PROVE LinesInv(busy \cup {c})'
  BY <1>3, <1>4, <1>6, <1>7, <1>8, <1>9 DEF LinesInv
<1>10. ASSUME Head(inq[c]) # "nl" PROVE LinesInv(busy)'
  BY <1>3, <1>4, <1>6, <1>7, <1>8, <1>10 DEF LinesInv
<1> QED BY <1>5, <1>9, <1>10

LEMMA ReadPiece ==
  ASSUME NetTypeOK, PlacesInv, LinesInv({}),
         NEW c \in Clients, inq[c] # <<>>, inq' = [inq EXCEPT ![c] = Tail(@)],
         UNCHANGED <<clientVars, out, serverEnd, reset>>
  PROVE  /\ (NetTypeOK /\ PlacesInv)' /\ UNCHANGED <<Held, Queued>>
         /\ Head(inq[c]) = "nl" => LinesInv({c})'
         /\ Head(inq[c]) # "nl" => LinesInv({})'
<1>1. UNCHANGED <<Held, Queued>> BY DEF Held, Queued, serverEnd
<1>2. PlacesInv' BY <1>1 DEF PlacesInv, serverEnd, clientVars
<1>3. /\ NetTypeOK'
      /\ Head(inq[c]) = "nl" => LinesInv({} \cup {c})'
      /\ Head(inq[c]) # "nl" => LinesInv({})'
  BY ReadLines
<1>4. LinesInv({} \cup {c})' => LinesInv({c})' BY DEF LinesInv
<1> QED BY <1>1, <1>2, <1>3, <1>4

\* The line in the server's hand goes back.
LEMMA WriteLines ==
  ASSUME NetTypeOK, NEW busy, LinesInv(busy),
         NEW c \in Clients, c \in busy, out' = [out EXCEPT ![c] = @ + 1],
         UNCHANGED <<clientVars, inq, serverEnd, reset>>
  PROVE  NetTypeOK' /\ LinesInv(busy \ {c})' /\ out[c] + got[c] < sent[c]
<1>3. \A d \in Clients : /\ inq[d] \in Seq(Pieces) /\ Lines(inq[d]) \in Nat
                        /\ out[d] \in Nat /\ got[d] \in Nat
                        /\ sent[d] \in 0..MaxLines
  BY EndsFinite, NetAssumption DEF NetTypeOK, Pieces
<1>4. out[c] + got[c] < sent[c] BY <1>3 DEF LinesInv
<1>5. out[c] + 1 \in 0..MaxLines BY <1>3, <1>4, NetAssumption
<1>6. NetTypeOK' BY <1>5 DEF NetTypeOK, serverEnd, clientVars
<1>7. \A d \in Clients : out'[d] = IF d = c THEN out[c] + 1 ELSE out[d]
  BY DEF NetTypeOK
<1>8. inq' = inq /\ got' = got /\ sent' = sent BY DEF clientVars
<1>9. LinesInv(busy \ {c})'
  <2> SUFFICES ASSUME NEW d \in Clients
               PROVE  /\ out'[d] + got[d] + Lines(inq[d]) <= sent[d]
                      /\ d \in busy \ {c} => out'[d] + got[d] + Lines(inq[d]) < sent[d]
    BY <1>8 DEF LinesInv
  <2>1. CASE d = c BY <1>3, <1>7, <2>1, NetAssumption DEF LinesInv
  <2>2. CASE d # c BY <1>7, <2>2 DEF LinesInv
  <2> QED BY <2>1, <2>2
<1> QED BY <1>4, <1>6, <1>9

LEMMA WriteEcho ==
  ASSUME NetTypeOK, PlacesInv,
         NEW c \in Clients, LinesInv({c}), out' = [out EXCEPT ![c] = @ + 1],
         UNCHANGED <<clientVars, inq, serverEnd, reset>>
  PROVE  /\ (NetTypeOK /\ PlacesInv)' /\ UNCHANGED <<Held, Queued>>
         /\ LinesInv({})' /\ out[c] + got[c] < sent[c]
<1>1. UNCHANGED <<Held, Queued>> BY DEF Held, Queued, serverEnd
<1>2. PlacesInv' BY <1>1 DEF PlacesInv, serverEnd, clientVars
<1>3. {c} \ {c} = {} OBVIOUS
<1> QED BY <1>1, <1>2, <1>3, WriteLines

-----------------------------------------------------------------------------
(* What the steps are to EchoService *)

\* The place of a connection is its phase.
LEMMA PhaseIs ==
  ASSUME PlacesInv
  PROVE  /\ Phase = [c \in Clients |-> Phase[c]]
         /\ \A c \in Clients : /\ Phase[c] = "served" <=> c \in Held
                               /\ Phase[c] = "waiting" <=> c \in Queued
                               /\ Phase[c] = "over" <=> c \in over
                               /\ Phase[c] = "away" <=> client[c] = "new"
                               /\ Phase[c] \in {"served", "waiting", "over", "away"}
BY DEF PlacesInv, Phase

LEMMA PhaseStays ==
  ASSUME UNCHANGED <<Held, Queued, over>>
  PROVE  UNCHANGED Phase
BY DEF Phase

\* A connection that changes its place changes its phase, and no other does.
LEMMA PhaseMoves ==
  ASSUME PlacesInv, PlacesInv', NEW c \in Clients
  PROVE  /\ UNCHANGED <<Held, over>> /\ Queued' = Queued \cup {c} /\ client[c] = "new"
              => Phase[c] = "away" /\ Phase' = [Phase EXCEPT ![c] = "waiting"]
         /\ UNCHANGED over /\ Held' = Held \cup {c} /\ Queued' = Queued \ {c}
              /\ c \in Queued
              => Phase[c] = "waiting" /\ Phase' = [Phase EXCEPT ![c] = "served"]
         /\ UNCHANGED Held /\ Queued' = Queued \ {c} /\ over' = over \cup {c}
              /\ c \in Queued
              => Phase[c] = "waiting" /\ Phase' = [Phase EXCEPT ![c] = "over"]
         /\ UNCHANGED Queued /\ Held' = Held \ {c} /\ over' = over \cup {c}
              /\ c \in Held
              => Phase[c] = "served" /\ Phase' = [Phase EXCEPT ![c] = "over"]
BY PhaseIs DEF PlacesInv, Phase

\* When the process ends every connection it had is over.
LEMMA PhaseStops ==
  ASSUME PlacesInv, Held' = {}, Queued' = {}, over' = over \cup Held \cup Queued
  PROVE  Phase' = [c \in Clients |-> IF Phase[c] \in {"waiting", "served"}
                                       THEN "over" ELSE Phase[c]]
BY PhaseIs DEF PlacesInv, Phase

\* An echo that is read was answered before; one that is written is now.
LEMMA AnsweredStays ==
  ASSUME NetTypeOK, NEW c \in Clients, Client(c)
  PROVE  UNCHANGED Answered
<1>1. CASE ReadEcho(c)
  <2>1. \A d \in Clients : out'[d] + got'[d] = out[d] + got[d]
    BY <1>1 DEF ReadEcho, NetTypeOK
  <2> QED BY <2>1 DEF Answered
<1>2. CASE ~ReadEcho(c)
  BY <1>2 DEF Client, SendText, SendNewline, Quit, NetReset, Answered
<1> QED BY <1>1, <1>2

LEMMA AnsweredGrows ==
  ASSUME NetTypeOK, NEW c \in Clients, out' = [out EXCEPT ![c] = @ + 1], got' = got
  PROVE  Answered' = [Answered EXCEPT ![c] = @ + 1]
<1>1. \A d \in Clients : out'[d] + got'[d] = IF d = c THEN out[c] + got[c] + 1
                                                      ELSE out[d] + got[d]
  BY DEF NetTypeOK
<1> QED BY <1>1 DEF Answered

-----------------------------------------------------------------------------
(* A server's array of clients: f[j] is the descriptor in slot j \in S, and *)
(* t the descriptor table.                                                  *)

UsedSlots(S, f) == {j \in S : f[j] # NoFd}

\* Each descriptor that is open stands in one slot; nothing else stands there.
OneSlotEach(S, f, t) ==
  /\ {f[j] : j \in UsedSlots(S, f)} = {fd \in Fds : t[fd] # None}
  /\ \A j, k \in UsedSlots(S, f) : f[j] = f[k] => j = k

\* There are more descriptors than slots: one is free.  And each slot in use
\* stands for one client.
LEMMA SlotsCount ==
  ASSUME NEW S, IsFiniteSet(S), Cardinality(S) <= MAXCLIENTS,
         NEW f \in [S -> Fds \cup {NoFd}], NEW t \in [Fds -> Clients \cup {None}],
         OneSlotEach(S, f, t),
         \A g, h \in Fds : t[g] = t[h] /\ t[g] # None => g = h
  PROVE  /\ \E fd \in Fds : t[fd] = None
         /\ IsFiniteSet(UsedSlots(S, f))
         /\ Cardinality(UsedSlots(S, f)) <= Cardinality(S)
         /\ UsedSlots(S, f) # S => Cardinality(UsedSlots(S, f)) < Cardinality(S)
         /\ Cardinality({c \in Clients : \E fd \in Fds : t[fd] = c})
              = Cardinality(UsedSlots(S, f))
<1> DEFINE U == UsedSlots(S, f)
           open == {fd \in Fds : t[fd] # None}
           held == {c \in Clients : \E fd \in Fds : t[fd] = c}
<1>1. U \in SUBSET S /\ \A j \in U : f[j] \in open
  BY DEF UsedSlots, OneSlotEach
<1>2. IsFiniteSet(U) /\ Cardinality(U) <= Cardinality(S)
      /\ (U # S => Cardinality(U) < Cardinality(S))
  <2> HIDE DEF U
  <2> QED BY <1>1, FS_Subset, FS_CardinalityType
<1>3. \A fd \in open : \E j \in U : f[j] = fd BY DEF OneSlotEach
<1>4. \A j, k \in U : f[j] = f[k] => j = k BY DEF OneSlotEach
<1> HIDE DEF U
<1>5. [j \in U |-> f[j]] \in Bijection(U, open)
  BY <1>1, <1>3, <1>4, Fun_IsBij
<1>6. IsFiniteSet(open) /\ Cardinality(open) = Cardinality(U)
  BY <1>2, <1>5, FS_Bijection DEF ExistsBijection
<1>7. [fd \in open |-> t[fd]] \in Bijection(open, held)
  <2> DEFINE b == [fd \in open |-> t[fd]]
  <2>1. b \in [open -> held] OBVIOUS
  <2>2. \A g, h \in open : b[g] = b[h] => g = h OBVIOUS
  <2>3. \A c \in held : \E fd \in open : b[fd] = c BY NetAssumption
  <2> QED BY <2>1, <2>2, <2>3, Fun_IsBij
<1>8. Cardinality(held) = Cardinality(open)
  BY <1>6, <1>7, FS_Bijection DEF ExistsBijection
<1>9. \E fd \in Fds : t[fd] = None
  <2> SUFFICES ASSUME open = Fds PROVE FALSE OBVIOUS
  <2>1. Cardinality(Fds) = MAXCLIENTS + 1
    BY FS_Interval, NetAssumption DEF Fds
  <2>2. Cardinality(S) \in Nat /\ Cardinality(U) \in Nat
    BY <1>2, FS_CardinalityType
  <2>3. Cardinality(U) <= MAXCLIENTS /\ MAXCLIENTS \in Nat BY <1>2, <2>2, NetAssumption
  <2>4. Cardinality(U) = MAXCLIENTS + 1 BY <1>6, <2>1
  <2> QED BY ONLY <2>2, <2>3, <2>4
<1> QED BY <1>2, <1>6, <1>8, <1>9 DEF U

\* accept() puts a new descriptor into the free slot j ...
TakesSlot(S, f, t, j, g, u) ==
  /\ j \in S \ UsedSlots(S, f)
  /\ \E fd \in Fds, c \in Clients : /\ t[fd] = None /\ u = [t EXCEPT ![fd] = c]
                                    /\ g = [f EXCEPT ![j] = fd]

\* ... and slot j is cleared when its descriptor is closed.
ClearsSlot(S, f, t, j, g, u) ==
  /\ j \in UsedSlots(S, f)
  /\ g = [f EXCEPT ![j] = NoFd] /\ u = [t EXCEPT ![f[j]] = None]

\* Taking a slot keeps the array and the descriptor table together.
LEMMA SlotTaken ==
  ASSUME NEW S, NEW f \in [S -> Fds \cup {NoFd}],
         NEW t \in [Fds -> Clients \cup {None}], OneSlotEach(S, f, t),
         NEW j, NEW g, NEW u, TakesSlot(S, f, t, j, g, u)
  PROVE  OneSlotEach(S, g, u) /\ UsedSlots(S, g) = UsedSlots(S, f) \cup {j}
<1>0. PICK fd \in Fds, c \in Clients : /\ t[fd] = None /\ u = [t EXCEPT ![fd] = c]
                                       /\ g = [f EXCEPT ![j] = fd]
  BY DEF TakesSlot
<1>j. j \in S \ UsedSlots(S, f) BY DEF TakesSlot
<1>1. /\ \A k \in S : g[k] = IF k = j THEN fd ELSE f[k]
      /\ \A h \in Fds : u[h] = IF h = fd THEN c ELSE t[h]
  BY <1>0, <1>j
<1>2. fd # NoFd /\ c # None BY NetAssumption DEF Fds, NoFd
<1>3. UsedSlots(S, g) = UsedSlots(S, f) \cup {j} BY <1>j, <1>1, <1>2 DEF UsedSlots
<1>4. {h \in Fds : u[h] # None} = {h \in Fds : t[h] # None} \cup {fd}
  BY <1>1, <1>2
<1>5. \A k \in UsedSlots(S, f) : k # j /\ g[k] = f[k] /\ f[k] # fd
  BY <1>0, <1>j, <1>1 DEF OneSlotEach, UsedSlots
<1>6. {g[k] : k \in UsedSlots(S, g)} = {f[k] : k \in UsedSlots(S, f)} \cup {fd}
  BY ONLY <1>j, <1>1, <1>3, <1>5
<1>7. \A k, l \in UsedSlots(S, g) : g[k] = g[l] => k = l
  <2>1. \A k, l \in UsedSlots(S, f) : f[k] = f[l] => k = l BY DEF OneSlotEach
  <2>2. g[j] = fd BY <1>j, <1>1
  <2> QED BY ONLY <1>3, <1>5, <2>1, <2>2
<1> QED BY <1>3, <1>4, <1>6, <1>7 DEF OneSlotEach

\* So does clearing one.
LEMMA SlotCleared ==
  ASSUME NEW S, NEW f \in [S -> Fds \cup {NoFd}],
         NEW t \in [Fds -> Clients \cup {None}], OneSlotEach(S, f, t),
         NEW j, NEW g, NEW u, ClearsSlot(S, f, t, j, g, u)
  PROVE  OneSlotEach(S, g, u) /\ UsedSlots(S, g) = UsedSlots(S, f) \ {j}
<1>1. /\ \A k \in S : g[k] = IF k = j THEN NoFd ELSE f[k]
      /\ \A h \in Fds : u[h] = IF h = f[j] THEN None ELSE t[h]
      /\ j \in UsedSlots(S, f) /\ j \in S /\ f[j] \in Fds
  BY DEF ClearsSlot, UsedSlots
<1>2. UsedSlots(S, g) = UsedSlots(S, f) \ {j} BY <1>1 DEF UsedSlots
<1>3. {h \in Fds : u[h] # None} = {h \in Fds : t[h] # None} \ {f[j]}
  BY <1>1
<1>4. \A k \in UsedSlots(S, f) : k # j => g[k] = f[k] /\ f[k] # f[j]
  BY <1>1 DEF OneSlotEach, UsedSlots
<1>5. {g[k] : k \in UsedSlots(S, g)} = {f[k] : k \in UsedSlots(S, f)} \ {f[j]}
  BY ONLY <1>2, <1>4
<1>6. \A k, l \in UsedSlots(S, g) : g[k] = g[l] => k = l
  BY <1>2, <1>4 DEF OneSlotEach
<1> QED BY <1>2, <1>3, <1>5, <1>6 DEF OneSlotEach
=============================================================================
