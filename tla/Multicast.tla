----------------------------- MODULE Multicast ------------------------------
(***************************************************************************)
(* The multicast tools, written four times: multicast/c/mcast4.c and       *)
(* mcast6.c (kind "c": their loops are the same), multicast/go/mcast4.go   *)
(* and multicast/rust/mcast.  Any client may send to any server.  UDP      *)
(* loses, duplicates and reorders datagrams.                               *)
(*                                                                         *)
(* A buffer is a row of cells, each filled by a datagram or with NUL; only *)
(* where a text ends matters.  Datagrams fit into the buffers, all tools   *)
(* use one port, and servers print text (not a dump).                      *)
(***************************************************************************)
EXTENDS Integers, FiniteSets, SequencesExt

CONSTANTS
  McastClients, Servers,
  Setups,      (* the combinations of command lines that are looked at     *)
  TextLen,     (* length of each client's message with its number          *)
  BUFFER,      (* length of a server's buffer: 256, in Go 1500             *)
  FAULTS,      (* 5: how many faults a loop of kind "c" goes through       *)
  Other,       (* a program of another kind, which sends empty datagrams   *)
  NUL, Junk,   (* cells without text; uninitialised cells                  *)
  MaxPackets,  (* bound: packets of a client                               *)
  MaxEnters,   (* bound: lines typed at a client                           *)
  MaxDups, MaxEmpty  (* bounds: duplicates, and empty datagrams            *)

McastProcs == McastClients \cup Servers
Packets == [from : McastClients, num : 0..MaxPackets]
Empty == [from |-> Other, num |-> 0]

ASSUME McastAssumption ==
  /\ McastClients \cap Servers = {} /\ Other \notin McastClients
  /\ NUL \notin Packets /\ Junk \notin Packets /\ NUL # Junk
  /\ BUFFER \in Nat /\ FAULTS \in Nat \ {0}
  /\ {MaxPackets, MaxEnters, MaxDups, MaxEmpty} \subseteq Nat
  /\ TextLen \in [McastClients -> 1..(BUFFER - 2)]
  /\ \A s \in Setups : \A p \in McastProcs :
       s[p].kind \in {"c", "go", "rust"} /\ {s[p].loop, s[p].join, s[p].cont} \subseteq BOOLEAN

VARIABLES
  setup,    (* kind, group, host and options of each process               *)
  phase,    (* where each process is                                       *)
  cnt,      (* cnt of each client                                          *)
  out,      (* numbers each client has sent                                *)
  faults,   (* faults of each process                                      *)
  typed,    (* lines in a client's stdin that it has not read              *)
  enters,   (* lines typed at each client so far                           *)
  eof,      (* clients whose stdin has ended                               *)
  nop,      (* Rust clients whose variable nop is not empty                *)
  net,      (* datagrams on their way                                      *)
  buffer,   (* the buffer of each server                                   *)
  shown,    (* what a server printed last: the datagram, and whose text    *)
  dups, empties

stdinVars == <<typed, enters, eof, nop>>
clientVars == <<cnt, out, stdinVars>>
boundVars == <<dups, empties>>
mcastVars == <<setup, phase, clientVars, faults, net, buffer, shown, boundVars>>

Nothing == [of |-> Empty, text |-> {}]

McastTypeOK ==
  /\ setup \in Setups
  /\ phase \in [McastProcs -> {"start", "send", "wait", "run", "done"}]
  /\ cnt \in [McastClients -> 0..MaxPackets] /\ out \in [McastClients -> SUBSET (0..MaxPackets)]
  /\ faults \in [McastProcs -> 0..FAULTS]
  /\ typed \in [McastClients -> 0..MaxEnters] /\ enters \in [McastClients -> 0..MaxEnters]
  /\ eof \subseteq McastClients /\ nop \subseteq McastClients
  /\ net \subseteq [to : Servers, what : Packets \cup {Empty}]
  /\ buffer \in [Servers -> [1..BUFFER -> Packets \cup {NUL, Junk}]]
  /\ shown \in [Servers -> [of : Packets \cup {Empty}, text : SUBSET (Packets \cup {Junk})]]
  /\ dups \in 0..MaxDups /\ empties \in 0..MaxEmpty

Kind(p) == setup[p].kind

\* The buffer of a C server is on its stack.
McastInit ==
  /\ setup \in Setups
  /\ phase = [p \in McastProcs |-> "start"]
  /\ cnt = [c \in McastClients |-> 0]
  /\ out = [c \in McastClients |-> {}]
  /\ faults = [p \in McastProcs |-> 0]
  /\ typed = cnt /\ enters = cnt /\ eof = {} /\ nop = {}
  /\ net = {} /\ dups = 0 /\ empties = 0
  /\ buffer = [s \in Servers |-> [k \in 1..BUFFER |-> IF Kind(s) = "c" THEN Junk ELSE NUL]]
  /\ shown = [s \in Servers |-> Nothing]

McastGoto(p, to) == phase' = [phase EXCEPT ![p] = to]

-----------------------------------------------------------------------------
(* Sockets *)

\* The groups a host is a member of: through its servers and clients with join.
Joined(host) ==
  {setup[p].group : p \in {q \in McastProcs : /\ setup[q].host = host
                                              /\ phase[q] \notin {"start", "done"}
                                              /\ q \in Servers \/ setup[q].join}}

\* C and Rust bind to the address of the group; Go's ListenPacket() binds to
\* the wildcard address and gets whatever the host is a member of.
Receivers(c) ==
  {s \in Servers :
     /\ phase[s] = "run"
     /\ setup[s].host # setup[c].host \/ setup[c].loop
     /\ setup[c].group \in Joined(setup[s].host)
     /\ Kind(s) = "go" \/ setup[s].group = setup[c].group}

\* Creating, configuring and binding the socket works, or the process ends.
Begin(p, first) ==
  /\ phase[p] = "start"
  /\ \E to \in {"done", IF p \in Servers THEN "run" ELSE first} : McastGoto(p, to)
  /\ UNCHANGED <<setup, clientVars, faults, net, buffer, shown, boundVars>>

\* A C client sends first and then waits, the others wait first.
CStart(p) == Kind(p) = "c" /\ Begin(p, "send")
GoStart(p) == Kind(p) = "go" /\ Begin(p, "wait")
RustStart(p) == Kind(p) = "rust" /\ Begin(p, "wait")

\* A program that is none of ours sends to the server's group.
SendEmpty(s) ==
  /\ empties < MaxEmpty /\ phase[s] = "run"
  /\ empties' = empties + 1
  /\ net' = net \cup {[to |-> s, what |-> Empty]}
  /\ UNCHANGED <<setup, phase, clientVars, faults, buffer, shown, dups>>

-----------------------------------------------------------------------------
(* The clients *)

\* while (faults < 5)
Tired(n) == n >= FAULTS

\* The user, or the file stdin comes from.
Type(c) ==
  /\ ~setup[c].cont /\ c \notin eof
  /\ \/ /\ enters[c] < MaxEnters
        /\ enters' = [enters EXCEPT ![c] = @ + 1]
        /\ typed' = [typed EXCEPT ![c] = @ + 1]
        /\ UNCHANGED eof
     \/ eof' = eof \cup {c} /\ UNCHANGED <<enters, typed>>
  /\ UNCHANGED <<setup, phase, cnt, out, nop, faults, net, buffer, shown, boundVars>>

\* The client sleeps, or reads a line.
Line(c) ==
  \/ setup[c].cont /\ UNCHANGED typed
  \/ ~setup[c].cont /\ typed[c] > 0 /\ typed' = [typed EXCEPT ![c] = @ - 1]

AtEof(c) == ~setup[c].cont /\ typed[c] = 0 /\ c \in eof

\* sendto() reaches some of the receivers.
SendTo(c) ==
  /\ \E reached \in SUBSET Receivers(c) :
       net' = net \cup {[to |-> s, what |-> [from |-> c, num |-> cnt[c]]] : s \in reached}
  /\ out' = [out EXCEPT ![c] = @ \cup {cnt[c]}]

\* Variant: an error of sendto() is only reported.
CSendUncounted(c) ==
  /\ Kind(c) = "c" /\ phase[c] = "send" /\ cnt[c] < MaxPackets
  /\ cnt' = [cnt EXCEPT ![c] = @ + 1]
  /\ SendTo(c) \/ UNCHANGED <<net, out>>
  /\ McastGoto(c, "wait")
  /\ UNCHANGED <<setup, stdinVars, faults, buffer, shown, boundVars>>

\* A packet that could not be sent is a fault, and its number is used up.
CSend(c) ==
  /\ Kind(c) = "c" /\ phase[c] = "send" /\ cnt[c] < MaxPackets
  /\ cnt' = [cnt EXCEPT ![c] = @ + 1]
  /\ \/ SendTo(c) /\ UNCHANGED faults
     \/ faults' = [faults EXCEPT ![c] = @ + 1] /\ UNCHANGED <<net, out>>
  /\ McastGoto(c, "wait")
  /\ UNCHANGED <<setup, stdinVars, buffer, shown, boundVars>>

\* getchar(): its result is not looked at, so that at the end of stdin the
\* client goes on without waiting.
CWait(c) ==
  /\ Kind(c) = "c" /\ phase[c] = "wait"
  /\ Line(c) \/ (AtEof(c) /\ UNCHANGED typed)
  /\ McastGoto(c, IF Tired(faults[c]) THEN "done" ELSE "send")
  /\ UNCHANGED <<setup, cnt, out, enters, eof, nop, faults, net, buffer, shown, boundVars>>

\* Go and Rust: the first error ends the client.
McastSend(c) ==
  /\ Kind(c) # "c" /\ phase[c] = "send" /\ cnt[c] < MaxPackets
  /\ \/ /\ SendTo(c)
        /\ cnt' = [cnt EXCEPT ![c] = @ + 1]
        /\ McastGoto(c, "wait")
     \/ /\ McastGoto(c, "done")
        /\ UNCHANGED <<cnt, out, net>>
  /\ UNCHANGED <<setup, stdinVars, faults, buffer, shown, boundVars>>

GoWait(c) ==
  /\ Kind(c) = "go" /\ phase[c] = "wait"
  /\ \/ Line(c) /\ McastGoto(c, "send")
     \/ AtEof(c) /\ McastGoto(c, "done") /\ UNCHANGED typed
  /\ UNCHANGED <<setup, cnt, out, enters, eof, nop, faults, net, buffer, shown, boundVars>>

\* read_line() appends to nop, which nobody clears: only a client that has not
\* read a line before sees the end of stdin.
RustWait(c) ==
  /\ Kind(c) = "rust" /\ phase[c] = "wait"
  /\ \/ /\ Line(c) /\ McastGoto(c, "send")
        /\ nop' = IF setup[c].cont THEN nop ELSE nop \cup {c}
     \/ /\ AtEof(c) /\ UNCHANGED <<typed, nop>>
        /\ McastGoto(c, IF c \in nop THEN "send" ELSE "done")
  /\ UNCHANGED <<setup, cnt, out, enters, eof, faults, net, buffer, shown, boundVars>>

McastClient(c) == CSend(c) \/ CWait(c) \/ McastSend(c) \/ GoWait(c) \/ RustWait(c)

-----------------------------------------------------------------------------
(* The servers *)

\* The bytes of a datagram: clients of kind "c" also send the NUL.
Bytes(what) ==
  IF what = Empty THEN <<>>
  ELSE [k \in 1..TextLen[what.from] |-> what] \o (IF Kind(what.from) = "c" THEN <<NUL>> ELSE <<>>)

\* A read fills the beginning of the buffer and leaves the rest as it is.
Filled(s, what) ==
  [k \in 1..BUFFER |-> IF k <= Len(Bytes(what)) THEN Bytes(what)[k] ELSE buffer[s][k]]

\* A copy of the datagram may follow.
Take(d) ==
  \/ net' = net \ {d} /\ UNCHANGED dups
  \/ dups < MaxDups /\ dups' = dups + 1 /\ UNCHANGED net

Text(cells) == {cells[k] : k \in DOMAIN cells} \ {NUL}

\* %s prints up to the first NUL.
CText(cells) ==
  Text([k \in {l \in DOMAIN cells : \A m \in 1..l : cells[m] # NUL} |-> cells[k]])

\* Variant: the text is not terminated after what was read.
NoTerminator(cells, len) == cells

Terminated(cells, len) == [cells EXCEPT ![len + 1] = NUL]

\* An empty datagram is a fault.
CReceive(s) ==
  \E d \in {e \in net : e.to = s} :
    LET cells == Terminated(Filled(s, d.what), Len(Bytes(d.what)))
    IN /\ Kind(s) = "c" /\ phase[s] = "run"
       /\ Take(d)
       /\ buffer' = [buffer EXCEPT ![s] = cells]
       /\ IF d.what = Empty
            THEN /\ faults' = [faults EXCEPT ![s] = @ + 1]
                 /\ McastGoto(s, IF Tired(faults[s] + 1) THEN "done" ELSE "run")
                 /\ UNCHANGED shown
            ELSE /\ shown' = [shown EXCEPT ![s] = [of |-> d.what, text |-> CText(cells)]]
                 /\ UNCHANGED <<phase, faults>>
       /\ UNCHANGED <<setup, clientVars, empties>>

\* select() is interrupted: a fault, too.
CInterrupted(s) ==
  /\ Kind(s) = "c" /\ phase[s] = "run"
  /\ faults' = [faults EXCEPT ![s] = @ + 1]
  /\ McastGoto(s, IF Tired(faults[s] + 1) THEN "done" ELSE "run")
  /\ UNCHANGED <<setup, clientVars, net, buffer, shown, boundVars>>

\* cm.Dst.Equal(maddr.IP)
MyGroup(s, what) == what = Empty \/ setup[what.from].group = setup[s].group

\* The whole buffer is printed, whatever the size of the datagram.
GoReceive(s) ==
  \E d \in {e \in net : e.to = s} :
    LET cells == Filled(s, d.what)
    IN /\ Kind(s) = "go" /\ phase[s] = "run"
       /\ Take(d)
       /\ buffer' = [buffer EXCEPT ![s] = cells]
       /\ shown' = IF MyGroup(s, d.what)
                     THEN [shown EXCEPT ![s] = [of |-> d.what, text |-> Text(cells)]]
                     ELSE shown
       /\ UNCHANGED <<setup, phase, clientVars, faults, empties>>

Zeroed(cells) == [k \in DOMAIN cells |-> NUL]

\* The whole buffer is printed and then filled with zeros.
RustReceive(s) ==
  \E d \in {e \in net : e.to = s} :
    LET cells == Filled(s, d.what)
    IN /\ Kind(s) = "rust" /\ phase[s] = "run"
       /\ Take(d)
       /\ buffer' = [buffer EXCEPT ![s] = Zeroed(cells)]
       /\ shown' = [shown EXCEPT ![s] = [of |-> d.what, text |-> Text(cells)]]
       /\ UNCHANGED <<setup, phase, clientVars, faults, empties>>

\* An error of select() or of the read ends any server.
Fail(s) ==
  /\ phase[s] = "run"
  /\ McastGoto(s, "done")
  /\ UNCHANGED <<setup, clientVars, faults, net, buffer, shown, boundVars>>

McastServer(s) == CReceive(s) \/ CInterrupted(s) \/ GoReceive(s) \/ RustReceive(s) \/ Fail(s)

McastNext ==
  \/ \E p \in McastProcs : CStart(p) \/ GoStart(p) \/ RustStart(p)
  \/ \E c \in McastClients : Type(c) \/ McastClient(c)
  \/ \E s \in Servers : McastServer(s) \/ SendEmpty(s)

McastSpec == McastInit /\ [][McastNext]_mcastVars

-----------------------------------------------------------------------------
(* Properties *)

\* A server prints only what was sent to its own group, whatever other groups
\* the host is a member of: the text of the datagram it received, all of it, and
\* nothing that an earlier, longer one left in the buffer; the Go server, which
\* prints the whole buffer (mcast4.go:275), at least prints the text.
OwnText ==
  \A s \in Servers :
    /\ shown[s].of # Empty =>
         /\ setup[shown[s].of.from].group = setup[s].group
         /\ shown[s].of \in shown[s].text
    /\ Kind(s) # "go" => shown[s].text \subseteq {shown[s].of}

\* No packet is skipped, except that a C client leaves out the numbers of those
\* that it counted as faults; it gives up after FAULTS of them and not before.
\* And "press enter to send next packet": without --cont a client sends a packet
\* for each line (in C one more at first), and when stdin ends it does not send
\* on by itself.  Of the C and the Rust client only the former is true.  Always
\* the types are right.
PacketsAccounted ==
  /\ McastTypeOK
  /\ \A c \in McastClients :
       /\ out[c] \subseteq 0..(cnt[c] - 1)
       /\ cnt[c] = Cardinality(out[c]) + faults[c]
       /\ Kind(c) = "c" /\ phase[c] = "done" => faults[c] = FAULTS \/ cnt[c] = 0
       /\ ~setup[c].cont /\ (Kind(c) = "go" \/ c \notin eof) =>
            cnt[c] + typed[c] <= enters[c] + (IF Kind(c) = "c" THEN 1 ELSE 0)
=============================================================================
