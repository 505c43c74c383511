----------------------------- MODULE EchoClients ----------------------------
(***************************************************************************)
(* The clients of the echo servers, as their user sees them: each line     *)
(* typed goes to the server, and each echo to the screen.                  *)
(*   select  tcp/c/echo/c_select.c, which waits for both in select();      *)
(*   chan    tcp/go/echo/c_chan.go, with a goroutine for each that hands   *)
(*           its lines to main through a channel;                          *)
(*   simple  tcp/go/echo/c_simple.go, and                                  *)
(*   std     tcp/rust/echo/src/bin/c_std.rs, by turns.                     *)
(* What is read ahead is kept in a buffer: of standard input for as long   *)
(* as the program runs, of the connection for one line in Go.              *)
(*                                                                         *)
(* Lines are numbered.  The server is external: it echoes line by line,    *)
(* and may end.  An echo is read whole; the zeros that the C servers send  *)
(* with it, and the signals that only interrupt select(), are left out.    *)
(***************************************************************************)
EXTENDS Naturals, SequencesExt

CONSTANT MaxTyped   \* bound: lines typed

VARIABLES
  lang,       (* which client                                              *)
  pipe,       (* standard input is a pipe: one read takes all there is     *)
  typed,      (* lines typed                                               *)
  closed,     (* the input has ended                                       *)
  kbd,        (* typed and not read                                        *)
  buf,        (* read, and still in the buffer of standard input           *)
  main,       (* where main is                                             *)
  ready,      (* what select() found ready, of "in" and "net"              *)
  line,       (* the line main is about to send                            *)
  cli, net,   (* the goroutines of c_chan.go, with the line they hold      *)
  sent,       (* lines sent to the server                                  *)
  up, down,   (* on the way to the server, and back                        *)
  server,     (* "up", "gone", or "reset": it has refused a line           *)
  shown,      (* echoes shown                                              *)
  dropped     (* echoes thrown away with a buffer                          *)

inVars == <<typed, closed, kbd, buf>>
netVars == <<sent, up, down, server>>
goVars == <<cli, net>>
evars == <<lang, pipe, inVars, main, ready, line, goVars, netVars, shown, dropped>>

Ids == 1..MaxTyped
Holding == [at : {"read", "offer", "closed"}, line : 0..MaxTyped]

TypeOK ==
  /\ lang \in {"select", "chan", "simple", "std"} /\ pipe \in BOOLEAN
  /\ typed \in 0..MaxTyped /\ closed \in BOOLEAN /\ line \in 0..MaxTyped
  /\ kbd \in Seq(Ids) /\ buf \in Seq(Ids) /\ sent \in Seq(Ids)
  /\ up \in Seq(Ids) /\ down \in Seq(Ids) /\ shown \in Seq(Ids) /\ dropped \subseteq Ids
  /\ main \in {"wait", "stdin", "write", "net", "done"}
  /\ ready \subseteq {"in", "net"}
  /\ cli \in Holding /\ net \in Holding
  /\ server \in {"up", "gone", "reset"}

Nothing == [at |-> "read", line |-> 0]

\* c_select.c and c_chan.go begin by waiting, the others by reading a line.
EInit ==
  /\ lang \in {"select", "chan", "simple", "std"} /\ pipe \in BOOLEAN
  /\ typed = 0 /\ closed = FALSE /\ kbd = <<>> /\ buf = <<>>
  /\ main = IF lang \in {"select", "chan"} THEN "wait" ELSE "stdin"
  /\ ready = {} /\ line = 0 /\ cli = Nothing /\ net = Nothing
  /\ sent = <<>> /\ up = <<>> /\ down = <<>> /\ server = "up"
  /\ shown = <<>> /\ dropped = {}

-----------------------------------------------------------------------------
(* The user and the server *)

Type ==
  /\ ~closed /\ typed < MaxTyped /\ typed' = typed + 1
  /\ kbd' = Append(kbd, typed + 1)
  /\ UNCHANGED <<lang, pipe, closed, buf, main, ready, line, goVars, netVars, shown, dropped>>

CloseInput ==
  /\ ~closed /\ closed' = TRUE
  /\ UNCHANGED <<lang, pipe, typed, kbd, buf, main, ready, line, goVars, netVars, shown, dropped>>

Serve ==
  /\ server = "up" /\ up # <<>>
  /\ up' = Tail(up) /\ down' = Append(down, Head(up))
  /\ UNCHANGED <<lang, pipe, inVars, main, ready, line, goVars, sent, server, shown, dropped>>

ServerEnds ==
  /\ server = "up" /\ server' = "gone" /\ up' = <<>>
  /\ UNCHANGED <<lang, pipe, inVars, main, ready, line, goVars, sent, down, shown, dropped>>

-----------------------------------------------------------------------------
(* Reading and writing *)

\* What one read() of standard input takes: a line, or all that is in the pipe.
Taken == IF pipe \/ kbd = <<>> THEN kbd ELSE <<Head(kbd)>>

\* Variant: every line is read with a new buffer, as on the connection in Go.
FreshLine(got) ==
  /\ kbd # <<>> /\ got = Head(kbd)
  /\ kbd' = SubSeq(kbd, Len(Taken) + 1, Len(kbd)) /\ buf' = <<>>
  /\ UNCHANGED <<typed, closed>>

\* fgets(), ReadString() and read_line(): only an empty buffer is filled.
NextLine(got) ==
  /\ LET from == IF buf # <<>> THEN buf ELSE Taken
     IN  /\ from # <<>> /\ got = Head(from) /\ buf' = Tail(from)
         /\ kbd' = IF buf # <<>> THEN kbd ELSE SubSeq(kbd, Len(Taken) + 1, Len(kbd))
  /\ UNCHANGED <<typed, closed>>

NoLine == buf = <<>> /\ kbd = <<>> /\ closed

\* A line for a server that has gone is answered by a reset; after that, writing
\* fails.
Write(l) ==
  /\ server # "reset"
  /\ sent' = Append(sent, l)
  /\ IF server = "up" THEN up' = Append(up, l) /\ UNCHANGED server
                      ELSE server' = "reset" /\ UNCHANGED up
  /\ UNCHANGED down

\* What has arrived is still read after the server has gone.
EndOfNet == down = <<>> /\ server # "up"

-----------------------------------------------------------------------------
(* main *)

Goto(where) == main' = where

Finish == Goto("done") /\ ready' = {}

\* c_select.c: a line in the buffer is not seen by select().
Select ==
  /\ lang = "select" /\ main = "wait"
  /\ LET found == (IF kbd # <<>> \/ closed THEN {"in"} ELSE {})
                    \cup (IF down # <<>> \/ EndOfNet THEN {"net"} ELSE {})
     IN  /\ found # {} /\ ready' = found
         /\ Goto(IF "in" \in found THEN "stdin" ELSE "net")
  /\ UNCHANGED <<lang, pipe, inVars, line, goVars, netVars, shown, dropped>>

ReadLine ==
  /\ lang # "chan" /\ main = "stdin"
  /\ \/ \E l \in Ids : NextLine(l) /\ line' = l /\ Goto("write") /\ UNCHANGED ready
     \/ NoLine /\ Finish /\ UNCHANGED <<inVars, line>>
  /\ UNCHANGED <<lang, pipe, goVars, netVars, shown, dropped>>

\* An error ends each of them: by SIGPIPE, return or panic.
WriteLine ==
  /\ main = "write" /\ line' = 0
  /\ \/ /\ Write(line)
        /\ Goto(CASE lang = "select" -> IF "net" \in ready THEN "net" ELSE "wait"
                  [] lang = "chan" -> "wait"
                  [] OTHER -> "net")
        /\ UNCHANGED ready
     \/ server = "reset" /\ Finish /\ UNCHANGED netVars
  /\ UNCHANGED <<lang, pipe, inVars, goVars, shown, dropped>>

\* c_select.c shows what it reads.  c_simple.go makes a reader for each line;
\* c_std.rs keeps its reader, and takes the end of the stream for a line.
ReadNet ==
  /\ lang # "chan" /\ main = "net"
  /\ \/ /\ down # <<>> /\ shown' = Append(shown, Head(down))
        /\ down' = IF lang = "simple" THEN <<>> ELSE Tail(down)
        /\ dropped' = IF lang = "simple" THEN dropped \cup ToSet(Tail(down)) ELSE dropped
        /\ Goto(IF lang = "select" THEN "wait" ELSE "stdin") /\ ready' = {}
     \/ /\ EndOfNet /\ UNCHANGED <<down, shown, dropped>>
        /\ IF lang = "std" /\ server = "gone" THEN Goto("stdin") /\ UNCHANGED ready ELSE Finish
  /\ UNCHANGED <<lang, pipe, inVars, line, goVars, sent, up, server>>

\* c_chan.go: main takes from either channel whatever is offered.
FromCli ==
  /\ lang = "chan" /\ main = "wait"
  /\ \/ cli.at = "offer" /\ line' = cli.line /\ cli' = Nothing /\ Goto("write") /\ UNCHANGED ready
     \/ cli.at = "closed" /\ Finish /\ UNCHANGED <<line, cli>>
  /\ UNCHANGED <<lang, pipe, inVars, net, netVars, shown, dropped>>

FromNet ==
  /\ lang = "chan" /\ main = "wait"
  /\ \/ net.at = "offer" /\ shown' = Append(shown, net.line) /\ net' = Nothing
        /\ UNCHANGED <<main, ready>>
     \/ net.at = "closed" /\ Finish /\ UNCHANGED <<shown, net>>
  /\ UNCHANGED <<lang, pipe, inVars, line, cli, netVars, dropped>>

HandleCli ==
  /\ lang = "chan" /\ main # "done" /\ cli.at = "read"
  /\ \/ \E l \in Ids : NextLine(l) /\ cli' = [at |-> "offer", line |-> l]
     \/ NoLine /\ cli' = [cli EXCEPT !.at = "closed"] /\ UNCHANGED inVars
  /\ UNCHANGED <<lang, pipe, main, ready, line, net, netVars, shown, dropped>>

\* The new reader takes all that has arrived, and only its first line is kept.
HandleNet ==
  /\ lang = "chan" /\ main # "done" /\ net.at = "read"
  /\ \/ /\ down # <<>> /\ net' = [at |-> "offer", line |-> Head(down)]
        /\ down' = <<>> /\ dropped' = dropped \cup ToSet(Tail(down))
     \/ EndOfNet /\ net' = [net EXCEPT !.at = "closed"] /\ UNCHANGED <<down, dropped>>
  /\ UNCHANGED <<lang, pipe, inVars, main, ready, line, cli, sent, up, server, shown>>

-----------------------------------------------------------------------------
Main == Select \/ ReadLine \/ WriteLine \/ ReadNet \/ FromCli \/ FromNet

ENext ==
  Main \/ HandleCli \/ HandleNet \/ Type \/ CloseInput \/ Serve \/ ServerEnds

\* Go's select takes each channel in the end.  The user need not type, and the
\* server echoes for as long as it is there.
EFairness ==
  /\ WF_evars(Main) /\ SF_evars(FromCli) /\ SF_evars(FromNet)
  /\ WF_evars(HandleCli) /\ WF_evars(HandleNet) /\ WF_evars(Serve)

ESpec == EInit /\ [][ENext]_evars /\ EFairness

-----------------------------------------------------------------------------
(* Properties *)

InHand(g) == IF g.at = "offer" THEN {g.line} ELSE {}

\* Lines are sent in the order they were typed and echoes shown in that order,
\* none twice, and by turns the right one; what has been echoed is shown, or on
\* its way, or was thrown away by c_chan.go with a reader, which happens to no
\* other client although c_simple.go has the same readers.
InOrder ==
  /\ TypeOK
  /\ sent = [i \in 1..Len(sent) |-> i]
  /\ \A i, j \in 1..Len(shown) : i < j => shown[i] < shown[j]
  /\ dropped # {} => lang = "chan"
  /\ \/ server # "up"
     \/ ToSet(shown) \cup dropped \cup InHand(net) \cup ToSet(down) \cup ToSet(up) = ToSet(sent)
  /\ lang \in {"simple", "std"} => Len(sent) - Len(shown) \in {0, 1} \/ server # "up"

\* Each line that is typed is sent or the client ends; but c_select.c may keep
\* those that came in one piece until the input has more or ends.
LinesGoOut ==
  /\ []InOrder
  /\ \A l \in Ids :
       typed >= l ~> \/ Len(sent) >= l \/ main = "done"
                     \/ lang = "select" /\ pipe /\ ~closed /\ l \in ToSet(buf)
=============================================================================
