-------------------------------- MODULE Relay -------------------------------
(***************************************************************************)
(* The programs that carry messages between two descriptors, A and B:      *)
(*   tunnel   tun-tap/tunnel.c: a tun or tap interface and a UDP socket;   *)
(*   minicom  pty/minicom_tty.c: a pseudo terminal and a serial port;      *)
(*   pty      pty/open_pty.c: a pseudo terminal, whose output is shown,    *)
(*            and standard input.                                          *)
(* The tunnel serves both in a turn of its loop and writes as many bytes   *)
(* as it has read; the others serve A if they can, else B, and write what  *)
(* strlen() finds in a buffer that they clear afterwards.                  *)
(*                                                                         *)
(* A message is what one read() returns; of its bytes only matters whether *)
(* there is a zero among them ("zero") or no room for one in the buffer    *)
(* ("full").  Messages are numbered modulo three and come without an end.  *)
(* A write() to a terminal sleeps while nobody reads the far end and its   *)
(* buffer is full, and the loop with it; to a tun interface or a UDP       *)
(* socket it does not.  What a program prints is taken to be read.         *)
(***************************************************************************)
EXTENDS Naturals, Sequences

CONSTANTS RoomA, RoomB   \* bounds: messages waiting on a side

Sides == {"A", "B"}
Room == [A |-> RoomA, B |-> RoomB]
Message == [id : 0..2, what : {"text", "zero", "full"}]

VARIABLES
  via,        (* which program                                             *)
  waiting,    (* messages that can be read on each side                    *)
  fresh,      (* the number of the next message of each side               *)
  ended,      (* standard input has ended                                  *)
  place,      (* where the program is                                      *)
  set,        (* the sides select() has found ready                        *)
  dirty,      (* there are other bytes than zero in the buffer             *)
  first,      (* no turn has ended yet                                     *)
  passed,     (* the last message passed on from each side, and if it was  *)
              (* changed on the way: a text, or one of unclear length      *)
  jammed      (* the sides whose messages find no room where they go       *)

rvars == <<via, waiting, fresh, ended, place, set, dirty, first, passed, jammed>>

TypeOK ==
  /\ via \in {"tunnel", "minicom", "pty"} /\ ended \in BOOLEAN
  /\ waiting \in [Sides -> Seq(Message)] /\ fresh \in [Sides -> 0..2]
  /\ place \in {"wait", "A", "B", "gone"} /\ set \subseteq Sides
  /\ dirty \in BOOLEAN /\ first \in BOOLEAN /\ jammed \subseteq Sides
  /\ passed \in [Sides -> [id : 0..2, changed : {"no", "unclear", "text"}]]

\* The buffer is not initialised.
RInit ==
  /\ via \in {"tunnel", "minicom", "pty"}
  /\ waiting = [s \in Sides |-> <<>>] /\ fresh = [s \in Sides |-> 0] /\ ended = FALSE
  /\ place = "wait" /\ set = {} /\ dirty \in BOOLEAN /\ first = TRUE
  /\ jammed = {}
  /\ passed = [s \in Sides |-> [id |-> 2, changed |-> "no"]]

-----------------------------------------------------------------------------
(* The two sides *)

Arrive(s) ==
  /\ Len(waiting[s]) < Room[s] /\ ~(s = "B" /\ ended)
  /\ \E what \in {"text", "zero", "full"} :
       waiting' = [waiting EXCEPT ![s] = Append(@, [id |-> fresh[s], what |-> what])]
  /\ fresh' = [fresh EXCEPT ![s] = (@ + 1) % 3]
  /\ UNCHANGED <<via, ended, place, set, dirty, first, passed, jammed>>

CloseInput ==
  /\ via = "pty" /\ ~ended /\ ended' = TRUE
  /\ UNCHANGED <<via, waiting, fresh, place, set, dirty, first, passed, jammed>>

\* Somebody reads what was written of the messages of s.
Drain(s) ==
  /\ s \in jammed /\ jammed' = jammed \ {s}
  /\ UNCHANGED <<via, waiting, fresh, ended, place, set, dirty, first, passed>>

-----------------------------------------------------------------------------
(* The program *)

Readable == {s \in Sides : waiting[s] # <<>> \/ (s = "B" /\ ended)}

\* The tunnel looks at both, the others at one.
Select ==
  /\ place = "wait" /\ Readable # {}
  /\ set' = IF via = "tunnel" \/ "A" \notin Readable THEN Readable ELSE {"A"}
  /\ place' = IF "A" \in Readable THEN "A" ELSE "B"
  /\ UNCHANGED <<via, waiting, fresh, ended, dirty, first, passed, jammed>>

\* What strlen() makes of a message: where no zero follows it, any bytes may.
Written(m) ==
  IF via = "tunnel" THEN {"exact"}
  ELSE CASE m.what = "zero" -> {"less"}
         [] m.what = "full" -> {"exact", "more"}
         [] m.what = "text" -> IF dirty THEN {"exact", "more"} ELSE {"exact"}

\* Variant: the buffer is not cleared after a message from B.
ClearAfterA(s) == dirty' = (dirty \/ s = "B") /\ first' = FALSE

\* bzero() at the end of a turn; the tunnel needs none.
Clear(s) == dirty' = (via = "tunnel") /\ first' = FALSE

\* The sides whose messages are written to a terminal (open_pty.c prints those of A).
ToTerminal == CASE via = "tunnel" -> {} [] via = "minicom" -> Sides [] via = "pty" -> {"B"}

\* read() and write(), which sleeps, the message in its hand, until there is room; it
\* may be the last one for which there was.
Carry(s) ==
  /\ place = s /\ waiting[s] # <<>> /\ s \notin jammed
  /\ LET m == Head(waiting[s])
     IN  \E how \in Written(m) :
           passed' = [passed EXCEPT ![s] =
             [id |-> m.id, changed |-> IF how = "exact" THEN "no"
                                       ELSE IF m.what = "text" /\ ~first THEN "text"
                                       ELSE "unclear"]]
  /\ waiting' = [waiting EXCEPT ![s] = Tail(@)]
  /\ place' = IF s = "A" /\ "B" \in set THEN "B" ELSE "wait"
  /\ set' = set \ {s} /\ Clear(s)
  /\ \E full \in SUBSET ({s} \cap ToTerminal) : jammed' = jammed \cup full
  /\ UNCHANGED <<via, fresh, ended>>

\* read() returns 0 at the end of standard input, again and again: nothing but
\* what was in the buffer at first is written.
CarryNothing ==
  /\ place = "B" /\ waiting["B"] = <<>>
  /\ place' = "wait" /\ set' = {} /\ Clear("B")
  /\ UNCHANGED <<via, waiting, fresh, ended, passed, jammed>>

\* A call that fails ends the program.
Fail ==
  /\ place \in Sides /\ place' = "gone" /\ set' = {}
  /\ UNCHANGED <<via, waiting, fresh, ended, dirty, first, passed, jammed>>

-----------------------------------------------------------------------------
Loop == Select \/ (\E s \in Sides : Carry(s)) \/ CarryNothing

RNext == Loop \/ Fail \/ CloseInput \/ \E s \in Sides : Arrive(s) \/ Drain(s)

\* The program runs when no write() sleeps; nothing has to arrive or to be read at
\* the far end, and no call has to fail.
RFairness == WF_rvars(Loop)

RSpec == RInit /\ [][RNext]_rvars /\ RFairness

-----------------------------------------------------------------------------
(* Properties *)

\* No message is lost, repeated or overtaken by a later one of its side; the
\* tunnel changes none, and the others none that leaves a zero at its end in
\* the buffer, but perhaps the first.  Always the types are right.
Carried ==
  /\ TypeOK
  /\ \A s \in Sides :
       /\ \A i \in 1..Len(waiting[s]) : waiting[s][i].id = (passed[s].id + i) % 3
       /\ fresh[s] = (passed[s].id + Len(waiting[s]) + 1) % 3
       /\ passed[s].changed # "text"
       /\ via = "tunnel" => passed[s].changed = "no"

\* What waits on a side is carried again and again, until there is nothing more.
Served(s) ==
  []<><<Carry(s)>>_rvars \/ []<>(waiting[s] = <<>> \/ place = "gone")

\* The program sleeps in write().
Asleep == \E s \in Sides : place = s /\ waiting[s] # <<>> /\ s \in jammed

\* Unless it sleeps in a write() for ever, because the far end is no longer read,
\* each message of A is carried although the other side may have always more; in the
\* tunnel, which never sleeps so, this also holds for B, while the others may keep B
\* waiting for as long as A has something.
BothCarried ==
  /\ []Carried
  /\ \/ <>[]Asleep
     \/ /\ Served("A")
        /\ via = "tunnel" \/ <>[](waiting["A"] = <<>>) => Served("B")
=============================================================================
