# sys-snippets: a TLA+ model of the programs that can go wrong

The repository is a collection of small system programs: servers, clients,
signal and thread experiments, DRM programs, GStreamer elements.  There is no
single system; there are about forty programs, some of which talk to each other
(a server with its clients) and most of which live alone.  This directory models
those whose correctness depends on an *order of events* - interleavings,
signals, readiness, partial failures, crashes and restarts - and checks them
with TLC.  Many of them - the two echo servers with an array, the servers
with a process or thread per connection, the DRM server and its clients, `exec_fd`,
`p1`/`p2`, `p4`, the mio server, wiid, the multicast tools, the single DRM programs and
the GStreamer sinks - have properties proved with TLAPS for all values of the constants
(section 5).

- [1 Inventory](#1-inventory)
- [2 Modules, and how they correspond to the code](#2-modules-and-how-they-correspond-to-the-code)
- [3 Runs: what is checked, with which bounds](#3-runs-what-is-checked-with-which-bounds)
- [4 Fairness](#4-fairness)
- [5 Proofs](#5-proofs)
- [6 Disagreements between comments and code](#6-disagreements-between-comments-and-code)
- [7 What is not modelled](#7-what-is-not-modelled)
- [8 Plan](#8-plan)

## 1 Inventory

### Parts that are modelled

**sem/exec_fd.c.** A parent and a forked child read single characters from one
shared descriptor, by turns.  State: two *named* semaphores (1 and 0), the loop
counters, the signal masks.  The child blocks SIGINT, the parent's handler
deletes the names.  Hard: signals at any instruction, and names that outlive
the processes - `sem_open` of an existing name ignores the initial value, so a
run inherits what the run before left.  Correct means: one reader at a time,
strict alternation, every run ends, nothing harmful is left behind.

**tcp/c/echo.** `c_select.c` is a client; `s_poll.c`, `s_select.c` and
`s_fork.c` are three servers for it.  The first two are one process with an
array of descriptors and *blocking* line reads: they are correct only if they
never read from a descriptor that has nothing.  Hazards: `revents` of slots that
`poll()` was not asked about, descriptor numbers used again within a round, the
countdown of ready descriptors, full arrays, resets.  `s_fork.c` has a process
per client and a SIGCHLD handler: descriptors held twice, zombies.

**The other servers with a process or thread per connection.**
`tcp/c/time/s_time_fork.c`, `inetd/inetd.c`, the Go and the Rust echo servers are
`s_fork.c` with differences: who reaps the children (nobody, in the time server and
in inetd), what a child does (echo, the time and the end, a shell), whether a thread
can end without the others, and who has the listening socket: the children of
`s_fork.c` close it, those of `s_time_fork.c` and `inetd.c`, the shell included, keep
it to their end.  Hazards: zombies, a child that goes on in the parent's code, a
server that ends under its children, a queue that outlives the server.

**The echo clients** `c_select.c`, `c_chan.go`, `c_simple.go` and `c_std.rs`, as
their user sees them.  State: lines in the buffer of standard input, lines and echoes
on their way, the goroutines of `c_chan.go` and its two channels.  Hard: `select()`
does not know of lines that `fgets()` has read ahead; `c_chan.go` makes its two
goroutines once, but the one at the connection makes a new buffered reader in each
turn, and what the last one has read ahead is gone with it.

**tcp/rust/echo s_mio_poll.rs.** An echo server on mio: edge-triggered epoll,
with a registration that is for reading or, one-shot, for writing.  State: the
map of clients with a pending message each, the registrations, the batch of
events.  Hard: lost wakeups, events for clients that are already removed, full
send buffers, text cut inside a character.

**drm-tests: display server and clients.** `drm_server.c` is DRM master; each
`drm_client_crtc.c`/`drm_client_plane.c` makes its own framebuffer and asks the
server over a local socket to authenticate it, to show the framebuffer and to
stop.  State of the server: an array of connections, an array of per-client data
that is never cleared, the saved CRTC.  State of a client: what it has acquired
of six resources.  Hard: clients that overlap, late answers (5 s), clients that
are killed, SIGPIPE, SIGINT in the middle of a round, a socket name that
survives the server.

**drm-tests: single programs.** Eight programs that draw without a server: four on
dumb buffers (`drm_dumb_bo.c`, `_libkms.c`, `_mult.c`, `_plane.c`), four with
OpenGL (`drm_gl_test1a.c`, `1b`, `2`, `3`).  Each `main()` acquires ten or more
things in a row, each with a label to go to on failure; `drm_utils.c` searches
the device for a connector, an encoder, a mode and a CRTC.  State: what is held,
what the CRTC and the plane show, the search; in `drm_gl_test3.c` also buffers
that go to the screen by page flips, and in `drm_gl_test1b.c` two framebuffers that change
places.  Hard: a failure at any call, after the screen was changed or before; flips
that complete between any two statements, fail, or come late.

**pthread/p4.cpp.** Main sends two signals to the process, and masks decide
which thread handles which.  State: masks, the map of thread numbers,
thread-specific data and the vector that main deletes them from.  Nothing but
`sleep()` orders the threads.

**pthread/p1.cpp, p2.cpp, p3.cpp.** Threads that count in two variables without a
lock; that make thread-specific data and enter them into a vector without a lock;
that find their number in a map that main is still filling, and meet at two
barriers.  Hard: what races may leave, and what they may not.

**timers/c/timerfd.c.** One thread serves a single-shot timer that it arms anew, a
periodic timer and an eventfd between the two, one descriptor a turn, in an
else-if.  Hard: expirations while the thread is late, preference without end.

**pty/fork_pty.c.** A parent writes lines to a child behind a pseudo terminal and
reads what comes back.  Both change the settings of the same terminal by reading
them, changing them and writing them back.  Hard: the order of the two, and a parent
that blocks for an answer that does not come.

**Relays**: `pty/minicom_tty.c`, `pty/open_pty.c`, `tun-tap/tunnel.c` carry
messages between two descriptors in both directions.  Hard: `strlen()` for a length,
one side that always has more, a `write()` to a terminal that nobody reads, a
`select()` that nobody checks.

**netlink_ipc** and **pipe-ipc.**  Clients that ask a server over netlink and wait
without a time-out; `pipe.c`, which reads the commands of its child `xmit` from a
pipe.  Hard: the other side may be gone at any moment.

**wiid-tests.** `wiid.c` makes two input devices of a Wii remote.  Main connects,
blinks LEDs and notices lost connections; the callbacks of libcwiid run in a thread
per connection.  `test_acc.c` reads the sensor.  State: the connection, the static
time and data of `wii_acc.c`, the keys that are down and the axes on their way to the
reader.  Hard: callbacks of two connections at once, writes that fail half-way, the
rate limit.

**multicast.** The same tool four times: `mcast4.c`, `mcast6.c`, `mcast4.go`,
`mcast/src/main.rs`, each a client that numbers its packets and a server that
prints them.  Hard: any mixture of them shares a network; datagrams are lost,
doubled and reordered; buffers keep the tail of earlier datagrams; the end of
stdin; the fault counters of the C programs.

**gst/gst-drm.** The GStreamer elements `drmsink` and `drmplanesink`: video in
two framebuffers by turns.  State: `enabled`, `saved_crtc`, buffers.  Hard: a
call sequence driven by the framework (start, set_caps, render, stop, again),
and a failure at any of a dozen DRM calls.

### How the parts interact

| interaction | by | modelled in |
|---|---|---|
| exec_fd parent - child - next run | named semaphores, a shared file offset, signals | ExecFd |
| echo clients - echo servers | TCP: accept queue, byte stream, FIN, RST | EchoNet with EchoPoll, EchoSelect, EchoFork |
| mio server - its clients | TCP and epoll's ready list | MioEcho |
| DRM server - clients | local socket, request and response; the device itself | DrmProto, DrmServer, DrmClient, composed in DrmSystem |
| a single DRM program - device, display | DRM calls, flip events | DrmConf, DrmFlip, composed in DrmLadder; DrmTwoFrames |
| p1 to p4, main - threads | masks, pending signals, unlocked containers, barriers | ThreadSignals, PthreadDemo |
| other servers - their children and threads - clients | TCP, `fork()`, SIGCHLD | EchoFork |
| echo clients - user - server | standard input with a buffer, TCP, channels | EchoClients |
| relays - the two sides | messages on two descriptors | Relay |
| timerfd - kernel | timers that run on, an eventfd | TimerFd |
| fork_pty parent - child | a terminal: its settings, two queues | ForkPty |
| netlink clients - server | netlink ports | NetlinkIpc |
| pipe.c - xmit | a pipe, the status of a child | PipeIpc |
| wiid main - callback threads - reader | static variables, uinput devices, the connection | Wiid |
| multicast clients - servers | UDP, group membership of the host | Multicast |
| GstBaseSink - sink - device | callbacks, DRM calls | GstSink |

### Parts that are not modelled

Listed in `PROJECT.json` under "components" with the reason, and in
[section 7](#7-what-is-not-modelled).

## 2 Modules, and how they correspond to the code

Every definition that stands for code has its file and lines in `PROJECT.json`
("map").  Definitions whose comment begins with "Variant" are deliberately wrong
versions of the definition next to them: they are used to show that a property
notices the error, and are in no specification.

| module | code | state | actions |
|---|---|---|---|
| `ExecFd` | sem/exec_fd.c | semaphore values, names that exist, program counters, pending signals | one per system call of the parent and the child: open, each `sem_open`, fork, mask, wait, read, post, close, unlink; delivery of SIGINT and SIGQUIT, the two steps of the handler; the environment types Ctrl-C, Ctrl-\\ and starts the program again |
| `EchoNet` | c_select.c, the kernel | both ends of each connection, half-sent lines, echoes, accept queue, descriptor table | connect, send text, send newline, read, quit, reset |
| `EchoPoll` | s_poll.c | `clients[]`, `revents`, the countdown | poll, accept, one step of the scan, one byte of `handle_echo`, the write, SIGINT |
| `EchoSelect` | s_select.c | `clients[]`, `rset` | the same for `select()` |
| `EchoService` | (abstract) | phase of each client, lines, answers | admit, refuse, answer, leave, stop |
| `EchoFork` | s_fork.c, s_time_fork.c, inetd.c, tcp/go/echo, tcp/rust/echo with threads | which server; of each process its place in the accept loop, the connection in its hand and who forked it; children or threads, pending SIGCHLD, handler | accept, fork, close of every process in the loop (the first one, and children of inetd without a shell); a child's beginning, read, write, exit; each `waitpid`; the end of any process, with what the kernel then closes |
| `EchoClients` | c_select.c, c_chan.go, c_simple.go, c_std.rs | lines typed and in the buffer, main, both goroutines, echoes | main's turns, both readers and both handlers; the user types and closes; the server answers or ends |
| `MioEcho` | s_mio_poll.rs | registrations, epoll's ready list, batch, `sockets` with `message` | poll, each accept, each readable and writable event with its whole loop |
| `DrmProto` | drm_proto.h, the kernel | sockets, framebuffers, CRTC, plane | connect, close |
| `DrmServer` | drm_server.c | slots, `drm_clients[]`, `rc`, `running` | bind, poll, accept, scan, read, every command as one step per ioctl, reply, unlink, SIGINT, restart |
| `DrmClient` | drm_client_crtc.c, drm_client_plane.c | label, resources held | each acquisition with its failure, request, response, time-out, key, each label of the clean-up |
| `DrmSystem` | their composition | | |
| `DrmConf` | drm_utils.c | what is looked for, loop counter, what was found | one turn of each search loop |
| `DrmFlip` | the loop of drm_gl_test3.c | `current`, `next`, locked buffers, the flip under way, unread events | select with the handler, swap and lock, first `SetCrtc`, page flip; the vertical blank |
| `DrmTwoFrames` | the loop of drm_gl_test1b.c | the turn, the framebuffer drawn into, shown, queued; faults counted | draw, toggle and flip, the end of a flip |
| `DrmLadder` | the eight `main()` | rung or label, what is held, CRTC, plane | a call that succeeds or fails, the search, the frame loop, each label |
| `ThreadSignals` | pthread/p4.cpp | masks, pending signals, map, specific data, `gc`, deleted data | each statement of main and of the workers, delivery, handler |
| `Multicast` | mcast4.c, mcast6.c, mcast4.go, main.rs | datagrams on their way, buffers cell by cell, stdin, counters | start, wait, send, receive, faults of each kind of program |
| `GstSink` | drmsink.c, drmplanesink.c | fields of the element, buffers and framebuffers that exist, the screen | start, set_caps with setup (a failure at each call), render, stop |
| `PthreadDemo` | p1.cpp, p2.cpp, p3.cpp | which program, main, places of threads, counters with each thread's own reading, key, vector, map, mutex, barriers | creating and joining, each access to shared data, main's clean-up |
| `TimerFd` | timerfd.c | what is left of each timer, expirations, the eventfd, how late the thread is | one step of the thread for each call, a tick of the clock |
| `ForkPty` | fork_pty.c | input, settings in the terminal and as both sides know them, queues | each `tcgetattr()` and `tcsetattr()`, write, read, command of the parent; read and write of the child |
| `Relay` | open_pty.c, minicom_tty.c, tunnel.c | messages on both sides, what is left in the buffer, sides whose writes find no room | a message comes, `select()`, a message is carried once there is room, the far end is read |
| `NetlinkIpc` | netlink_ipc | server, requests queued, clients, replies | start, request, receive, reply or failure, stop |
| `PipeIpc` | pipe-ipc | reader, writer, ends of the pipe, commands, status | fork and exec, each close, write, two reads a turn, wait, signals |
| `Wiid` | wiid.c, wii_acc.c, wii_input.c, test_acc.c | main, connection, callbacks with the message each handles, keypad, sensor, static variables | connect, blink, close; one step of a callback per write; the reader; messages, losses, time |
| `SmallPrograms`, `SinglePrograms` | - | which program runs | the steps of one of the small modules (see section 3) |
| `MCEchoPoll`, `MCEchoSelect`, `MCMulticast`, `MCDrmLadder` | - | constants and symmetry for TLC | |
| `StandaloneProofs`, `SmallProgramsProofs`, `SingleProgramsProofs`, `EchoNetProofs`, `EchoPollProofs`, `EchoSelectProofs`, `EchoForkProofs`, `DrmSystemProofs` | - | invariants and proofs (section 5) | |

Choices that are not obvious from the code:

- **Lines, messages, pixels** are abstract.  A TCP line is "some text" and "the
  newline", since blocking in between is what matters.  A character of the mio
  server may arrive in two halves, since `read_to_string` depends on it.  A UDP
  buffer is a row of cells with the datagram each cell was filled by, since the
  only question is whose text is printed.
- **Atomicity** is that of the system calls.  A step of a server is one call
  and the computation up to the next; the DRM server's `ioctl`s are steps of
  their own, since clients remove framebuffers between them; `push_back()` in
  `p4.cpp` is two steps.
- **Undefined values** are arbitrary: `revents` on the stack, `saved_crtc`
  before the first request ("junk"), the data a handler finds after `delete`, the
  settings that `fork_pty.c` starts from, what a race on a container leaves.
- **Time** appears as choice: a time-out may come whenever the code waits.
  For `sleep()` in `p4.cpp` the variable `timely` tells the behaviours in which
  the sleeps were long enough from the others, and both are checked.  `TimerFd` has
  a clock, since its timers run on while the thread is late; `prompt` tells there
  whether it may be.
- **The ladders are data.**  The eight single DRM programs differ in what they call
  and in where they go on failure, not in how a C program falls through its labels;
  a ladder is the sequence of its calls, each with its label, and one machine climbs
  all of them.  An id that was never set makes a call fail, a pointer that was never
  set is followed (`phase = "crash"`).
- **What a process leaves to the kernel** is computed from who holds what: in
  `EchoFork` a connection is over, and the queue gone, when the last process with the
  descriptor has closed it or ended (`Holds`, `Listens`).
- **A failing system call** is an alternative of the action, bounded by
  `MaxFaults` where it could go on for ever.

`EchoService` is the abstract specification of a single-process echo server.
`EchoPoll` and `EchoSelect` implement it under the refinement mapping at the end
of `EchoNet` (a client is *served* while some descriptor is its connection,
*waiting* while it is in the accept queue); the property is `ImplementsService`.
It says what the array, the countdown and the descriptor sets are for: a client
is turned away only if all places are taken, a line is answered once, and a
connection is given up only after its client hung up (or the server ended).  TLC
checks it on the runs, and `EchoPollProofs` and `EchoSelectProofs` prove it step by
step for all constants.

## 3 Runs: what is checked, with which bounds

Deadlock is not checked in any run, because all these programs may rightly stop:
clients leave, servers are interrupted, programs come to their end.  That nobody
waits for ever is stated by the liveness properties instead.  Each module's type
invariant `TypeOK` (`FramesTypeOK` in `DrmTwoFrames`) is checked as the first conjunct
of one property about the same variables, whose comment says so.

Programs that nothing connects and that are too small for a run of their own are
checked together: in `SmallPrograms` (mostly threads and processes) and in
`SinglePrograms` (mostly loops).  The first state says which program runs, and the
variables of the others stay as they are, so the states of the run are the sum of the
programs' states.  Each property is stated where the program is modelled; the bundle
only adds which program it is about.  `SmallPrograms` and `SinglePrograms` contain no
model of code, and each of the modules can be checked by itself.

| run | bounds | what it shows |
|---|---|---|
| `exec_fd` | 3 reads each, three consecutive runs (two restarts), 2 Ctrl-C, 1 Ctrl-\\ | `OneByOne`, `ReadsAlternate`, `LeftoverHarmless`, and `RunEnds` under fairness |
| `echo_poll` | 3 clients, 2 slots, queue of 2, 1 line each, any behaviour of clients | `SlotsReady` (the first read of a line never blocks, in spite of stale `revents`; slots and descriptors agree), `ImplementsService` |
| `echo_poll_live` | 2 clients, 2 lines, clients that finish what they began | `EveryoneAttended`: taken from the queue, every line answered, given up after leaving |
| `echo_poll_reset` | 2 clients | *violated* `OnlySigIntStops` (section 6) |
| `echo_select` | 3 clients, 2 slots | `FirstReadReady` in spite of descriptor numbers used again, `ImplementsService` |
| `echo_fork` | each of the five servers, 2 clients at a time, 2 lines, any behaviour of clients, any process may end | `NothingLeftOpen`, `ZombiesReaped` (where children are reaped at all), `LinesAnswered` |
| `mio_echo` | 2 clients, 2 pieces each, send buffer of 1 piece | `NeverUnreachable`, `EchoFaithful`, `ClosedForAReason`, `EveryoneEchoed` |
| `drm_system` | 1 slot, one CRTC and one plane client, 1 fault (late answer or kill), restart of the server | `ReadNeverBlocks`, `InfoIsOwn` (slots, connections and per-client data agree), `LeftAsFound` (the screen and the socket's name), `CleanupExact`, `ClientsEnd` |
| `multicast` | 2 clients, 1 server, 27 mixtures of C, Go and Rust, 2 packets, 1 duplicate, 1 empty datagram, 2 faults instead of 5 | `OwnText` (of their own group, too), `PacketsAccounted` (numbers, gaps, faults, the end of stdin) |
| `wiid` | 2 connections, 2 messages, 2 LEDs, 1 fault, a clock to 2 with a rate of 1, buttons with and without a key, samples with the axis Y 0 or all three, Android or not | `ClicksComplete`, `SamplesApart`, `LossNoticed` |
| `small_programs` | `p4`: 2 rounds; `p1`: 2 threads, 2 turns; `p2`, `p3`: 3 threads; `timerfd`: 2 ticks a second, late by up to 7; `fork_pty`: 3 lines of five kinds; `netlink`: 3 clients, 2 servers; `pipe`: 3 commands | `RightThread`, `SignalsCounted` (p4); `RacesBounded` (p1, p2); `BarriersHold` (p3, and all three end); `AllServed` (timerfd); `LinesComeBack` (fork_pty); `NobodyWaits` (netlink_ipc, pipe-ipc) |
| `single_programs` | `drm_dumb_bo` on 180 devices, the other seven on four; 3 buffers and 4 frames instead of 10; `drm_gl_test1b`: 8 turns instead of 50; sinks: 3 sessions, 3 failures; clients: 3 lines; relays: 2 messages waiting on side A, 1 on B | `ConfRight`, `FlipOwnership`, `CleanupSafe`, `DrawnBehind` (DRM); `SinkSafe` (sinks); `LinesGoOut` (clients); `BothCarried` (relays) |

Why the bounds are enough for what is asked:

- *Echo servers*: the questions are about a slot that is left and taken again,
  and about one client too many.  With two slots and three clients there is a
  full array, a refused client, a used-again slot and descriptor, and a slot
  behind the last one in use; all within one round.  Clients are interchangeable
  in the safety runs (symmetry), which have no liveness property.  The
  properties of `echo_poll` and `echo_select`, and `NothingLeftOpen`, are proved without
  a bound.
- *DRM*: one slot makes the second client meet the entry the first one left
  and makes a refused client; one fault is enough to kill a client at any point
  or to let any of its three answers come late.  `LeftAsFound` speaks of one
  CRTC client at a time; section 6 says what two do.  All four safety properties are
  proved for any number of slots, clients and faults.
- *DRM ladders*: the searches depend on at most two entries of each list (the right
  one and one before it, which may be unreadable); the ladders have no bound.  Four
  frames are enough for a buffer to be queued, shown, released and locked again;
  the theorems `BuffersOwned`, `FallsBackIntoStep` and `FoundFitsTogether` have none.
- *mio*: two pieces and room for one are the smallest case in which a write
  fails after a part of it, and in which a cut character arrives in two rounds.  The
  three safety properties are proved for any number of both and of clients.
- *multicast*: a long text followed by a short one is the case that leaves a
  tail in a buffer; the near client is on the server's host and may join another
  group, which is the case of a datagram for somebody else.  Both properties are
  proved for any number of programs, any lengths, and any command lines.
- *p4* and *the sinks*: two rounds and three sessions are one more than is needed to
  see what the earlier one leaves; the theorems about them have no bound.
- *p1*: two threads with two turns each lose every number of updates down to the two
  that `CountersBounded` says remain.  Three threads are needed in *p2* and *p3*: two
  that race, and a third that comes to a vector or a map they have left.
  The theorem `RacesStayBounded` has no bound.
- *timerfd*: the seconds are scaled so that the three timers end together, one by
  one, and once more while the thread is late; missed periods are capped
  (`MaxMissed`), as only whether there are any matters.
- *fork_pty*: three lines let a line that is too long, one without a newline, or a
  command follow one that was answered.
- *netlink_ipc*: one client is served, one queued, and one asks the second server.
  *pipe-ipc*: a pipe for three commands can be full while the reader has its two.
- *echo clients*: three lines are one in hand, one in the buffer and one still to be
  typed.  *Relays*: messages come without an end and are numbered modulo three, which
  tells a lost message from a repeated one.  Two that wait on side A are what it takes
  for one to be overtaken; one on side B is enough for a side that always has more.
  `RelaysCarry` has no bound.
- *wiid*: two connections are needed for a callback of the old one to meet the new;
  two messages for the rate limit and for a click that another one interrupts.  A sample
  with one axis that is 0 gives a report of two axes, one with nothing but zeros none.
  What is proved of `ClicksComplete` and `SamplesApart` has no bound.

`exec_fd` is checked with `AfterQuit = FALSE`: the program is not started again
after Ctrl-\\.  With `TRUE`, `OneByOne` fails: SIGQUIT between the two
`sem_unlink` of the handler, or in the middle of the loops, leaves a name whose
value the next run takes over - with both semaphores at 0 it waits for ever,
with both above 0 both processes read.  `LeftoverHarmless` marks the limit.

## 4 Fairness

Fairness is only assumed where a scheduler or a kernel gives it.

- A process or thread that can run does run (`WF` on its steps), and a signal
  that can be delivered is delivered.  This is all that `ExecFd`, `EchoFork`,
  `PthreadDemo`, `TimerFd`, `ForkPty`, `Relay`, `NetlinkIpc` and `PipeIpc` assume; a
  thread that waits for a mutex or a barrier cannot run.  Neither can a relay that
  sleeps in `write()`: nobody has to read the far end of a terminal or a serial port
  (`Drain` is not fair), so `Carry` need not become possible, and then the loop serves
  neither side.  `BothCarried` makes its promises but for this case (`<>[]Asleep`),
  which the tunnel does not know: a tun interface or a UDP socket drops what it has no
  room for.  The clock of `TimerFd` is not fair: when it
  stands still, nothing has to happen.
- The `select` of Go chooses among the channels that are ready at random, so in
  `EchoClients` each of the two is taken in the end if it is ready again and again
  (`SF` on `FromCli` and `FromNet`).  The echo server there answers or ends.
- In `Wiid` main and the callbacks run; nothing obliges the remote to send anything,
  and nothing has to be lost.
- Clients are *not* fair in `echo_fork`: `LinesAnswered` holds although any
  client may stop anywhere.  No process has to end there, and a shell that its client
  leaves open lives on; that is why `LinesAnswered` exempts a client of `inetd.c` that is
  queued when nobody accepts any more (`NobodyAccepts`), but not one of the time server.  In `echo_poll_live` a client that began a line has
  to finish it; this is needed, because `handle_echo` blocks in the middle of a
  line and the whole server with it.
- In `drm_system` the user presses the key in the end; in `mio_echo` a client
  that stays connected reads its echoes.
- Nobody ever has to connect, to type, to send, to press Ctrl-C, to start a server or
  to stop one.

## 5 Proofs

Eight modules of theorems are checked by TLAPS.  Each theorem is about the
specification with all its actions, and holds for every value of the constants that
the named assumptions allow.  Each inductive invariant was checked with TLC first.

| module | theorem | property |
|---|---|---|
| `StandaloneProofs` | `TypeCorrect`, `MutualExclusion`, `Alternation`, `NoBadLeftover` (ExecFd) | `TypeOK`, `OneByOne`, `ReadsAlternate`, `LeftoverHarmless` |
| | `MioNeverUnreachable`, `MioEchoFaithful`, `MioClosedForAReason`, `MioNoWakeupLost` | `NeverUnreachable`, `EchoFaithful`, `ClosedForAReason`, - |
| | `WiidClicksComplete`, `WiidSamplesApart` | `ClicksComplete`, `SamplesApart` |
| | `McastOwnText`, `McastPacketsAccounted` | `OwnText`, `PacketsAccounted` |
| `EchoPollProofs` | `NeverAsleepOnOneClient`, `PollImplementsService` | `SlotsReady`, `ImplementsService` |
| `EchoSelectProofs` | `NeverAsleepOnOneClient`, `SelectImplementsService` | `FirstReadReady`, `ImplementsService` |
| `EchoForkProofs` | `ForkLosesNone` | `NothingLeftOpen` |
| `DrmSystemProofs` | `ClientsCleanUp`, `NeverBlocked`, `WorksOnItsOwn`, `ScreenRestored` | `CleanupExact`, `ReadNeverBlocks`, `InfoIsOwn`, `LeftAsFound` |
| `SmallProgramsProofs` | `HandledInRightThread`, `CountedAsSent`, `RacesStayBounded` | `RightThread`, `SignalsCounted`, `RacesBounded` |
| | `ThreadsStayTogether`, `ShotsAreCounted`, `AnswersAreTheChilds`, `RequestsStayApart`, `CommandsStayInTurn` | the safety parts of `BarriersHold`, `AllServed`, `LinesComeBack` and (the last two) `NobodyWaits` |
| `SingleProgramsProofs` | `BuffersOwned`, `FallsBackIntoStep`, `FoundFitsTogether`, `LaddersCleanUp`, `SinksAreSafe` | `FlipOwnership`, `DrawnBehind`, `ConfRight`, `CleanupSafe`, `SinkSafe` |
| | `RelaysCarry`, `LinesStayInOrder` | the safety parts of `BothCarried` and `LinesGoOut` |

`EchoNetProofs` holds the lemmas that the three about echo servers share.
`StandaloneProofs` is about the four programs that have a run of their own and no
module in common; since it extends all four, names that several of them would use
(`Init`, `Read`, ...) begin in all but `ExecFd` with the name of the program
(`MioInit`, `MioRead`, ...).

**ExecFd**, for every `CYCLE`, every number of runs and of Ctrl-C:

- `TypeCorrect`: `Spec => []TypeOK`.
- `MutualExclusion`: `Spec => []OneByOne`, `Alternation`:
  `Spec => []ReadsAlternate`, `NoBadLeftover`: `Spec => []LeftoverHarmless`,
  each under the assumption `~AfterQuit` (see section 3 for why it is needed).

None of the three is inductive.  The invariant `IInv` adds what the code relies
on without saying so:

- `PhaseInv`: which places of parent and child occur together (there is no child
  before fork, and nothing was read before);
- `NamesInv`: when a run may open the names, a name that exists has its initial
  value.  This carries the argument from one run to the next: the handler
  deletes both names before the parent is gone, and the places where a name is
  left behind (a failed `sem_open` or `fork`) leave it unused;
- `TurnInv`: there is one turn - either one of the semaphores is 1 or one
  process is between wait and post;
- `OrderInv`: where the turn is tells how many characters each has read.

**MioEcho**, for every number of clients, of pieces each may send, and size of a send
buffer (`MioAssumption`).  The invariant `MioIInv` has four parts.

- `EventInv`: the event of a client in a batch is the one its present registration asked
  for.  A one-shot registration is off exactly as long as its event is in the batch, so
  that no client is removed by one event and met by another of the same round
  (`MioNeverUnreachable`).
- `WakeupInv`, which is the theorem `MioNoWakeupLost`: with edge-triggered epoll an edge
  is reported once, so whoever is ready for what it is registered for has to be on the
  ready list or in the batch; and as long as somebody waits to be accepted the listening
  socket has.  The server keeps this by reading, writing and accepting until nothing is
  left, or by registering anew, which puts a ready socket on the list again.
- `DataInv`: echoed, kept and unread pieces are together what was sent, and what is
  echoed or kept is whole characters.  A write that stops half-way keeps its rest, and
  it stops between characters (`WrittenPieces`).
- `PeerInv`: a client connects once, and only one that has closed is reset, which is what
  makes a broken write somebody's own fault (`MioClosedForAReason`).

**Wiid**, for every number of connections, messages, LEDs and failing writes, and every
rate (`WiidAssumption`: finite sets of buttons; some set of axes may be other than 0; the
rate is not beyond the bound of the clock).  `WiidIInv` follows what the callbacks are doing.

- `MessagesInv`: a callback has at most the two messages it was called with, and only
  button messages name buttons.
- `KeysInv`: as long as no write has failed, each key that is down, or that a reader
  believes to be down, belongs to a callback that has yet to release it - though two
  callbacks may hold the same key.
- `OwedInv`: the clicks that are owed cover those begun and not reported; with the
  messages still waiting they are no more than were handed over.
- `AloneInv`: until two callbacks overlap there is one at most, and what is owed is its
  own; this is why each message gives one click.
- `SamplesInv`: what is on its way to the reader is the beginning of one sample, of the
  time the only callback has read, without the axes that are 0 - relative events of
  value 0 are not passed on - and `acc_time_msec` is at least the time of the last.

**Multicast**, for any number of clients and servers of any kind, options, lengths of
texts and buffers, and numbers of lines, duplicates and faults (`McastAssumption`: a
buffer has room for a text and two more cells; the names differ).

- `CountInv`: packets and faults of a client add up to its number, and a C client that
  goes on has not used up its faults.
- `LinesInv`: who is about to send has used one more line - except in C, where the first
  packet needs none - and stdin that has ended is what C and Rust do not notice.
- `ServerInv`: what is on its way to a C or Rust server was sent to its group, and a
  Rust server's buffer is clear between two reads.  In C the buffer is not; `OwnText`
  holds there because the NUL is put after what was read, and a C client sends a NUL of
  its own (`CTextOfPacket`).

**The echo servers**, for every number of clients, lines, places and length of the
accept queue (`NetAssumption`: a finite set of clients, at least one place, at least
one line).  What does not depend on the server's loop is in `EchoNetProofs`: a
connection has one descriptor, or is in the queue once, or is over (`PlacesInv`);
the lines of a client that are under way, in the server's hand, answered and read are
no more than it has sent (`LinesInv`); each open descriptor is in one slot.

- *Poll.*  `SlotsReady` says that the first read of a line does not block.  The
  difficulty is the countdown: `s_poll.c` stops its scan after as many slots as
  `poll()` has counted, and slots that are not in use keep the `revents` of an earlier
  round, which the one a new client gets may be.  `RoundInv` says why that is harmless:
  `poll()` is asked about everything up to the last slot in use, so a stale slot lies
  behind all slots that were in use then; from slot `i` on there are at least as many
  readable slots as the countdown still asks for, and it ends before it comes to a stale
  one.
- *Select.*  Descriptor numbers are used again within a round: a client that is
  accepted may get the number of one that was closed.  `RoundInv` says that before the
  `accept()` the set names open descriptors only, so that the new one is not in it, and
  that each slot still to come whose descriptor is in the set is readable.
- *Refinement.*  `PollImplementsService` and `SelectImplementsService` take each action
  of the server and of a client to a step of `EchoService` or to a stutter: `accept()`
  to an admission or, when all places are taken, a refusal; the write of an echo to an
  answer; the close to a leave; the end of the server to a stop.  That a line is
  answered once needs `LinesInv`, that only a full array refuses needs `SlotsInv`.
- *Fork*, for each of the five servers: `NothingLeftOpen` needs to know of every process
  in the accept loop which connection it has in its hand between `accept()` and
  `close()`, and whether that one has a child yet (`ProcInv`); who may have children and
  shells (`ConnInv`); that what is in the queue was not touched, and that somebody
  listens as long as there is a queue (`QueueInv`); and, for the types, that nobody
  writes more than it has read, or more than the time once (`AnswerInv`).  With
  `over = Dropped` the end of any process (`EndsInv`) is one lemma for all of them.

**The DRM server and its clients**, for every number of clients of either kind, of slots
and of faults, with any number of restarts (`ProtoAssumption`: the sets of clients are
finite and disjoint, and no client has the name of what the screen may show besides).
The proof has three layers.

- `ClientsCleanUp` from `HeldInv`: at each place of a client its resources are those
  acquired on the way there, so that what the labels below it release is there.
- `NeverBlocked` from `RoundsInv`: a connection is in the queue, in one slot, or closed
  (`PlaceInv`), and slots that the loop has yet to come to are as `poll()` saw them
  (`RoundInv`).  Clients are killed at any moment; what is readable stays readable, since
  a client that is gone has left an end of file.
- `WorksOnItsOwn` and `ScreenRestored` from `IInv`.  `SyncInv`: one request or response
  is under way, that of the place where the client waits, except after a time-out or a
  kill; a client whose answer was late never sends another request.  `InfoInv` follows
  a session: a client that has been told "authenticated" has an entry in its slot that is
  its own, and one that may ask for the CRTC to be restored has a CRTC saved there -
  although the array is never cleared, and the values before the first request are junk.
  `ScreenInv`: what is shown exists.  `AloneInv` adds, for a client that is the only one
  of the CRTC, that the saved CRTC is the console, and the places of client and server at
  which its picture may be on the screen.  `PathInv` is about the name of the socket.

**ThreadSignals** (p4), for every number of rounds.

- `HandledInRightThread`: the invariant `MaskInv` is about masks: main blocks both
  signals before it makes a thread, a new thread starts with main's mask, until it has
  set its own a worker blocks both, and afterwards all but its own.  The point is that
  the two calls in `worker()` (block everything, unblock one) are in the right order for
  all interleavings, and that main is never eligible.
- `CountedAsSent`: what was handled, is pending or is in the handler is never more than
  what was sent (two signals of a kind may become one), and equal to it if each sleep was
  long enough (`TimelyInv`: main goes on only when nothing of the last signal is left,
  so that no signal meets another one pending).  `DataInv` relates the place of a worker
  to the number it found and stored.

**PthreadDemo** (p1, p2): `RacesStayBounded`, for every number of threads, and of at
least two turns (`RacersAssumption`; with one turn V2 may end as 1).

- *p1.*  Why is V2 at least 2 whatever the races lose?  Once any update is written V2
  is never 0 again, as each later write is of a value read, plus one.  A thread's last
  turn follows its own first one, so it reads at least 1 and writes at least 2; and
  after the last turn of all threads nobody is left to write less.  `V2Inv` says this by
  the set `Turns` of the turns whose update was written; its size bounds V2 from above.
  V1 is even since whatever a thread writes is 2 more or less than what it read
  (`EvenInv`).
- *p2.*  The key is made by one thread while the others wait (`KeyInv`); until two
  `push_back()` overlap, the vector has the entry of each thread that is through
  (`VectorInv`); main deletes after it has joined all (`JoinInv`, `DeletedInv`).
- *p3* is a theorem of its own, `ThreadsStayTogether`, for every finite set of threads
  (`DemosAssumption`: main is none of them).  A barrier has two states (`StartInv`,
  `StopInv`): it holds exactly those who have come to it and nobody is beyond, or it
  holds nobody and all have come.  The one who completes it is the only step from the
  first to the second (`LastToCome`: the numbers agree only when the sets do).  `MapInv`
  says that the map has the threads that were made, the last one once main has entered
  it, so that a number a thread finds is its own.

**TimerFd**, for all times in order (`TimesAssumption`): `ShotsAreCounted`.  `exp` is
in use only from the read of the timer to the post of the eventfd, and each time the
single shot is armed the interval in `new_value`, which the periodic timer uses as
well, has been cleared (`ShotInv`).

**ForkPty**, for any lines and settings (`BoundsAssumption`: the bound on lines is a
number): `AnswersAreTheChilds`.  Parent and child each read the settings of the
terminal, change a bit and write all of them back.  `EchoInv` tells what survives this:
nothing is written to the child before the parent has turned the echo off, and the
child does not turn it on again; the child meets an end of input only after the parent has
written back settings older than the child's.

**NetlinkIpc**, for every number of clients and of starts of the server
(`BoundsAssumption`): `RequestsStayApart`.  Whoever has a request in the inbox or with
the server has asked, and may be gone since (`RequestInv`).

**PipeIpc**, for every size of the pipe: `CommandsStayInTurn`.  The commands in the pipe
continue what was printed, and the one xmit is about to write continues them
(`TurnInv`).

**Relay**, for any number of messages: `RelaysCarry`.  The messages of a queue have the
numbers after that of the last one passed, whether the program sleeps or not, counted
modulo three (`SequenceGrows`,
`SequenceAdvances`); the buffer that holds remains at the start is clear after the first
message, since it is cleared after each (`CarriedInv`).

**EchoClients**, for any number of lines (`TypedAssumption`): `LinesStayInOrder`.  What is
typed, in the buffer of standard input, sent, on its way to the server and on its way
back are queues of numbers that follow each other (`Follow`).  `SendingInv`: what was
read and not sent is the line main is about to write or the one the goroutine offers, in
that order.  `UnderWayInv` and `ShowingInv` share a number r: the echoes up to r have left
the connection, each is shown, in the hand of the goroutine or dropped, and those shown
rise; in clients that take turns at most one line is under way, so that the reader
`c_simple.go` throws away is empty.

**DrmLadder**, for every program, device, number of buffers and of frames:
`BuffersOwned`, `Spec => []FlipOwnership`, from the assumption that the surface has
more than two buffers (`FlipAssumption`).  `HandlerOwns` and `HandledOwns` say that
the event handler keeps the ownership, whether it finds a buffer to release or not;
`EventInv` bounds the unread events (a turn reads all of them before it queues the
next flip), which is what lets the handler be run zero, one or two times.

`LaddersCleanUp`, `Spec => []CleanupSafe`, has no assumption.  What is particular to each
of the eight programs are facts about its ladder and its labels, which are data (`Fits`:
a rung that fails goes to a label from which on all that was acquired is released, and
nothing else; once something may be shown the labels restore it).  From these the
invariant `CleanInv` is shown for all of them at once: before the k-th rung a program
holds what the rungs below acquired (`Climbed`), before the m-th label what the labels
from m on release, up to what `MayLeave` names (`Owing`).  The exception is `Missing`:
the image buffer that `drm_gl_test1b` releases without having it.

**DrmTwoFrames**, for every number of turns (`FramesAssumption`: at least one, and the
value for "no flip" is no framebuffer): `FallsBackIntoStep`, `GSpec => []DrawnBehind`.
`DrawnBehind` is a bound on a counter and not inductive: it has to be known when the
next turn is going to draw on the screen.  That is `OutOfStep`, and the invariant
`StepInv` lets such a turn be paid for in advance: what was seen, plus one when the
program is out of step, is no more than 1 + the flips that failed + those that came
late.  Drawing uses up what was paid, or comes late and pays for itself; a flip that
is queued leaves the program in step; one that fails pays for the next turn.

**DrmConf**, for every program, command line and device: `FoundFitsTogether`,
`Spec => []ConfRight`.  `SetupsAssumption` only says that a device is what libdrm can
describe: lists of any finite length, and no list of modes for a connector that cannot
be read.  `Searching` is what each loop has seen so far (nothing before the counter was
right), `Found` what each search that is over has left, and `OnceInv` that no ladder
begins its search twice, so that `Found` is about this search.

**GstSink**, for every number of sessions and of failed calls: `SinksAreSafe`,
`AllSpec => []SinkSafe` (`SinkAssumption`: what is on the screen before is no
framebuffer of the element, and no mode is not a saved one).  The history of an element
has three parts: nothing set up yet (`UnsetInv`), set up (`EquippedInv`: both buffers
are there, and at most the one that is *not* the current one is on the screen, which is
why no picture is copied into a frame that is shown), and used before (`UsedInv`: no
buffers, and no `setup()` makes any).  `CountInv` is the book-keeping: each object or
file that is held is paid for by the session, its two buffers, or a call that failed.

What the proofs changed in the models: `Create` and `Join` of `PthreadDemo` chose their
next place by a CASE with overlapping conditions, whose value is not determined; the
order of the branches is now stated (IF).  `ConfTypeOK` bounded a loop counter by the sum
of all lists plus five, which no loop needs; it now only says that it begins with 1, and
the invariant `Searching` how far each loop goes.  `RequestsKept` of `NetlinkIpc` counted
occurrences in sequences where it now says which sets are disjoint.  `RacersAssumption`,
`SinkAssumption`, `SetupsAssumption`, `WiidAssumption`, `BoundsAssumption`,
`TimesAssumption`, `DemosAssumption`, `TypedAssumption` and the bounds in
`McastAssumption` were not stated before the proofs needed them.

Only model-checked is liveness (`RunEnds`, `EveryoneAttended`, `LinesAnswered`,
`ZombiesReaped`, `ClientsEnd`, `EveryoneEchoed`, `LossNoticed`, and what `BarriersHold`,
`AllServed`, `LinesComeBack`, `NobodyWaits`, `LinesGoOut` and `BothCarried` say beside
their safety parts): fairness and `ENABLED` are beyond the prover.  All invariants and
refinements that the runs check are theorems.  `OnlySigIntStops` is what a comment says
and the code does not do (section 6).

## 6 Disagreements between comments and code

- `s_poll.c:149-150` (and `s_select.c`) say of a fault of one connection that
  *this connection* is closed.  Run `echo_poll_reset`: a client sends a line and
  closes; the echo is answered by a reset; in the next round `getpeername()`
  fails and the server exits for everybody - or SIGPIPE ends it a step earlier.
- `drm_server.c:300` says "restore original".  With two CRTC clients at a time
  (`DrmSystem` with two CRTC clients and two slots shows it when the condition of
  `LeftAsFound` is dropped) the CRTC saved for the second is the first one's
  framebuffer.  If they
  stop in the order they came, the second stop puts a framebuffer back that is
  about to be removed, and the screen stays dark.
- `p4.cpp:81` says "wait for all the threads"; `pthread_cancel()` does not wait,
  and lines 89-91 delete data that a worker or a handler may still use.  The
  model has these steps (`freed`, `cancelled`); that is why
  `SignalsCounted` claims the right number only before anything is deleted, and adds
  that with sleeps that suffice nobody uses what is deleted.

Behaviour that no comment contradicts and the properties work around, each time
saying so: the Go multicast server prints the tail of earlier datagrams
(`OwnText`), the Rust and C multicast clients go on sending when stdin ends
(`PacketsAccounted`), the mio server panics on a reset connection or on text that is no
UTF-8 and drops a message whose sender has hung up (`ClosedForAReason`,
`EchoFaithful`), the sinks crash when stopped before caps or used again
(`SinkSafe`), SIGPIPE leaves the DRM server's name behind, and its
answer "error" may leave a picture on the screen: that of a client whose new CRTC could be
set but not read back (`drm_server.c:245-253`), or a plane that could not be switched off
(316-323); `LeftAsFound` speaks of clients that ended without an error.  Of the single DRM programs: `drm_gl_test1b` destroys a buffer and an
image that were never set when the first turn of its loop fails (`drm_gl_test1b.c:165`,
`186`; its test for a missing image compares the array, line 170), some jumps leave a
mapping or a framebuffer to the end of the process (`MayLeave`), and a device without a
CRTC for the encoder ends a program in `dump_drm_configuration()` (all in
`CleanupSafe`); the programs that do not look at `mode_valid` fail to restore a CRTC
that was off.  `pageFlipPending` is set and never read in
`drm_gl_test3.c`: a turn that finds no event queues the same buffer once more, and the
event of that second flip releases the buffer on the screen.  `FlipOwnership` only
says that this, too, is booked right: the buffer then belongs to the surface.
`drm_gl_test1b` draws on the screen in its first turn, before it has changed places
for the first time, and once more after each flip that fails (`DrawnBehind`).

Of the small programs:

- `c_chan.go` starts its two goroutines once, before its loop, but `handleNet` makes a
  new `bufio.Reader` of the connection in each turn (line 76).  One that has read ahead
  takes what it has buffered with it: those echoes are never shown (`InOrder`).
  `c_simple.go` has the same readers and loses nothing, as it sends one line at a time.
- `c_select.c` waits in `select()` for a descriptor whose lines `fgets()` may already
  have read: lines that came in one piece are sent one for each further event
  (`LinesGoOut`).
- `minicom_tty.c` and `open_pty.c` write `strlen()` bytes of what they have read, and
  prefer one side in an else-if: text with a zero is cut, and B waits for as long as
  A has something.  Both write to a terminal with a `write()` that blocks: when nobody
  reads the far end and its buffer is full, neither side is served (`Carried`,
  `BothCarried`).
- `timerfd.c` prefers in the same way; when every turn takes long enough the periodic
  timer is never served, which is why `AllServed` asks for a prompt thread.
- The child of `fork_pty.c` goes on in the parent's part of `main()` when its input
  ends, which happens when the parent writes back settings that are older than the
  child's and not canonical: what it prints there comes to the parent as an answer
  (`OwnEcho`).
- `s_time_fork.c` and `inetd.c` never reap their children; the child of `inetd.c` whose
  shell is not found goes on as a second server (`ZombiesReaped` leaves both programs
  out).  Nor do their children close the listening socket: when the server has ended,
  a client may still connect, and waits in the queue as long as a shell lives
  (`LinesAnswered`).
- A client of the netlink server waits for ever if the server ends before it has
  answered, even if a new one is started (`RepliesCome`).
- `pipe.c` always reports an error in the end: `xmit` never ends by itself, so its
  status is that of a signal or of an `execv()` that failed (`CommandsInTurn`).

## 7 What is not modelled

| part | why |
|---|---|
| udp | each program sends or prints one datagram at a time; only the blocking toggle of `s_udp_nb.c` is state |
| drm-tests: `drm_info.c`, drawing, shaders | prints what the device has; computes pixels |
| timers in Go, signal | the library, or a loop that sleeps, does all there is to do |
| daemon, inotify, fbdev, usb, riscv, asm, netdevice, rtnetlink, uinput | a few calls in a row, or a loop that prints what it receives; what could be stated of them holds line by line |
| gst-simple, gles2-tests | set-up of graphics libraries, in which the errors would be |

Left out of the modelled parts: the exit status of the single DRM programs, which
the clean-up overwrites (`drm_dumb_bo_mult.c:281`), and their command lines without the
required options; lines longer than the buffers of the echo
servers (`s_poll.c:203`) and datagrams longer than those of `mcast4.c`
(`mcast4.c:99`), both undefined behaviour; numbers of eight digits in
`mcast4.c:145`; races inside C++ containers (`p4.cpp:133`, `p2.cpp:63`,
`p3.cpp:44`) beyond whether an entry is found or kept; the colour of the LEDs and
the values of the axes in `wiid-tests`, except whether they are 0; whether what
a relay prints is read (a full pipe as standard output would stop it as well); what the commands of `fork_pty` do to the child,
since the parent ends with them; the unchecked `accept()` of `inetd.c`; errors of
calls before anything is held, which end a program that has not begun; wording of
messages and dumps.

## 8 Plan

Done, in this order: `ExecFd` and its proofs; `EchoNet`, `EchoService`,
`EchoPoll`, `EchoSelect`, `EchoFork`; `DrmProto`, `DrmServer`, `DrmClient`,
`DrmSystem`; `MioEcho`; `ThreadSignals` and its proof; `Multicast`; `GstSink`;
`DrmConf`, `DrmFlip`, `DrmLadder` and the proof of the flips; `Wiid`; `TimerFd`,
`PthreadDemo`, `ForkPty`; the other servers in `EchoFork`; `EchoClients` and `Relay`;
`NetlinkIpc` and `PipeIpc`; `DrmTwoFrames` and its proof; the proofs about the echo
servers with the refinement of `EchoService`, the DRM server and its clients, the
searches of `DrmConf`, `GstSink`, the counts of `ThreadSignals`, the races of
`PthreadDemo`, `MioEcho`, `Wiid` and `Multicast`; the proofs about the ladders of
`DrmLadder`, and those of the safety parts of the liveness properties: the barriers of
`PthreadDemo`, `TimerFd`, `ForkPty`, `NetlinkIpc`, `PipeIpc`, `Relay`, `EchoClients`.

What may come next: the blocking toggle of `s_udp_nb.c`, and the exit statuses of the
single DRM programs.
