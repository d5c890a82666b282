# BMZ in TLA+

BMZ is a small TCP/IP stack and cooperative run loop for the eZ80, in C under
`src/code/`. This directory holds TLA+ models of its components, TLC
configurations that check them on small instances, and TLAPS proofs, for every
size of the tables and buffers, about the queues, the timers, the address cache,
the UARTs, the Ethernet driver, the run loop and the TCP socket.
`PROJECT.json` lists components, runs, hazards, findings and theorems, and maps
each definition to the source lines it models.

1. [The system](#1-the-system)
2. [Modules and how they correspond to the code](#2-modules-and-how-they-correspond-to-the-code)
3. [Runs, bounds, fairness](#3-runs-bounds-fairness)
4. [What is proved](#4-what-is-proved)
5. [Where code and comments disagree](#5-where-code-and-comments-disagree)
6. [What is not modelled](#6-what-is-not-modelled)
7. [What would come next](#7-what-would-come-next)

## 1. The system

One thread, `bmz_run`, calls in turn the handlers of nine tasks, then the
timers; three interrupt routines (two UARTs and the heartbeat) and the Ethernet
chip run beside it. There is no preemption between tasks and no lock. Messages
are allocated from fixed pools and passed by index; a queue is a ring of them.

| Component | State | Operations | Correct when |
|---|---|---|---|
| Queues `mq.c` | ring of `nbr` slots, `get`, `put`, `pushback` flag | init, write, read, pushback, check and clear, clear | it is a FIFO of at most `nbr`-1 messages, pushback included |
| Pools `pool.c` | `inuse` of each message | alloc (first free); `msg_free` gives back | every message in use has one owner; none is lost or freed twice |
| Messages `msg.c` | `msg_ptr`, `msg_len` within a buffer | push at the front, write at the end, pop, read, poke | a handler never pops more than there is, which panics |
| Timers `timer.c` | chain of running timers, `running`, `remaining`, `expired` | start, stop, reset, `timer_run` | the chain holds just the running timers; each expires once, on time |
| Tick `tick.c` | 32-bit count | interrupt increments; `tick_get` reads until two reads agree | no tick is lost or counted twice by its readers, wrap included |
| Run loop `bmz.c`, `project.c` | task index, table of tasks, publish states | queued down messages, idle routines, then timers; `break` after a pushback | every task runs again; a message pushed back waits for the next pass |
| Terminal server `tserver.c` | uart of each instance | idle: open the socket if its publish state is IDLE, send characters if ACTIVE; up: write to the UART | every character received goes out on its connection, in order |
| Sockets `tcpsock.c` | connection state, `ack_phase`, `tx_seq`, `tx_unacked`, `rx_seq`, tx ring, retry and delayed-ack timer | down (open, data, close, abort), up (segment), timeout, select | both streams arrive intact; whatever is lost is repeated; the socket closes and opens again |
| TCP `tcp.c` | none | header up and down, choice of the socket's task | a segment reaches the socket of its ports, and RST answers others |
| ARP `arp.c` | 4 entries: state, address, queue, timer, retries | down (send or queue), up (learn), timeout (retry, flush) | one entry per address; queued messages are sent to their address or freed |
| IP `ip.c`, ICMP `icmp.c` | none | headers, route by mask, echo | next hop by mask; an echo request is answered once |
| Ethernet `ether.c` | receive ring in chip memory, software and hardware read pointer | idle (one frame up), down, `user_msg_free`, recovery timeout | the pointer given to the chip never passes a frame in use |
| UARTs `uart.c` | receive and transmit ring, interrupt enable bits | write, read, init; interrupt routine | both directions in order; nothing waits with the interrupt off |
| Checksum `checksum.c` | none | one's complement sum | equals its arithmetic definition |
| Console, PC stubs | none of interest | formatting; a harness in place of hardware | |

Interactions. `tserver_idle` allocates from a pool of 12 that both instances
share and calls `bmz_down`, which writes to a socket's down queue; `bmz_run`
gives the head of the queue to `tcpsock_down`, which copies it to the tx ring or
pushes it back. `tx_process` allocates from a pool of 4 (shared by both sockets,
TCP and ICMP) and calls down through TCP, IP and ARP to Ethernet, all in one
call. Upward, `ether_idle` takes one frame per pass and calls ARP or IP, TCP, a
socket's `tcpsock_up`, and from there `tserver_up`, which waits in `uart_write`.
`timer_run` calls `bmz_timeout`, and so the handlers of sockets, ARP and
Ethernet. A socket tells its application its state only by the publish state,
which is read one or more turns later.

The hard parts are therefore: state read in one turn and used in a later one
(publish states, timers already collected by `timer_run`, queued messages of a
connection that has gone); the `break` and the order of tasks; exhausted pools
and full rings; interrupts between any two steps; a network that loses and
reorders; and indices and counts that wrap. `PROJECT.json` lists 40 such hazards
with their lines and, for each, the properties that watch it or why none does.

## 2. Modules and how they correspond to the code

| Module | Of | Notes |
|---|---|---|
| `Deque` | (abstract) | a bounded deque: what `mq.c` promises |
| `MQ` | `mq.c` | one operator per function, on the record `[ring, nbr, get, put, pushback]` |
| `MQUser` | a task using one queue | one action per call; refines `Deque` |
| `Timer` | `timer.c`, `tick.c`, end of `bmz_run` | the tick may come between any two steps of `timer_run` |
| `TcpConn` | `connection_state_machine` | the edges of the table, publish states, events |
| `Bmz` | `bmz_run`, `tserver_idle`, `tcpsock_down`, pools | composes applications, sockets and driver in the run loop |
| `Arp` | `arp.c` | cache, queues, timers, pool account |
| `TcpSock` | `tcpsock.c` | operators: `Up`, `Down...`, `Timeout...`, `TxProcess` on the module data `z` |
| `TcpLink` | a socket, a network, a remote TCP | composes `TcpSock` with an environment |
| `Channel` | (abstract) | an ordered channel with a capacity: what a ring to or from a device promises |
| `Uart` | `uart.c` | main program and interrupt routine step by step; refines two channels |
| `FrameQueue` | (abstract) | what the receive side of the Ethernet driver promises |
| `Ether` | `ether.c` and its chip | both rings, the chip between any two steps; refines `FrameQueue` and `Channel` |
| `Msg` | `msg.c`, `pool.c` | operators on one message, a buffer with a sequence of fields in it |
| `Stack` | `ip.c`, `icmp.c`, `tcp.c`, and `ether_up`, `arp`, `tcpsock_select`, `tserver_up` with them | composes the tasks a frame goes through, up and down |
| `MQProofs`, `TimerProofs`, `ArpProofs`, `UartProofs`, `EtherProofs`, `BmzProofs`, `TcpProofs`, `StackProofs` | | theorems, see section 4 |
| `MC...` | | one per component: the constants of the TLC runs |

**MQ.** The sizes are bytes in C, so `Depth \in 1..255`. `mq_read` of an empty
queue, `mq_write` and `mq_pushback` of a full one change nothing. The pushback
flag is that of the record; `mq_pushback_check_and_clear` reads and clears it.
The queues of `Bmz` and `Arp` are plain sequences of at most `Depth`-1, which
the refinement theorem justifies.

**Timer.** The linked list `z.list` is a sequence, head first. `timer_run` is
split in the steps an interrupt can come between: `StartRun` (sample the tick),
`Scan` (one timer), `ScanDone`, `Notify` (call a handler), `Return`, `EndRun`
(`previous = now`). Tasks and handlers call the functions at `tasks` and
`handler`, in any order and as often as they like. `age`, `asked` and `lag0` are
ghosts: a timer that is postponed counts as started again for one tick, and `age`
stops counting where a timer would be too late in any case. `tick_get` is atomic
here.

**Bmz.** A step is a turn of one task. Message bodies are sequences of bytes,
because the byte that has been popped before a pushback (`tcpsock.c:223`) is
what two properties are about; the tx buffer is a count; what arrives from a
peer is any event the socket may see, acknowledging any number of the bytes that
are unacknowledged. `tx_unacked` after `tx_process` is any value from 0 to what
is buffered, which includes an exhausted pool and a closed window. `stale`
(messages of an earlier connection) and `chars` (characters in each message) are
ghosts. The UARTs deliver any bytes, at any time. `NbrSocks` applications, each
with its socket, stand for the two of `project.c`.

**Arp.** A step is a call of a handler. The next hop of each message in use is
remembered in `dest`; a message not in use can be sent again. `Second` lets the
shortest timers come due, `due` are those `timer_run` has collected.

**TcpSock, TcpLink.** Sequence numbers are relative to the initial ones and do
not wrap. `TxProcess` returns the set of outcomes: the pool may fail after any
number of segments. The remote TCP keeps data that arrives early within its
window, acknowledges what it has without gaps, repeats what is not acknowledged,
and sends FIN without data. The network is a set: it loses and reorders; a
segment is sent twice when it is repeated. A socket is opened again only when
the network holds nothing of the last connection.

**Uart.** `uart_write` reads its buffer pointers (`Write`), may wait (`Wait`), then
chooses (`Decide`) between the chip (`ToChip`) and `Store`, `Advance`, `Enable`;
`uart_read` is `Read`, `ReadAdvance`; the interrupt routine is `Interrupt`,
`IsrReceive`, `IsrReceived`, `IsrSend`, `IsrReturn`, and runs to its end before
the main program goes on. `Shift` and `Arrive` are the chip. The routine keeps
`put` and `get` in locals until its loops end: as nothing else runs meanwhile,
they are written at once here.

**Ether.** Memory is counted in blocks of 32 bytes, to which frames are aligned;
of a block only what its first bytes say is kept, a descriptor or data. The chip
(`Receive`, `Damaged`, `Overrun`, `Transmit`) acts between any two steps of the
program: `ReadRWP` and `Look` are `ether_idle`, `UserMsgFree`, `Bump` and
`Return` are `user_msg_free` and the return of the handlers, `Down`, `Wait`,
`Fill` and `HandOver` (two writes, the next descriptor first) are `ether_down`,
which any task may call. What `RRP` has passed is as good as gone, so memory is
forgotten in `GiveBack`. In the transmit ring a block inside a frame is "junk":
read as a descriptor it may say anything, and the chip that looks there goes
anywhere. Pointers of two bytes are read and written at once.

**Msg, Stack.** A message is a buffer with a sequence of fields `<<bytes,
value>>`; `ok` becomes FALSE where `msg.c` panics, and also where it would not
notice: a field read in another width than it was written, or a message used
after it was freed. A handler of `Stack` is an operator from world to world
(messages, cache, sockets, and what is sent or handed up in this step), and calls
the next handler as the code does. No task above the sockets' has a queue, so a
frame goes all the way in one step, `Hear`. Which cache entry is chosen, and the
retries, are in `Arp`: here each hop has an entry of its own. How a socket counts
its stream is in `TcpSock`: here a number is the expected one or an old one.
Checksums are good or bad, as the frame says. When a handler panics in `msg.c`
nothing follows but `Halted`, as `bmz_panic` does not return.

## 3. Runs, bounds, fairness

Each cfg is in the file named; a run checks exactly its invariants and
properties. All numbers in the tables of the source that matter only by being
reached are made small enough to be reached.

| Run | Cfg | Shows | Bounds, and why they are enough |
|---|---|---|---|
| `queue` | `MCMQ` | types and slots; refinement of `Deque` | ring of 4, 3 messages: every `get`/`put` pair, wrapped and full. Proved for all sizes |
| `timers` | `MCTimer` | chain = running timers; account of ticks; late or early by uncharged ticks only; a timer that nobody starts again expires or is stopped, or is postponed for ever | 2 timers of 1 or 3 ticks, `expired_timers` of 1 place, lag up to 2, tick modulo 3, any number of calls: a timer is started, stopped and reset while the other is scanned or notified, across the wrap, and one is postponed. Proved for any number, but for the last |
| `loop` | `MCBmz` | ownership of the pool, no panic, empty buffer at the begin of a connection; the driver always runs again; a closed socket listens again | 2 sockets, pool of 3, tx buffer of 1 byte, messages of 1 character from {0, 5, 65}, which read as types are OPEN_ACTIVE, ABORT and none. `PoolNbr < Depth` as in `project.c` (12 against 16 and 20) |
| `loop_lost` | `MCBmzLost` | violation: characters lost at a pushback | 1 socket, pool of 2, messages of 2 characters |
| `arp` | `MCArp` | one entry per address, timers armed, pool account, entries give up | 2 entries, 3 addresses, 3 messages, queues of 1: every branch of `select` is taken, a queue fills |
| `arp_stuck` | `MCArpStuck` | violation: a message at another address's entry | as `arp` |
| `tcp` | `MCTcp` | types, stream intact, acknowledged is received, retry armed | 2 bytes in 1-byte segments, 2 segments per direction under way, windows 0 and 2, one pool failure, one byte from the peer: a second segment lost with the first arrived, stale and reordered acknowledgments, FIN both ways |
| `tcp_three` | `MCTcpThree` | violation: sequence number of the third segment | 3 bytes in one call |
| `uart` | `MCUart` | both directions are ordered channels, interrupt armed, `uart_write` returns | receive ring of 2, transmit ring of 3, FIFO of 1, two character values: both rings wrap and fill, a swap of two characters shows |
| `ether` | `MCEther` | reception is a `FrameQueue`, transmission a `Channel`, the driver keeps reading | rings of 4 and 3 blocks, frames of 1 or 2, two contents: both rings wrap, fill and overrun, a frame wraps, frames before and behind a damaged one |
| `ether_bad` | `MCEtherBad` | violation: memory not given back after a damaged frame | as `ether` |
| `stack` | `MCStack` | headers fit, only a short ICMP message panics, messages freed once, what is sent is well formed and goes to who asked, only the peer's data goes up | a local host and one behind the gateway, 2 sockets, segments for one port that selects a rate and for one nobody listens on, pool of 2, queues of 1, messages of the real 500 bytes with the real room of 54 for headers |

Bounds that are not in the code: `MaxLag` (ticks between two runs of the timers),
`MaxPut` and `PeerMax` (bytes per
connection), `NetMax` (segments under way in one direction; a further segment
displaces the others), `Busy` (nothing is repeated while more is under way) and
`MaxFailed` (pool failures). They bound what the environment does, and are
guards of `Timer` and `TcpLink`; `Bmz`, `Arp`, `MQUser`, `Uart`, `Ether` and
`Stack` are finite without any. No run switches deadlock checking off.

Fairness:

- `Timer.FairSpec`: weak fairness of the tick and of the main loop. `timer1_isr`
  is driven by hardware, `bmz_run` never blocks; neither is fair to a particular
  call of a task, and the calls are not bounded. So `EventuallyExpires` is about a
  timer that from some moment on is not started again, while handlers put others
  back at the head of the chain (`timer.c:34`) for ever; and it leaves the
  alternative that this timer finds `expired_timers` full again and again
  (`timer.c:149`), which then really can happen. It needs more timers than places;
  the program has 9 (4 ARP entries, 2 of each of 2 sockets, 1 of the Ethernet
  driver) for 10, and `NeverPostponed` proves that with such numbers it never
  occurs at all.
- `Bmz.FairSpec`: weak fairness of `Next` alone: the loop goes on. Nothing is
  assumed of peers or of the UARTs, but that `OpensAgain` asks for the *other*
  UART to fall silent in the end, the condition being part of the property:
  while it does not it may take every message of the pool that comes free.
- `Arp`: weak fairness of time and of each handler that is due.
- `Uart`: weak fairness of the routine and the chip; strong fairness of the steps
  of `uart_write`, and of the routine's leaving its receive loop. Both are
  interrupted again and again, by interrupts and by arriving characters, but a
  character takes many times as long on the wire as a turn of those loops.
- `Ether`: weak fairness of the chip's transmission, of the steps of
  `ether_down`, and of `Look` and `Bump`; strong fairness of `ReadRWP`,
  `UserMsgFree` and `Return`, which a frame being sent makes wait: the loop calls
  `ether_idle` on each pass, and handlers return, however often other tasks
  send. Nothing is assumed of what arrives; `KeepsReading` has the condition that
  something is there to be read.
- `TcpLink`, `MQUser` and `Stack` state none: only safety is checked of them.

Every property of a passing run has a mutant in `PROJECT.json`: an operator
(`NotDueExact`, `DownPushbackFreed`, ...) that differs from the one before which it
stands as a plausible mistake in the code would; with it in place TLC finds the
property violated.

## 4. What is proved

`MQProofs` (assumes `Depth \in 1..255`, `NULL \notin Msg`):

- `TypeCorrect`: `Spec => []TypeOK`. `TypeOK` says that the indices are in the
  ring and that each slot from `get` to `put` holds a message; it is inductive
  as it stands. There is one lemma per operation about slots (`WriteSlots`,
  `PushbackSlots`, `ReadSlots`, `ClearSlots`), all resting on `Indices`, the
  arithmetic of stepping forward and back in a ring.
- `Refinement`: `Spec => ImplementsDeque`, by the mapping from ring to sequence.
  `WriteContents`, `PushbackContents` and `ReadContents` say what each operation
  does to the contents; each step is then a step of `Deque`.

`TimerProofs` (assumes `TimerAssumption`: durations are positive,
`MaxLag < TickMod`), for any number of timers:

- `Invariance`: the inductive invariant `TypeOK /\ ListConsistent /\ Lags /\
  Account /\ OnTime`. `ListConsistent` alone is not inductive: while `timer_run`
  walks the chain its position must be in it (`Lags` and `TypeOK`), and the tick
  differences must not have wrapped (`Lags`: no more than `MaxLag` < `TickMod`
  ticks are uncharged). The delicate step is `ScanInv`: a timer leaves the chain
  at the position the walk is at, and those behind it move up by one
  (`RemoveProperties`, `RemoveDistinct`).
- `ChainConsistent`, `TypeCorrect`, `TicksAccounted`, `NoTickLost` follow from it.
- `NotEarlierThanLag`: an expiring timer has run for what it was asked, but for
  the ticks that were uncharged when it was started. From `Account` at the step
  `Scan`.
- `NeverPostponed`: with no more timers than places in `expired_timers`, it is
  never found full. By `Collected`: what is in it is distinct and not running, and
  so is smaller than the set of timers, by at least the one that is being looked at.

`ArpProofs` (assumes `ArpAssumption`: sizes and limits), for any number of
entries, addresses and messages: `TypeOK`, `OneEntryPerAddress`, `TimerArmed` and
`PoolAccount`, together inductive with `DueFresh`: an entry whose timer has been
collected is still what it was then, or has been taken over by a request of which
nothing was retried. Without it `arp_timeout` could retry or flush an entry of
which nothing is known. `SelectFacts` says what `select` returns, from the
existence of an oldest and of a most retried entry (`Least`, by
well-foundedness of `<`).

`UartProofs` (assumes `UartAssumption`: rings of 2 to 256), for rings and FIFO of
any size: `TypeOK`; `InterruptArmed`, from the stronger `Armed`, which holds in
the middle of the routine too; and the refinements `SendingRefines` and
`ReceivingRefines`. `Knows` is what `uart_write` may conclude from the get index
it read before the interrupt moved it: a ring found empty stays empty, one with
room keeps it. The lemmas `RingAppend` and `RingTail` say what storing and taking
do to the sequence a ring stands for.

`EtherProofs` (assumes `EtherAssumption`: the largest frame is smaller than the
ring), for rings and frames of any size: `TypeOK`, and `TransmissionRefines`, from
`Owners`: which descriptors are the program's and which the chip's at each step of
`ether_down`. Its first conjunct is the assertion in `ether_down` that the next
descriptor is not the chip's.

`ReceptionRefines` is the receive side, against `FrameQueue`: frames come out in
the order they came in, each once, and the one a handler holds stays whole. The
mapping follows the pointers in the descriptors, so the invariant (`RingIntact`)
says that they can be followed: there is a set of blocks, the starts of frames,
that holds `RRP`, `z.rrp` and `RWP`; the pointer of each leads to the next one; and
all blocks of a good frame still have its contents (`Chain`). `Places` adds where
the driver is in that chain: the `RWP` it has sampled is a start beyond `z.rrp`, the
frame it holds is one before `z.rrp`, and a frame is bumped past only while `z.rrp`
is further on, so that `RRP` never overtakes it. Distances are counted from `RRP`
(`Turned`, `Onward`). The chain grows where the chip writes (`Grows`) and shrinks
where memory is given back (`Shrinks`), also when an overrun is written off; for
the queue that is one more (`MoreAlong`), the same (`SameAlong`) or some fewer at
its front (`FewerAlong`), each shown from `RWP` backwards (`AllAlong`).

`BmzProofs` (assumes `SizeAssumption`, which has `PoolNbr < Depth` for every
queue), for any number of sockets and any sizes:

- `Invariance`, `TypeCorrect`, `NoMessageLost`: `TypeOK /\ Ownership /\ Filled`.
  As the queues hold distinct messages of the pool, a queue is never longer than
  the pool is large (`QueueHasRoom`), and so no write is refused: this is why
  `tserver_idle` and the pushback need not look at what `mq_write` returns.
- `NeverDry` (`NoPanic`): with `CutOnlyToReread`, a message without its type byte
  is only ever the one that was pushed back, at the head of the queue of a socket
  that still takes data, and a command of one byte pops nothing more.
- `NoBytesLeft` (`BeginsEmpty`): the tx buffer is empty when a connection begins.

`TcpProofs` (assumes `TcpSockAssumption` and `TcpLinkAssumption`: sizes are
positive, bounds are naturals), for any buffer, windows and bounds:

- `Invariance` and `NeverSilenced` (`RetryArmed`): a socket that waits for an
  acknowledgment has its retry timer running, whatever is lost, however often the
  pool is empty. One lemma per handler, from `TxType` and `CsmType`.
- `StreamInvariance`: `SInv`. It says where the buffer stands in the stream
  (`Placed`: while data is acknowledged `tx_seq` numbers the byte at `get`), that
  FIN and RST end a connection for good (`Epoch`), that the number of a segment
  names its data or is that of a third one (`Names`), what the peer has (`Held`), and that no
  acknowledgment is above what the peer has.
- `NothingDropped` (`AckedIsReceived`): no byte leaves the tx buffer before the
  peer has it, with no condition on sizes, wrong sequence numbers or not: what
  the peer has without gaps it has from segments that named it rightly.
- `StreamKept`: `Spec /\ []Few(z) => []StreamIntact`. `Few` says that not more than
  two messages' data may be sent at once, by what is in the tx buffer and by the
  window of the peer. It is a condition on what happens, not on sizes: the code's
  buffer of 999 bytes takes a third message (446 each), and `tcp_three` shows what
  becomes of that one. By `Ordered`: with `Few`, each segment sent names its data.
- `OnlyThirdsMisplaced`: with no such condition, for `TxSize <= 3 * MsgRoom` as in
  the code, how far the damage goes. A byte of the stream is where it belongs, or it
  is one of a third segment and exactly one message too far on. Part of `SInv`
  (`Held`, from `Names` of each segment).
- `RangeInvariance`, and from it `NumbersInRange` (`TypeOK`): the ranges of the
  numbers are inductive only with two facts more. How far the peer has come bounds
  `rx_seq`, so the peer's numbers, and those of the segments on their way, have to
  be bounded with it (`Bounded`). And a socket has one FIN to send: while it is in
  SYN_RECVD, ESTABLISHED or CLOSE_WAIT what it waits for is the acknowledgment of
  its SYN or of data (`Phased`), which is where an acknowledgment may move
  `tx_seq` by one.
- `NothingInvented` (`ExpectsOnlySent`): a socket never expects, and so never
  acknowledges, more than the peer has sent.

`StackProofs` (assumes `StackAssumption`: there is a socket, a message and a place
in a queue; the offset of a pool message is at least the 54 bytes of the headers
and less than its length), for any hosts, sockets, ports, pool, depth and length of
messages:

- `Invariance`: between steps the world is `Good`, unless it has panicked. That is
  the inductive invariant and the contract of every handler in one: `Good(w, c, H, p, d)` says of the world
  `w` that each message is sane (its length is that of its fields, it is within its
  buffer, nothing has panicked), that those in use are the ones in `H`, which the
  handler has in hand, and those that wait in the cache `c`, each in one place of
  one queue, and that what is sent, and what has begun to wait since the cache was
  `d`, is a datagram that is well formed and answers `p`, the segment or echo the
  step is about. There is a lemma per operation on a message (`PushLive`, `PopLive`,
  `DropLive`, `ShortenTo`...: when it does not panic and what it leaves), one per
  handler (`EtherDownGood` up to `TcpUpGood`, `IpUpGood`, `EtherUpIp`: it keeps
  `Good`, what it consumes of `H`, what it leaves alone), one per set of frames
  (`SegmentFramesAre`...: what they hold) and one per action.
- What a handler may find waiting is not enough as "in use": `Ready` says that in
  front of it there is room for the Ethernet header, and that with that header it
  will be well formed for the hop it waits for. Without it `arp_up` could not be
  shown to send what it finds.
- `PanicsOnShortIcmpOnly` (`NoPanic`): the invariant is that the world is `Good` or
  has panicked (`Whole`), and the only step from the one to the other is that of a
  frame of `ShortFrames`. `ShortIcmpHalts` says that such a frame always is one.
- `Types`, `FrameIsFreed`, `PoolAccounted` and `SentWellFormed`
  follow from the invariant; `AnswersTheSender`, `PayloadTaken` and `PeersKept`
  (action properties) from what each step is shown to do (`Step`).
- `FirstBytesAre` and `PayloadIs` say what is left of a datagram when the padding
  of a short frame and the IP options have been taken off: just the payload.

The recursive functions that these proofs need (`Sum` of `Msg`, `SendAll` and
`FreeAll` of `Stack`, the one in `Waiting` of `Ether`) are shown to exist without induction over data: a least counterexample would have
a predecessor (`Least`, from the well-foundedness of `<`).

Model-checked only: liveness (`EventuallyExpires`, `EtherRuns`, `OpensAgain`,
`GivesUp`, `WriteReturns`, `KeepsReading`), which this prover does not reach. Every
other property of a passing run is also a theorem.

## 5. Where code and comments disagree

Each is a run with expectation `violation`.

- `loop_lost`: `tcpsock_down` pops the type byte (`tcpsock.c:223`), then pushes a
  message that does not fit back without it (`tcpsock.c:270`). The first
  character is the type next time: the message is stored short, dropped, or
  obeyed as CLOSE or ABORT. `NoPanic`, in the passing run, shows what keeps this
  from being worse: no segment comes between the two readings, the socket still
  takes data, and in those states no command pops parameters that are not there.
- `arp_stuck`: with no idle entry `select` returns an entry bound to another
  address; the message is queued there and no request is sent (`arp.c:121-125`).
  It leaves when that entry is flushed and reused, for whatever address that is.
- `tcp_three`: `tx_seq += nbr_sent` (`tcpsock.c:945`) is cumulative over the
  segments of one call: from the third on the number is too high.
- `ether_bad`: past a damaged frame `ether_idle` moves `z.rrp` but not the chip's
  `RRP` (`ether.c:439-443`). No later frame begins at `RRP`, and `user_msg_free`
  gives memory back only from there (`ether.c:540`), though it says "if we have
  sent no more messages stop" (`ether.c:548`). Nothing is given back until the
  ring is full and an overrun resets both pointers (`ether.c:427-435`), which
  loses the frames in it; until then `ether_rx_room` shrinks, and with it the
  window offered (`tcpsock.c:908`). The trace shows the memory not given back; that
  an overrun then resets the pointers is read from the code, and `KeepsReading`,
  whose condition is that something is there to be read, says nothing of it. That
  no frame is torn meanwhile is `ReceptionRefines`.

Also met, without a run of its own:

- With a pool of 7 or more and one socket (`project.c` has 12 for two), commands
  and data of one connection can be taken in the next: the application, which
  sees only the publish state, posts further OPENs while its messages wait
  (`tserver.c:140`), and what is behind the OPEN in the queue when the connection
  ends is taken by the one after. `BeginsEmpty` shows that the tx buffer, which
  the socket clears itself, has nothing left over; the socket's queue may have.
- A FIN of the peer makes the socket send its own at once (`tcpsock.c:816`), with
  the number of data that is not acknowledged and will not be sent again; so what was in the tx buffer is given up. `AckedIsReceived`
  holds all the same: the acknowledgment of that FIN is not taken for the data's.
- Data in the segment of a FIN is dropped and the FIN is acknowledged as if it
  came first (`tcpsock.c:470`). The peer of `TcpLink` sends FIN without data.
- A listening socket takes over remote port and address from any segment for a
  port of its list (`tcpsock.c:563`), so also from one that it then ignores; the
  port picks the baud rate (`tserver.c:15-19`). In `Stack`, `PeerKept` shows that
  it changes no more once the socket has left LISTEN.
- `EV_TIMEOUT` is generated nowhere (`tcpsock.c:688`): a socket whose peer is gone
  repeats for ever.
- A timer started for N ticks may expire earlier, by the ticks that wait to be
  charged when it is started (`timer.c:34`), though `timer.h:29` says "expires in
  N ticks". `NotEarlierThanLag` proves by how much.
- `ip_up` does not look at the destination address; `tcp_up` does not take off
  TCP options, which then count as data. The frames in `Stack` have no such options.
- `icmp_up` reads type and code of a message of any length (`icmp.c:41-42`):
  `msg_read1` panics if it has fewer than two bytes, and the program stops. `NoPanic`
  says that nothing else does, for the frames listed in `Stack` (`SegmentFrames`,
  `EchoFrames`, `BadFrames`, `ArpFrames`, `ShortFrames`).

## 6. What is not modelled

`checksum.c`: a sum over bytes, of which `Stack` takes the verdict. The byte-wise
double read of `tick_get` (`tick.c:42`) is atomic in `Timer`. `msg_poke` and the
order of bytes in memory. `mq_init`, `pool_init` but for the messages it makes,
and `bmz_define_system` carve up memory once. `console.c` formats, `pcstubs.c`
replaces hardware on a PC, headers other than those mapped hold sizes. Of
`tcpsock.c`: active open in `TcpLink` (the table's edges are in `TcpConn`), the
receive window, the round trip estimate and the backoff in 16 bits
(`tcpsock.c:991`). Of `ether.c`: `ether_rx_room`, the negotiation over MII (a
choice of link up or down) and the chip's set-up. Of `uart.c`: baud rate and
framing. Sequence numbers do not wrap.

That data gets through to the peer in the end is not stated: it is false of
`tcpsock.c` with a peer that closes its window and opens it again without
acknowledging anything new (`tcpsock.c:407`), and in LASTACK with `ack_phase`
IDLE (`tcpsock.c:447`).

## 7. What would come next

1. `Tick`: the double read of `tick_get` against the interrupt, byte by byte.
2. Liveness of `TcpLink` for peers that repeat their window.
3. `Checksum`, and the round trip and backoff arithmetic in 16 bits, against
   their definitions.
4. Two sockets' timers with `Timer` in one module, for the timers that expire
   together.
