# libzio in TLA+

libzio is a small C library for I/O: a byte buffer, a single-threaded socket
event loop built on `select()`, a registry of serial ports that threads can
share, and a threaded TCP client. This directory specifies it in TLA+, checks
the specifications with TLC on small instances, and proves with TLAPS, for every
instance, every safety property and every refinement that the checks state, and what
the list functions do to a list.

Paths below are relative to the repository. `PROJECT.json` maps every definition
to the lines it models and lists each hazard of the code with the properties
that watch over it.

## 1. The system

| part | files | state | operations |
|---|---|---|---|
| qbuf | `src/qbuf.c`, `qbuf.h` | an allocation and two offsets | new, write, peek, read, offset_head/tail, collect, realloc |
| zsocket | `src/zsocket.c`, `zsocket.h` | per socket: descriptor, flags, tick, two buffers, callbacks; global: the list, two `fd_set`s with their bounds, `in_looping`, `__status` | connect, listen, accept, read_start/stop, write, close, loop |
| list | `src/list.h` | next/prev links, poisoned on removal | add, del, replace, move, their tests, the traversals |
| serial port | `src/serial/serial_port.c` | a list of managers (`refcount`, `opencount`, a mutex each), the mutex `g_mangers` | new, open, close, lock, unlock, read, write, clean, destory |
| serial driver | `src/serial/serial_unix.c` | `is_open` and the descriptor | open, close, I/O |
| Windows driver | `src/serial/serial_win.c` | `is_open` and the handle, exclusive | the same |
| socket client | `src/socket/socket_cli.c` | `is_connect`, descriptor, thread id, callback | new, connect, register_notify, read, read_all, write, clean, disconnect, destory; the `task_read` thread |

How they interact. `zsocket` owns two `qbuf`s per socket: `recv()` writes into
the read buffer, `read_cb` tells how much of it is consumed, `zsocket_write`
fills the write buffer and `zsocket_handle_send` drains it. The application runs
between two `zsocket_loop` calls and inside its callbacks, from which it may call
the whole interface on any socket: that re-entrancy is what is hard about
`zsocket.c`. The serial registry is called by threads; it calls the driver
through a table of functions. The client runs a reader beside its caller. The
build sets no `NDEBUG`, so the assertions are part of the program, and a failed
one stops it.

What makes each part correct, and what is hard about it:

* **qbuf**: it is a FIFO of bytes, whatever is collected, moved or reallocated
  and whichever allocation fails; the offsets stay ordered; nothing that was not
  written is ever readable. Hard: offsets are clamped after they are moved, a
  collection is vetoed by policies that degenerate below four bytes, a failed
  `realloc` must be noticed.
* **zsocket**: the list holds exactly the open sockets; the descriptor sets hold
  only descriptors of usable sockets and `nfds` covers them; a traversal never
  stands on a socket that left the list; ending the scan early loses no event;
  `recv` always has room; the counters are a census; closing releases everything
  once. Hard: callbacks change the list, the sets and the flags between the call
  of `select()` and the use of its answer; a close is deferred inside the loop
  and immediate outside; a server closes its connections in cascade; flags are
  combined with `&=` where `|=` was meant.
* **serial port**: one port per device, its references counted exactly; the
  device is open while `opencount` says so; no port is freed that a thread has a
  reference to, and every walk over the list finds it; no
  descriptor is lost; no deadlock between the two kinds of mutex; closing one
  share does not close the device under another. Hard: checks outside the mutex
  that guards what they check, list walks without a lock.
* **socket client**: the bytes of a connection reach the application in order and
  once; the reader lives within its connection, and a disconnect joins it; a
  connected descriptor is never lost; disconnecting and the calls with a timeout return. Hard: two
  threads on one socket, a join before the close that would wake the reader up,
  results of `recv` that are not looked at, a thread id that is never reset.

## 2. Modules

| module | what it is |
|---|---|
| `ByteQueue` | abstract: a queue of bytes of unbounded length, and what a write or read may answer |
| `QBuf` | the arithmetic of `qbuf.c` as operators on `[size, in, out]` |
| `QBufMachine` | one buffer with its memory, one action per function; refines `ByteQueue` |
| `QBuf_lemmas`, `QBuf_proofs` | lemmas about the operators, theorems about the machine |
| `SocketLife` | abstract: a socket is opened, closed and released once, by a sweep and never during a scan |
| `ZSocket` | the event loop, on the operators of `QBuf`; refines `SocketLife` |
| `LinkedList` | the functions of `list.h` as operators on a memory of links; what a ring is |
| `LinkedList_proofs` | what each of them does to a ring of any length |
| `ZSocket_steps`, `ZSocket_proofs` | the invariant of the loop, what each step does to it, and of which kind each step is; the theorems, with the invariants they need besides |
| `PortLease` | abstract: a device is leased to one holder, or to several that agree |
| `SerialPort` | the registry, on the links of `LinkedList`, and the drivers, statement by statement, for any number of threads; refines `PortLease` |
| `SerialPort_proofs`, `SerialPort_safety` | what `g_mangers` protects, for every `Env`; what holds while the threads respect each other, and the refinement |
| `SocketCli` | the client, its reader threads, the kernel's sockets and the peer |
| `SocketCli_proofs` | its invariant, and the order of the stream |
| `MCQBuf`, `MCZSocket`, `MCSerial`, `MCSocketCli` | instances for TLC |

### QBufMachine

`buf` is the triple of offsets and `mem` the bytes of the allocation, those never
written included (`Junk`). Each function of `qbuf.c` is an action; a write that
must grow chooses whether `realloc` succeeds. The refinement mapping takes the
bytes between the offsets as the queue: collections and reallocations are
stuttering steps, a short write is allowed by `ByteQueue` only when memory ran
out, a read answers exactly the prefix.

### ZSocket

The program counter names the point of the loop:

    app -> recv -> (conn_cb | read_cb) -> send -> next -> recv ...   zsocket_poll
        -> sweep -> reap -> cascade -> release -> sweep ...          zsocket_do_close

`app` is the application between two loops, `conn_cb` and `read_cb` are the
application in a callback: every call of the interface (`AppCall`) is enabled in
these three, on every socket it may legitimately hold. A step is a stretch of
code between two points at which other code can run or a path divides.
`zsocket_handle_recv` is one step up to its callback and one after it;
`__zsocket_close` is three, `Reap` (`list_del`), the cascade over the list, and
`Release`. Between two loops `zsocket_close` goes through the same three.

* `sk[s]` is `struct zsocket`: descriptor, type, flags, tick (zero, fresh,
  expired), port (`laddr`), the two buffers as offset triples, whether a `close_cb` is
  registered. A server keeps the port it was asked for, a connection has what
  `getsockname()` says: the same, or, if that was 0, a port the system has chosen
  (`Assigned`), which no server is asked for in the model. The callback pointers are not kept: they are set exactly when the
  descriptor is put in the read set. `user_data` and `sdata` are private to one
  socket and left out.
* `watch` is the two global `fd_set`s and their `nfds`; `sel` what `select()`
  returned, less what has been handled: the local sets of `zsocket_poll`.
* `heap` are the connections `zsocket_accept` has allocated and nobody freed.
* A failed assertion, or a list link that leads to `LIST_POISON1`, is a step to
  `halt` with the line in `fault`.
* `connected_cb` runs inside `zsocket_connect`: it is the application at the same
  point. A nested `zsocket_loop` and a `zsocket_accept` outside `connection_cb`
  are excluded, the library gives no way to make sense of either.
* Of a released socket only the type and EOF remain; the fields
  `__zsocket_close` leaves behind are not looked at before the next
  `zsocket_init`.
* Time passes only while `select()` blocks, so a stall expires in `EnterLoop`:
  callbacks are short beside a stall interval of seconds.

`Env` is the set of hazards an instance allows: calls of the kernel that fail,
descriptors in any order, and things an application does that the header does
not forbid (`stale_close`: a callback closes a socket that `select()` reported
and the loop has not reached; `server_close`, `conn_close`: closing between
loops; `port_sharing`; `no_timeout`). The properties come in two groups, those
that hold whatever `Env` is and those that need a well-behaved environment. Both
are proved, the second from assumptions that name what `Env` must leave out.

`SocketLife` is the promise behind all this, in three phases: in `scan` callbacks
may close any socket and none is released; `sweep` releases whatever was closed
before it; between two loops a close is a sweep of its own for one socket. Its
`due`, the sockets the sweep has yet to come to, is mapped to the closing sockets
from the cursor of `zsocket_do_close` on (`Ahead`), so the refinement says that
the walk over a list its own cascade changes leaves none of them out.

### LinkedList

`L[n]` is the `list_head` at address `n`, of the head of a list or of an entry, and
every function of `list.h` is an operator from memory to memory with the stores in
the order of the source. `Ring(L, S)` is what is to be true of a list: the links of
`S` are each other's inverse and no proper part of `S` is closed under `next`, that
is, whoever follows `next` comes past all of `S`. It is stated with subsets and not
with reachability, so that it can be proved without induction.

### SerialPort

Each thread is inside at most one call and `call[t].pc` is the statement it has
reached; a step is what lies between two accesses to shared state, so the two
tests of `opencount` outside the mutex and the walks without `g_mangers` interleave
with everything the other threads do. A `serial_t` and its manager are allocated
and freed together and are one element of `Ctx`; we assume that there is memory for a
port per device. `links` are the nodes of the managers and the head: `serial_new` adds
with `list_add`, `serial_destory` deletes with `list_del`, and a thread in `walk`
follows whatever it finds there. `held` counts the references in a thread's hands,
the one it is giving back until `serial_destory` has counted it. Reading and writing
are the driver's test of `is_open`, its waiting and its transfers: between them
another thread may close the port. `serial_clean` flushes without a test. The driver's
close is three statements, so that two of them can both come to `close()` of one
descriptor. Walking the list while the port of another device is freed is excluded by
nothing: a walk that stands there is a step to `fault`, after which nothing happens.

`Env` tells what the threads are not kept from doing: opening or
closing one port at once (`open_race`), calling more than I/O while holding a port
(`held_calls`), closing the last open of a port another is reading (`io_race`), failures of the driver
(`open_fail`, `close_fail`), and memory from `malloc` that happens to hold the number of an
open file (`stray_fd`, for the rejection of a parity, which closes a descriptor
nobody has set). `Driver` selects what differs between the two drivers: on Windows
`CreateFileA` opens a device for one handle only, a failed open may keep its handle,
reading and writing test `is_open` and not the handle, and `CloseHandle` fails on a
handle that is closed.
The setting record is abstracted to a value that is compared, `Invalid` are those
with a parity that is not N, E or O. `is_open`, `set_debug` and `get_last_error`
read or set one field and are left out.

### SocketCli

The application makes one call after the other: `call.pc` is where it is, in
`connect`, `select`, `recv`, `send`, `poll`, `drop`, `join` or `close`. Each
`task_read` thread is in `test`, `enter` (about to call `recv` with the descriptor
it reads from the client), `recv` or `notify` (the callback). `sock[f]` is the
kernel's side of a connection: the bytes that wait, numbered in the order the peer
sent them, how many those were, and how the stream ended. A thread that is in `recv`
keeps the socket it called on, also when its descriptor is closed meanwhile. A socket
whose `connect()` failed stays in state `failed` until a later disconnect closes it,
if the next attempt does not forget it before. A join
of a thread id that was never set or is joined already, and a use of the freed
client, are steps to a `fault` after which nothing happens.

Calls the code answers with -1 before it has changed anything are left out (a
read of an asynchronous client, say). A socket stays apart from its descriptor's number:
another user of the number in the same program is not modelled.

## 3. Checks

| run | instance | shows |
|---|---|---|
| `qbuf` | 2 byte values, capacities 0 (RAW_SIZE), 1, 3 growing to 8, chunks of 2 | the buffer implements the queue; no junk is readable; consuming leaves room |
| `zsocket_misuse` | 2 application sockets, 1 connection, 3 descriptors; failing accept, shared ports, stale and server closes | list, sets and traversals stay sound up to the assertion that stops the program; no event is lost; no connection outlives the server of its port |
| `zsocket_buffers` | 1 client, buffers of 4 growing to 8, writes up to 5; recv, send and allocation fail | `recv` has room; buffers belong to open sockets |
| `zsocket_faults` | 1 server, 2 connections; send and select fail, descriptors in any order, closes between loops | a well-behaved application meets no assertion; `nfds` covers; the counters are exact; every socket lives as `SocketLife` says; a connection released between loops may be freed |
| `zsocket_stalls` | 1 server, on a port or on port 0, 1 connection; failing, stalled or exempted; fair | what is closed gets released, the loop returns, no connection leaks, EOF is final |
| `serial` | 2 threads, 2 devices, requests that differ in setting, sharing and device, one with an invalid parity; 2 references and 2 opens each; open may fail | lease, one ring of ports on which every walk finds its own, reference counts, descriptors, reading and writing on open devices only, no deadlock; up to a walk that uses freed memory |
| `socket_cli` | 2 threads and 2 sockets, 2 bytes, chunks and lengths that split them; connect and send fail, the peer resets, a callback is registered twice; fair | the reader within its connection, the stream in order, no connection in use lost, a wrong join only where no callback was registered, disconnect and timed calls return; up to undefined behaviour |
| `zsocket_stale`, `zsocket_recv`, `zsocket_tick`, `zsocket_close_cb`, `serial_race` | one hazard alone | a finding each, see section 5 |

Bounds, and why they are enough:

* Three sockets on three descriptors, each opened three times in all (`MaxOpen`):
  the cascade needs a server and two connections, a stale event two sockets in
  either order on the list, a reused descriptor one reopening.
  The counters are bounded through `MaxOpen`, nothing else in the loop grows.
* In runs with several sockets a buffer holds one byte, so it is empty or
  full, which is what the loop distinguishes. The arithmetic between is the
  concern of `zsocket_buffers` and of `qbuf`.
* `MaxBuf` bounds growth: beyond it an allocation fails, or (without
  `alloc_fail`) the application does not let it come to that.
* Two threads and two devices exhibit every interleaving of two calls on
  one port and a walk past another's port. `MaxRefs` and `MaxOpens` of 2 tell the
  first and the last reference and open from the others.
* The server of `zsocket_stalls` listens on port 0 or on a real one, those of the other
  runs on a real one. With both, `zsocket_misuse` has 2.9 million states and no error
  either.
* Sockets of a kind, threads and contexts are interchangeable: symmetry is used
  in the runs of safety properties and not in the one with liveness.

Deadlock is checked in `qbuf`, `zsocket_faults` and `zsocket_stalls`. `zsocket_misuse`
and `zsocket_buffers` allow it, because a failed
assertion stops the program there, and `serial` and `socket_cli`, because undefined
behaviour does; that the threads of `serial` do not wait for each other is the invariant
`NoDeadlock`.

Fairness in `zsocket_stalls` (`FairSpec`): weak fairness of `CallLoop` (the
application goes on calling `zsocket_loop`, as the tests do in a loop of their
own: nothing else moves the sockets), of `CallbackReturns` (callbacks return) and of `Poll \/ Sweep` (the processor
executes the loop). The application is not obliged to close, read or write
anything, and no kernel event must ever come.

Fairness in `socket_cli`: weak fairness of the call under way (`Proceeds`) and of each
reader: the processor runs both threads, `select()` with a timeout times out, and
`send()` makes progress or fails, which `con_timeout` as `SO_SNDTIMEO` sees to when it
is positive. Nothing is asked of the peer, so a `recv()` may wait for ever, and the
application need not call anything. `DisconnectReturns` therefore starts from a
stream that has ended: as long as the peer is silent, `pthread_join` waits.
`TimedCallReturns` leaves out `socket_read_all` at the end of a stream.

The serial instance has `Driver = "unix"`; with `"win32"` it has as many states and no
error either.

Each property of a passing run has a mutant in `PROJECT.json`: a definition
changed the way a slip in the C code would, which the run then refutes. The
variants stand beside the definitions they vary, marked "Variant".

## 4. Proofs

The proofs hold for any number of sockets, threads, descriptors, ports, bytes and
capacities, and for every `Env`, but for the theorems of `SerialPort_safety` and
`ZSocket_proofs` that name the hazards they exclude. The only assumptions are `QBufAssumption`,
`ZSocketAssumption`, `SerialPortAssumption` and `SocketCliAssumption`:
`RAW_SIZE`, `BufSize` and the client's `Chunk` are positive, descriptors are naturals
(a finite set of them for the sockets), the application's sockets are not those on
the heap, the threads and ports of the registry are finitely many, the list's head
and the poison are not ports, and nobody asks the client for 0 bytes.

**qbuf** (`QBuf_proofs`). `Typing`, `Clean` and `RoomInvariant` are the three
invariants of its run, and `Refinement` states `Spec => ImplementsByteQueue`.
The invariant is `TypeOK` with the offsets ordered and the bytes between them
written; the refinement has a lemma for each function that says which bytes lie
between the offsets afterwards. `WriteAcceptsAll` (a write takes all it is given
when its allocation succeeds) and `ConsumeLeavesRoom` are about the operators
alone.

**zsocket** (`ZSocket_steps`, `ZSocket_proofs`). The inductive
invariant `IInv` has three parts.

* `DataInv`: types, the list without repetition, `WatchedAreUsable`, `NfdsCovers`,
  `BuffersOwned`, and `NoneIsFresh` (a socket that was never opened is as
  `zsocket_init` left it), which is what makes opening one safe.
* `ControlInv`: `TraversalSafe`; the list is exactly the open sockets less the
  one in `__zsocket_close`; whatever `reap`, `cascade` and `release` stand
  on is open and marked EOF; `in_looping` holds inside the loop. The last two
  are needed because `Release` takes the cursor's descriptor away: without EOF
  it might still be watched.
* `RoomInv`: a read buffer is full only while `read_cb` has not returned, or its
  socket is closed. `RecvHasRoom`, which speaks of one point of the loop, does
  not say enough to be inductive.

The lemmas reduce each action to one of six ways of changing the data
(`DataUpdate`, `DataClose`, `DataOpen`, `DataReset`, `DataDelete`, `DataTick`) and
one of a few ways of moving (`Stays`, `Moves`, `Cascades`, `Halts`). `SendDataStep`
uses `ConsumeLeavesRoom`: the WBUF_RUNOUT branch of `zsocket_handle_send` is
never taken. What follows from `IInv` alone: `SocketTyping`, `Watching`, `Bounds`,
`Listing`, `Traversal`, `Room`, `Ownership`, and the action property `EofFinal`.

The other theorems have an invariant each, over `IInv`. They do not look at the
actions again: `Kinds` says that every step is of one of eleven kinds (a call that
returns, `ClosingAlone`, `Entering`, `Scanning`, `Reaping`, ...), each in terms of what
happens to the sockets (`Keeps`, `Opens`, `Closes`, `Resets`) and where the cursors go.
`Rest(s)`, the sockets of the list from `s` on, replaces places in the sequence: the
lemmas on it say what adding, deleting and going on do (`RestAdd`, `RestWithout`,
`RestAfter`).

* `EventsHandled` (every `Env`). `Counting`: in the scan every event that is left
  belongs to a socket of `Rest(cursor)`, and there are at most as many as the
  countdown says, one fewer once the socket at the cursor is counted. So an early end
  finds none left, and neither does the end of the list; a callback adds sockets
  at the head of the list only, where the scan has been, and takes none off.
* `NoneOrphaned` (every `Env`). It is about the connections of a server that was
  asked for a port; those of a server on port 0 do not have its port, and are
  left behind (section 5). `Attended`: what a closing server has not come past is
  in `Rest(peer)`; `Accept` needs a usable server, which cannot be the closing one.
* `Freeing` (every `Env`) from `Roles`: which socket may have which type, and where
  each cursor is in use. `NothingLeaks` (no `conn_close`) adds that the socket in
  `__zsocket_close` outside the loop is no connection.
* `StatusCounts` (no `idle`, `no_timeout`, `alloc_fail`). `Exact`: besides the numbers,
  the tick of every open connection is fresh. Under these no socket is closed twice,
  which is the one way in which the counters go wrong. The sets counted are finite
  because distinct open sockets have distinct descriptors.
* `SocketLives` (no `port_sharing`, `server_close`), the refinement of `SocketLife`. `Sorted`:
  the connections of a server come before it in the list (`Ports`), and no
  closed socket that the sweep has left behind has the port of an open server (`Swept`),
  so the cascade meets no closed socket and its assertions hold (`NoCascadeAborts`).
  Then `due` is `DueSet`, the closing sockets in the rest of the list, and each kind of
  step is a step of `SocketLife` or none (`ContractStep`). What the cascade closes
  behind the sweep is not due; it stays closing for the next one.
* `NeverAborts` (none of `recv_fail`, `accept_fail`, `alloc_fail`, `port_sharing`,
  `stale_close`, `server_close`). `Flags`: READ_ENABLE and WRITE_ENABLE of a usable
  socket say whether its descriptor is watched, WRITE_ENABLE whether it has a write
  buffer, and what is left of the events is watched. With `WatchedAreUsable` and `Sorted`
  no assertion can fail. `send_fail` is not among the assumptions, although
  it masks the state too: by then `Counting` has the socket's last event handled, and
  it is closed in the same step. Each of the six that are is the cause of a failed
  assertion (section 5).

**list** (`LinkedList_proofs`). For memory of any size and a ring of any length:
`AddRing` (`list_add` and `list_add_tail` make one ring of the ring and the new
node), `DelRing` (`list_del` leaves one ring of the others and poisons the node) and
`DelInitRing` (`list_del_init` makes it a ring of its own), `MoveRing` and
`ReplaceRing`, each from what the two or four stores do to the links (`InsertRing`, `UnlinkRing`), and frame
lemmas that no link outside the ring changes. That no part of the result is closed is
proved by taking a closed part and making from it a closed part of the old ring.

**serial ports** (`SerialPort_proofs`, `SerialPort_safety`). The inductive
invariant `IInv` of the registry is `Types`, `RegistryRing`, `OnePortPerDevice`,
`RefcountExact` and, for each thread, `CallInv`: it is inside `g_mangers` exactly
between lock and unlock; it creates a port only while its device is not listed;
it shares a port that is listed; in any other call it has a reference to its port.
`CallInv` is needed because the thread in `create` acts on what it saw in `register`,
and the one in `bury` frees a port it has no reference to any more. `RefsUp` and
`RefsDown` count references as pairs in a finite set, `HeldListed` draws from
`RefcountExact` that a port somebody has a reference to is listed, and `CreateInv`
and `BuryInv` get their rings from `AddRing` and `DelRing`. `AlwaysRegistryRing`,
`AlwaysOnePortPerDevice` and `AlwaysRefcountExact` hold for every `Env`: opening at
once, walking outside `g_mangers` and locked ports do not touch the registry.

`AlwaysWalkFindsItsPort` holds for every `Env` too. `WalkInv`: the port of a thread that
walks is still ahead of it, at the entry where it stands or behind that. "Ahead" is said
without reachability, as for rings: whatever holds the entry and is closed under `next`
up to the head holds the port (`Leads`). A port is added at the head, where no walk
comes again (`AddLeads`); the port freed is never the walker's own (`DelLeads`). Where the walk
stands on a port that is freed, and uses freed memory, nothing more is claimed: that is the
`fault` of `Walk`.

Others need the threads to respect each other, and the theorems say in what:

* `AlwaysTypeOK` (no `open_race`): `opencount` is never below 0. The invariant
  `OpenInv` says that two threads are never in `serial_open` or `serial_close` of one
  port, so what `serial_close` tested before it took the mutex is still so after.
* `AlwaysNoDeadlock` (no `held_calls`). `HoldInv`: who has locked a port is in no
  call that waits. So the owner of a port's mutex goes on, then whoever waits for it
  inside `g_mangers`, then whoever waits for `g_mangers`; for any number of threads.
* `AlwaysOpenMatchesDevice` and `AlwaysOpensOnlyWhenClosed` (no `open_race`, no
  `close_fail`, no `stray_fd`). `DeviceInv`: `is_open` is true exactly when there is a descriptor;
  there is one while the port is counted as open, and otherwise only for a thread
  that is about to count the port up, or has counted it down and is about to close
  the device. `OpensOnlyWhenClosed` is what `serial_race` refutes when two threads open
  at once: the theorem says that beside the conditions it names nothing can go wrong there.
* `AlwaysNoDescriptorLost` (the same). `OwnInv`, that a port has an open descriptor or
  none, and no two ports the same, needs no closes that succeed; `KeptInv`, that every descriptor is a
  port's, needs `DeviceInv` where the driver opens: `s` is overwritten there.
* `AlwaysIoOnOpenDevice` (no `open_race`, `io_race`, `stray_fd`; the driver's close may
  fail). `IoInv`: a thread that has found its port open keeps it open, because a
  thread that closes the port meanwhile finds another opening counted. For `serial_clean`,
  which tests nothing, `OwnInv` says that it flushes the port's own open descriptor or none,
  since no close is under way on the port that has closed it and not yet forgotten it.

`AlwaysLeased`, the refinement of `PortLease`, holds for every `Env`. `LeaseInv` says
what `IInv` does not: the thread about to share a port agrees with its terms and the
port still has a holder, a port without one is about to be freed, and none was created
with an invalid parity. Then a device's lease is its port's terms and `refcount`
(`LeaseDef`), `NewCreates` is a `Grant`, `NewShares` a `Join`, `DestoryCounts` a `Leave`, and
nothing else changes a lease (`Quiet`).

`RunAlters` and `RunTurns` reduce the statements of all calls to one form each: what a
step does to a port, and what to a call; `RunDrives`, `RunArrives` and `RunFds` say the
same of the driver's state, of how a thread comes there, and of the descriptors.

**socket client** (`SocketCli_proofs`). Every safety property of its run, for every
`Env`. `IInv` is `TypeOK` and `JoinsRegistered` with five parts: `CallInv`, what the client
is while a call stands at each statement; `ConnInv`, which adds to `NoConnectionLost` that
a connection outlives `is_connect` only until `socket_disconnect` has closed it;
`ThreadInv`, that the thread the client knows is joined before its connection ends and
receives from that connection alone; `MadeInv`, that nothing has come on a socket that is
not yet connected; `NotifyInv`, that a connection with a registered callback has a thread
that is not yet joined. From it follow `AlwaysTypeOK`, `AlwaysNoConnectionLost`,
`AlwaysReaderWithinConnection`, `AlwaysJoinsRegistered` and, with what `socket_clean` has
seen, `AlwaysCleanWaitsBehindReader`. `AlwaysStreamInOrder` needs an invariant of its own:
what was heard, what is in the reader's hands, what `socket_clean` threw away and what
waits in the kernel partition the stream in order, and every step moves a
beginning of one part to the end of another.

Model-checked only:

* liveness (`ClosedIsReleased`, `LoopReturns`, `DisconnectReturns`,
  `TimedCallReturns`): TLAPS has no reasoning about `ENABLED`;
* what happens under a hazard that a theorem excludes: the runs that allow it explore
  it (section 3), and the theorems that hold for every `Env` cover it.

## 5. Where the code and its own words differ

* **A callback closes its socket** (`zsocket_stale`, `SendsToOpen`). The write
  event was taken before `read_cb` ran: `assert((s->state & ZS_S_EOF) == 0)`,
  `zsocket.c:376`, fails.
* **`recv` fails** (`zsocket_recv`, `ReceivesEnabled`). `state &= ZS_S_READ_FAILED`
  clears READ_ENABLE while the descriptor stays watched; the next event fails
  the assertion of `zsocket.c:330`.
* **`tick = 0`** (`zsocket_tick`, `ZeroDisablesTimeout`). The header says that 0
  disables the timeout; `zsocket_do_close` has no such case and closes the
  connection at once.
* **`close_cb`** (`zsocket_close_cb`, `CloseCbRuns`). `__zsocket_close` clears the
  pointer before `zsocket_do_close` tests it: the callback never runs.
* **`serial_open` twice at once** (`serial_race`, `OpensOnlyWhenClosed`).
  `opencount` is read outside the mutex, both threads open the device and one
  descriptor is lost.

Not among the runs, but visible in the models:

* `socket_read_all` never returns once the stream has ended: `recv()` gives 0, which
  the loop adds for ever (`socket_cli.c:192`), while `socket_public.h:53` names two ways
  of returning, a full buffer and a timeout. `TimedCallReturns` without its second
  disjunct fails on it.
* `__disconnect_tcp` resets `socket_id` and not `t_id` (`socket_cli.c:264-276`). An
  asynchronous client that disconnects without having registered a callback on this
  connection, or after a failed `connect()`, passes `pthread_join` an id that nobody set; and
  if it has registered one on an earlier connection, the id of the thread joined then, a
  second time (connect, register, disconnect, connect, disconnect). `JoinsRegistered` says
  that these are the only ways.
* A failed `connect()` keeps its descriptor in `socket_id`, and the next attempt
  overwrites it (`socket_cli.c:95,107`): it is lost. `NoConnectionLost` is about the sockets
  that are connected or connecting.
* A second `socket_register_notify` starts a second reader and forgets the first
  (`socket_cli.c:350`): no disconnect joins it, and it may use the client after it is freed.
  `ReaderWithinConnection` and `StreamInOrder` are about threads that are not forgotten.
* A server told to listen on port 0 keeps that 0 in `laddr` (`zsocket.c:199`), and its connections
  have the port `getsockname()` gives (`zsocket.c:239-245`): the cascade of
  `__zsocket_close` (`zsocket.c:84`) finds none of them, and they outlive their server,
  whereas it closes every other server on port 0. `NoOrphan` without its condition
  on the port fails on it.
* `find_serial` walks the list without `g_mangers` in every call but `serial_new` and
  `serial_destory` (`serial_port.c:158` and so on). A walker's reference keeps its own port
  alive and not the ones it passes: while it stands on the port of another device, the last
  holder of that one may free it, and the walk goes on in freed memory, where `list.h` has
  put the poison to be found by (`list.h:9-11`). `Walk` ends in `fault` there, which the run
  `serial` reaches with two threads that use two devices and break no rule.
* Two threads that close a shared port at once can both find `opencount` 0 and both call
  `close()` (`serial_port.c:240`), the second of a descriptor that may be another file's by
  then; beside an open, a close can close what the open has just counted. With
  `open_race`, `NoDescriptorLost` and `OpenMatchesDevice` fail on it.
* `unix_serial_clean_buffer` and its Windows twin flush without a look at `is_open` or the
  descriptor (`serial_unix.c:270-275`): on a closed port this is a flush of -1. With `io_race`
  it can be that of a descriptor just closed: `IoOnOpenDevice` fails.
* A thread that has locked a port (`serial_lock`) and calls `serial_open`, `serial_close` or a
  `serial_new` or `serial_destory` of it waits for itself, the last two inside
  `g_mangers` (`serial_port.c:258`). With `held_calls`, `NoDeadlock` fails on it.
* A connection that a callback has closed and whose timeout has expired by then, or is
  switched off (tick 0), is closed and counted a second time by the sweep, for the mask of
  `zsocket.c:451` erases EOF: `StatusExact` fails with `idle` or `no_timeout`.
* `socket_clean` does not return once the stream has ended: `select()` reports the end
  as readable and `recv()` takes nothing.
* When the driver fails to close (`close_fail`), `opencount` is 0 and the descriptor
  stays: `OpenMatchesDevice` fails on both drivers, and destroying such a port
  loses the descriptor. `IoOnOpenDevice` holds all the same.

The other hazards of `ZSocket`'s `Env` lead to further ends of the program, all
assertions: a failing `accept` (`zsocket.c:76`), a server closed between loops with
connections (`zsocket.c:83`), two servers on one port (`zsocket.c:109`). So does memory: a
read buffer that cannot grow closes the socket (`zsocket.c:368`) while its write
event is still to be handled (`zsocket.c:376`).

## 6. Not modelled

* The termios and DCB settings, and the bytes of the serial line: I/O and parameter
  conversion.
* The `hlist` half of `list.h` and the traversal macros without a caller: nothing in
  the repository uses them. `ZSocket` keeps its list as a sequence (the proofs about
  it are about sequences); the poisoned links of `list_del` appear there as the
  wild pointer of `CascadeAborts`.
* `sdata` of `zsocket` and `user_data`: pointers the library stores and returns.
* In `socket_cli`: callbacks that call the client they are called by, error codes,
  `pthread_create` that fails (the code does not look).
* Descriptors from FD_SETSIZE on, sizes that overflow `size << 1`, and the
  `int` of `qbuf_read`: beyond any size the checks reach, and the code does not
  test for them.
* Tests and build files.

## 7. Plan

Done, in this order: `QBuf` and `QBufMachine` with their proofs (everything
else uses the buffer), `ZSocket` (the core of the library) with the invariants
proved, `SerialPort` with its refinement, `SocketCli`, `LinkedList` with its
proofs and `SerialPort` on top of it, `SocketLife`, the proofs about `SerialPort` and
`SocketCli`, the rest of the proofs about `ZSocket` and its refinement.

All the safety properties and refinements of the passing runs are theorems. What is left
is to weaken their assumptions: the tick of one connection, say, matters to `StatusExact`
only if the connection is closed before the sweep comes to it.
