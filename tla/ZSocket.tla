------------------------------- MODULE ZSocket -------------------------------
(***************************************************************************)
(* The event loop of zsocket.c: one thread, a list of sockets, the two fd  *)
(* sets that select() watches and the callbacks it delivers.               *)
(*                                                                         *)
(* The application runs at pc = "app", between two calls of zsocket_loop,  *)
(* and inside the callbacks ("conn_cb", "read_cb"); it may call the        *)
(* interface in each of them.  Every other value of pc is a point of       *)
(* zsocket_loop or of zsocket_close:                                       *)
(*                                                                         *)
(*   recv -> (conn_cb | read_cb) -> send -> next -> recv ...  zsocket_poll *)
(*   sweep -> reap -> cascade -> release -> sweep ...     zsocket_do_close *)
(*   halt                               a failed assert or a wild pointer  *)
(*                                                                         *)
(* Env switches on what may go wrong, in the kernel and in the application;*)
(* a check names the hazards it allows.                                    *)
(***************************************************************************)
EXTENDS QBuf, Integers, Sequences, SequencesExt, FiniteSets

CONSTANTS User,        (* struct zsocket owned by the application           *)
          Heap,        (* struct zsocket that zsocket_accept allocates      *)
          NoSock,      (* no socket: the list head, a NULL pointer          *)
          Fd,          (* file descriptors                                  *)
          Port,        (* what a server asks for: a port, or 0 for any      *)
          BufSize,     (* READ_BUF_SIZE and WRITE_BUF_SIZE                  *)
          MaxBuf,      (* the largest buffer (a bound: see Grows)           *)
          MaxWrite,    (* the longest zsocket_write (a bound)               *)
          CloseCb,     (* whether zsocket_close is given a callback         *)
          MaxOpen,     (* how often a socket is opened (a bound)            *)
          Env          (* the hazards a check allows                        *)

Hazard == {
  "recv_fail",      (* recv() returns -1                                    *)
  "send_fail",      (* send() returns -1                                    *)
  "accept_fail",    (* accept() returns -1                                  *)
  "alloc_fail",     (* calloc() or realloc() returns NULL                   *)
  "select_fail",    (* select() returns -1                                  *)
  "idle",           (* a connection is silent for its stall interval        *)
  "sparse_fds",     (* other files of the process leave any descriptor free *)
  "port_sharing",   (* two servers listen with one port: of two addresses,  *)
                    (* or both on port 0                                    *)
  "stale_close",    (* a callback closes or stops a socket that the current *)
                    (* select() reported and the loop has not reached       *)
  "server_close",   (* a server with connections is closed between loops    *)
  "conn_close",     (* a connection is closed between loops                 *)
  "no_timeout" }    (* the application stores 0 in tick                     *)

Sock == User \cup Heap
NoFd == -1
NoPort == 0      (* that of a server that lets the system choose, too       *)
Assigned == -1   (* a port the system has chosen: no server is asked for it *)
NoBuf == [size |-> 0, in |-> 0, out |-> 0]

ASSUME ZSocketAssumption ==
  /\ User \cap Heap = {}
  /\ NoSock \notin Sock
  /\ Fd \subseteq Nat /\ IsFiniteSet(Fd)
  /\ Port \subseteq Nat
  /\ BufSize \in Nat \ {0}
  /\ MaxBuf \in Nat
  /\ MaxWrite \in Nat
  /\ MaxOpen \in Nat
  /\ CloseCb \subseteq BOOLEAN
  /\ Env \subseteq Hazard

VARIABLES
  sk,          (* struct zsocket, for every socket                          *)
  heap,        (* the sockets of Heap that are allocated                    *)
  socks,       (* the list, first element first                             *)
  watch,       (* __fds_read, nfds_read, __fds_write, nfds_write            *)
  status,      (* __status                                                  *)
  in_looping,
  pc,
  cursor, nxt, (* pos and n of the list loops                               *)
  peer,        (* pos of the list loop in __zsocket_close                   *)
  sel,         (* what select() returned, less the events already handled   *)
  fault,       (* the assertion that stopped the program                    *)
  notified     (* the sockets whose close_cb has run                        *)

vars == <<sk, heap, socks, watch, status, in_looping, pc, cursor, nxt, peer,
          sel, fault, notified>>

(* What the steps that only move through the loop leave alone, and what no *)
(* call of the interface but zsocket_close touches.                        *)
data == <<sk, heap, socks, watch, status, in_looping, fault, notified>>
control == <<in_looping, pc, cursor, nxt, peer, sel, fault>>

Type == {"none", "client", "server", "connection"}
Flag == {"EOF", "TIMEOUT", "READ_ENABLE", "WRITE_ENABLE", "READ_FAILED",
         "WRITE_FAILED", "RBUF_RUNOUT", "WBUF_RUNOUT"}
Counter == {"total", "current", "closed", "client", "server", "connection"}

(* zsocket_init.  read_cb and connection_cb are not modelled: they are set *)
(* exactly when the descriptor is put in the read set, and called then.    *)
Fresh == [fd |-> NoFd, type |-> "none", state |-> {}, tick |-> "zero",
          port |-> NoPort, rbuf |-> NoBuf, wbuf |-> NoBuf, close_cb |-> FALSE]

-----------------------------------------------------------------------------
(* Helpers                                                                 *)

Listed == ToSet(socks)
Eof(s) == "EOF" \in sk[s].state
IsOpen(s) == sk[s].fd # NoFd
OpenFds == {sk[s].fd : s \in {t \in Sock : IsOpen(t)}}

(* The system hands out the lowest descriptor the process does not use.    *)
FreeFds ==
  {f \in Fd \ OpenFds : "sparse_fds" \in Env \/ \A g \in Fd \ OpenFds : f <= g}

(* The sockets the application may pass to the interface: it has opened    *)
(* them and zsocket_iseof does not say they are closed.                    *)
Usable(s) == IsOpen(s) /\ ~Eof(s)

(* The list: its first element, the one after s, and the rest without s.   *)
First(list) == IF list = <<>> THEN NoSock ELSE Head(list)
Index(s) == CHOOSE i \in DOMAIN socks : socks[i] = s
After(s) == IF Index(s) = Len(socks) THEN NoSock ELSE socks[Index(s) + 1]
(* Variant: the socket is not taken off the list. *)
WithoutNone(s) == socks

Without(s) == RemoveAt(socks, Index(s))

(* Variant: the count of the type is not taken back. *)
UncountedInAll(t) == [status EXCEPT !["closed"] = @ + 1, !["current"] = @ - 1]

Counted(t)   == [status EXCEPT !["total"] = @ + 1, !["current"] = @ + 1, ![t] = @ + 1]
Uncounted(t) == [status EXCEPT !["closed"] = @ + 1, !["current"] = @ - 1, ![t] = @ - 1]

(* Variants: the bound follows the last descriptor; it drops on every close. *)
RaisedAlways(n, f) == f + 1
LoweredAlways(n, f) == n - 1

Raised(n, f)  == IF n < f + 1 THEN f + 1 ELSE n
Lowered(n, f) == IF n = f + 1 THEN n - 1 ELSE n

WatchRead(f)   == [watch EXCEPT !.read = @ \cup {f}, !.nread = Raised(@, f)]
UnwatchRead(f) == [watch EXCEPT !.read = @ \ {f}, !.nread = Lowered(@, f)]
WatchWrite(f)  == [watch EXCEPT !.write = @ \cup {f}, !.nwrite = Raised(@, f)]
(* Variant: closing forgets the set of descriptors watched for writing.    *)
UnwatchNoWrite(f) == [watch EXCEPT !.read = @ \ {f}, !.nread = Lowered(@, f)]

Unwatch(f)     == [read |-> watch.read \ {f}, nread |-> Lowered(watch.nread, f),
                   write |-> watch.write \ {f}, nwrite |-> Lowered(watch.nwrite, f)]

(* Whether a buffer can be given n bytes.  MaxBuf bounds the model: beyond *)
(* it memory runs out, or the application does not let it come to that.    *)
Grows(n) == (IF n <= MaxBuf THEN {TRUE} ELSE {})
            \cup (IF "alloc_fail" \in Env THEN {FALSE} ELSE {})

(* A failed assertion, named by its line, stops the program. *)
Abort(line) ==
  /\ pc' = "halt" /\ fault' = line
  /\ UNCHANGED <<sk, heap, socks, watch, status, in_looping, cursor, nxt, peer,
                 sel, notified>>

(* state &= flag, where state |= flag was meant. *)
Masked(s, flag) == [sk[s] EXCEPT !.state = @ \cap {flag}]

(* zsocket_close up to its last statement, on socket s whose fields are    *)
(* those of r by then.                                                     *)
MarkEof(s, r, cb) ==
  /\ sk' = [sk EXCEPT ![s] = [r EXCEPT !.state = @ \cup {"EOF"}, !.close_cb = cb]]
  /\ watch' = Unwatch(r.fd)
  /\ status' = Uncounted(r.type)

-----------------------------------------------------------------------------

Init ==
  /\ sk = [s \in Sock |-> Fresh]
  /\ heap = {} /\ socks = <<>>
  /\ watch = [read |-> {}, nread |-> 0, write |-> {}, nwrite |-> 0]
  /\ status = [c \in Counter |-> 0]
  /\ in_looping = FALSE
  /\ pc = "app" /\ cursor = NoSock /\ nxt = NoSock /\ peer = NoSock
  /\ sel = [read |-> {}, write |-> {}, left |-> 0, handled |-> FALSE]
  /\ fault = "none" /\ notified = {}

-----------------------------------------------------------------------------
(* The interface, called by the application.                               *)

InApp == pc \in {"app", "conn_cb", "read_cb"}

(* zsocket_init of a socket that has been closed, to use it again. *)
Reinit(s) ==
  /\ InApp
  /\ sk[s].type # "none" /\ ~IsOpen(s) /\ s \notin Listed
  /\ sk' = [sk EXCEPT ![s] = Fresh]
  /\ notified' = notified \ {s}
  /\ UNCHANGED <<control, heap, socks, watch, status>>

(* A socket gets its descriptor and goes to the head of the list. *)
Open(s, f, t, clock, p, flags) ==
  /\ sk[s].type = "none"
  /\ f \in FreeFds
  /\ status["total"] < MaxOpen
  /\ sk' = [sk EXCEPT ![s] = [Fresh EXCEPT !.fd = f, !.type = t, !.tick = clock,
                                           !.port = p, !.state = flags]]
  /\ socks' = <<s>> \o socks
  /\ status' = Counted(t)
  /\ UNCHANGED <<control, notified>>

(* getsockname(): the system has chosen a client's own port.  A failing    *)
(* socket() or connect() returns -1 and changes nothing.                   *)
Connect(s, f) ==
  /\ InApp
  /\ Open(s, f, "client", "fresh", Assigned, {})
  /\ UNCHANGED <<heap, watch>>

(* bind() refuses a port that an open socket has, unless it is the port of *)
(* another address, or port 0 (port_sharing).                              *)
CanBind(p) == "port_sharing" \in Env \/ \A s \in Sock : IsOpen(s) => sk[s].port # p

ListenOn(s, f, p) ==
  /\ InApp /\ CanBind(p)
  /\ Open(s, f, "server", "zero", p, {"READ_ENABLE"})
  /\ watch' = WatchRead(f)
  /\ UNCHANGED heap

(* getsockname() of a connection to a server that was opened with port p.  *)
(* The server itself keeps what it asked for.                              *)
LocalPort(p) == IF p = NoPort THEN Assigned ELSE p

(* In connection_cb; the allocation is one of the free elements of Heap.   *)
Accept(c, f) ==
  /\ pc = "conn_cb" /\ Usable(cursor) /\ c \notin heap
  /\ Open(c, f, "connection", "fresh", LocalPort(sk[cursor].port), {})
  /\ heap' = heap \cup {c}
  /\ UNCHANGED watch

(* When accept() fails, __zsocket_close is given a socket that is not EOF. *)
AcceptFails ==
  /\ "accept_fail" \in Env
  /\ pc = "conn_cb" /\ Usable(cursor)
  /\ Abort("zsocket.c:76")

(* The application knows what it started to read; the flag may not.        *)
ReadStart(s) ==
  /\ InApp /\ Usable(s) /\ sk[s].fd \notin watch.read
  /\ IF "READ_ENABLE" \in sk[s].state THEN Abort("zsocket.c:284") ELSE
     /\ sk' = [sk EXCEPT ![s].state = @ \cup {"READ_ENABLE"}]
     /\ watch' = WatchRead(sk[s].fd)
     /\ UNCHANGED <<control, heap, socks, status, notified>>

ReadStop(s) ==
  /\ InApp /\ Usable(s) /\ sk[s].fd \in watch.read
  /\ "stale_close" \in Env \/ sk[s].fd \notin sel.read
  /\ IF "READ_ENABLE" \notin sk[s].state THEN Abort("zsocket.c:297") ELSE
     /\ sk' = [sk EXCEPT ![s].state = @ \ {"READ_ENABLE"}]
     /\ watch' = UnwatchRead(sk[s].fd)
     /\ UNCHANGED <<control, heap, socks, status, notified>>

(* What qbuf_write can make of buffer b, given n bytes. *)
Enqueued(b, n) ==
  {Written(b, n, ok) : ok \in IF MustGrow(b, n) THEN Grows(GrownSize(b, n)) ELSE {TRUE}}

(* The first write allocates the buffer; when that fails nothing changes.  *)
FirstWrite(s, n) ==
  /\ InApp /\ Usable(s) /\ sk[s].type # "server"
  /\ "WRITE_ENABLE" \notin sk[s].state
  /\ IF sk[s].wbuf # NoBuf THEN Abort("zsocket.c:312") ELSE
     /\ \E b \in Enqueued(New(BufSize), n) :
          sk' = [sk EXCEPT ![s].state = @ \cup {"WRITE_ENABLE"}, ![s].wbuf = b]
     /\ watch' = WatchWrite(sk[s].fd)
     /\ UNCHANGED <<control, heap, socks, status, notified>>

NextWrite(s, n) ==
  /\ InApp /\ Usable(s)
  /\ "WRITE_ENABLE" \in sk[s].state
  /\ \E b \in Enqueued(sk[s].wbuf, n) : sk' = [sk EXCEPT ![s].wbuf = b]
  /\ UNCHANGED <<control, heap, socks, watch, status, notified>>

(* zsocket_close: inside the loop the sweep releases the socket, outside   *)
(* it the call itself goes on to __zsocket_close.                          *)
Close(s, cb) ==
  /\ InApp /\ Usable(s)
  /\ "stale_close" \in Env \/ sk[s].fd \notin sel.read \cup sel.write
  /\ \/ in_looping
     \/ sk[s].type = "client"
     \/ sk[s].type = "connection" /\ "conn_close" \in Env
     \/ /\ sk[s].type = "server"
        /\ \/ "server_close" \in Env
           \/ \A t \in Listed \ {s} : sk[t].port # sk[s].port
  /\ MarkEof(s, sk[s], cb)
  /\ IF in_looping THEN UNCHANGED <<pc, cursor>> ELSE pc' = "reap" /\ cursor' = s
  /\ UNCHANGED <<heap, socks, in_looping, nxt, peer, sel, fault, notified>>

(* The documented way to exempt a connection from the stall timeout. *)
DisableTimeout(c) ==
  /\ "no_timeout" \in Env
  /\ InApp /\ Usable(c) /\ sk[c].type = "connection"
  /\ sk' = [sk EXCEPT ![c].tick = "zero"]
  /\ UNCHANGED <<control, heap, socks, watch, status, notified>>

AppCall ==
  \/ \E s \in User : Reinit(s)
  \/ \E s \in User, f \in Fd : Connect(s, f)
  \/ \E s \in User, f \in Fd, p \in Port : ListenOn(s, f, p)
  \/ \E c \in Heap, f \in Fd : Accept(c, f)
  \/ AcceptFails
  \/ \E s \in Sock : ReadStart(s)
  \/ \E s \in Sock : ReadStop(s)
  \/ \E s \in Sock, n \in 1..MaxWrite : FirstWrite(s, n)
  \/ \E s \in Sock, n \in 1..MaxWrite : NextWrite(s, n)
  \/ \E s \in Sock, cb \in CloseCb : Close(s, cb)
  \/ \E c \in Heap : DisableTimeout(c)

-----------------------------------------------------------------------------
(* zsocket_poll                                                            *)

NFds == IF watch.nread > watch.nwrite THEN watch.nread ELSE watch.nwrite

(* select() looks at the descriptors below nfds, and wants them open. *)
Below(set) == {f \in set : f < NFds}
BadFd == ~(Below(watch.read \cup watch.write) \subseteq OpenFds)

(* Time passes while select() blocks, and only there: callbacks are quick  *)
(* compared with the stall interval.                                       *)
Silent == IF "idle" \in Env
          THEN {c \in heap : IsOpen(c) /\ sk[c].tick = "fresh"} ELSE {}

EnterLoop(late) ==
  /\ pc = "app"
  /\ in_looping' = TRUE
  /\ sk' = [s \in Sock |-> IF s \in late THEN [sk[s] EXCEPT !.tick = "expired"] ELSE sk[s]]
  /\ UNCHANGED <<heap, socks, watch, status, nxt, peer, fault, notified>>

SelectReady(R, W, late) ==
  /\ EnterLoop(late)
  /\ ~BadFd /\ R \cup W # {}
  /\ sel' = [read |-> R, write |-> W, handled |-> FALSE,
             left |-> Cardinality(R) + Cardinality(W)]
  /\ pc' = "recv" /\ cursor' = First(socks)

(* The timeout of zsocket_loop expires, or a signal interrupts select().   *)
SelectNothing(late) ==
  /\ EnterLoop(late)
  /\ ~BadFd
  /\ pc' = "sweep" /\ cursor' = First(socks)
  /\ UNCHANGED sel

(* zsocket_loop returns -1 and leaves in_looping set. *)
SelectFails ==
  /\ "select_fail" \in Env \/ BadFd
  /\ EnterLoop({})
  /\ UNCHANGED <<pc, cursor, sel>>

CanRecv == pc = "recv" /\ cursor # NoSock /\ sk[cursor].fd \in sel.read
CanSend == pc = "send" /\ sk[cursor].fd \in sel.write

ScanEnds ==
  /\ pc = "recv" /\ cursor = NoSock
  /\ pc' = "sweep" /\ cursor' = First(socks)
  /\ UNCHANGED <<data, nxt, peer, sel>>

(* Variant: handled is not reset for each socket. *)
NotReadableNoReset ==
  /\ pc = "recv" /\ cursor # NoSock /\ ~CanRecv
  /\ pc' = "send"
  /\ UNCHANGED <<data, cursor, nxt, peer, sel>>

NotReadable ==
  /\ pc = "recv" /\ cursor # NoSock /\ ~CanRecv
  /\ pc' = "send" /\ sel' = [sel EXCEPT !.handled = FALSE]
  /\ UNCHANGED <<data, cursor, nxt, peer>>

(* The assertions at the head of zsocket_handle_recv. *)
RecvAborts ==
  /\ CanRecv
  /\ \/ Eof(cursor) /\ Abort("zsocket.c:329")
     \/ ~Eof(cursor) /\ "READ_ENABLE" \notin sk[cursor].state /\ Abort("zsocket.c:330")

(* What every path through zsocket_handle_recv shares. *)
Recv(next) ==
  /\ CanRecv /\ ~Eof(cursor) /\ "READ_ENABLE" \in sk[cursor].state
  /\ sel' = [sel EXCEPT !.read = @ \ {sk[cursor].fd}, !.handled = TRUE]
  /\ pc' = next
  /\ UNCHANGED <<heap, socks, watch, status, in_looping, cursor, nxt, peer,
                 fault, notified>>

RecvServer == Recv("conn_cb") /\ sk[cursor].type = "server" /\ UNCHANGED sk

(* The read buffer cannot be allocated: the data waits for the next loop.  *)
RecvNoBuffer ==
  /\ "alloc_fail" \in Env
  /\ Recv("send")
  /\ sk[cursor].type # "server" /\ sk[cursor].rbuf = NoBuf
  /\ UNCHANGED sk

(* recv() is given the spare room and returns n bytes, 0 or -1.  The       *)
(* callback is then called with what the buffer holds.                     *)
RecvData(n) ==
  LET b == IF sk[cursor].rbuf = NoBuf THEN New(BufSize) ELSE sk[cursor].rbuf
      r == IF n = -1 THEN Masked(cursor, "READ_FAILED") ELSE sk[cursor]
  IN  /\ Recv("read_cb")
      /\ sk[cursor].type # "server"
      /\ \/ n \in 0..Spare(b)
         \/ n = -1 /\ "recv_fail" \in Env
      /\ sk' = [sk EXCEPT ![cursor] =
                  [r EXCEPT !.rbuf = IF n > 0 THEN OffsetInHead(b, n) ELSE b,
                            !.tick = "fresh"]]

ConnCbReturns == pc = "conn_cb" /\ pc' = "send" /\ UNCHANGED <<data, cursor, nxt, peer, sel>>

(* read_cb returns n, which may exceed what it was given.  A buffer still  *)
(* full is doubled; when that fails the socket is closed, once more if the *)
(* callback has closed it: the mask has removed the flag that would tell.  *)
AfterRead(b, n) ==
  IF Readable(b, n) = 0 THEN b ELSE Collect(OffsetOutHead(b, n), {"LESS_SPARE"})

(* Variant: a buffer the callback left full is not doubled. *)
ReadCbKeepsFull(n) ==
  /\ pc = "read_cb"
  /\ n \in 0..Used(sk[cursor].rbuf) + 1
  /\ pc' = "send"
  /\ sk' = [sk EXCEPT ![cursor].rbuf = AfterRead(@, n)]
  /\ UNCHANGED <<heap, socks, watch, status, in_looping, cursor, nxt, peer, sel,
                 fault, notified>>

ReadCbReturns(n) ==
  LET b == AfterRead(sk[cursor].rbuf, n)
  IN  /\ pc = "read_cb"
      /\ n \in 0..Used(sk[cursor].rbuf) + 1
      /\ pc' = "send"
      /\ \/ /\ Spare(b) > 0
            /\ sk' = [sk EXCEPT ![cursor].rbuf = b]
            /\ UNCHANGED <<watch, status>>
         \/ /\ Spare(b) = 0 /\ TRUE \in Grows(b.size * 2)
            /\ sk' = [sk EXCEPT ![cursor].rbuf = Realloc(b, b.size * 2, TRUE)]
            /\ UNCHANGED <<watch, status>>
         \/ /\ Spare(b) = 0 /\ FALSE \in Grows(b.size * 2)
            /\ MarkEof(cursor, [Masked(cursor, "RBUF_RUNOUT") EXCEPT !.rbuf = b], FALSE)
      /\ UNCHANGED <<heap, socks, in_looping, cursor, nxt, peer, sel, fault, notified>>

NotWritable ==
  /\ pc = "send" /\ ~CanSend
  /\ pc' = "next"
  /\ UNCHANGED <<data, cursor, nxt, peer, sel>>

(* The assertions at the head of zsocket_handle_send. *)
SendAborts ==
  /\ CanSend
  /\ \/ Eof(cursor) /\ Abort("zsocket.c:376")
     \/ ~Eof(cursor) /\ "WRITE_ENABLE" \notin sk[cursor].state /\ Abort("zsocket.c:377")

(* What every path through zsocket_handle_send shares. *)
Send ==
  /\ CanSend /\ ~Eof(cursor) /\ "WRITE_ENABLE" \in sk[cursor].state
  /\ sel' = [sel EXCEPT !.write = @ \ {sk[cursor].fd}, !.handled = TRUE]
  /\ pc' = "next"
  /\ UNCHANGED <<heap, socks, in_looping, cursor, nxt, peer, fault, notified>>

SendNothing == Send /\ Used(sk[cursor].wbuf) = 0 /\ UNCHANGED <<sk, watch, status>>

SendFails ==
  /\ "send_fail" \in Env
  /\ Send
  /\ Used(sk[cursor].wbuf) > 0
  /\ MarkEof(cursor, Masked(cursor, "WRITE_FAILED"), FALSE)

SendData(n) ==
  LET b == Collect(OffsetOutHead(sk[cursor].wbuf, n), {"LESS_SPARE"})
  IN  /\ Send
      /\ n \in 1..Used(sk[cursor].wbuf)
      /\ IF Spare(b) > 0
         THEN sk' = [sk EXCEPT ![cursor].wbuf = b] /\ UNCHANGED <<watch, status>>
         ELSE MarkEof(cursor, [Masked(cursor, "WBUF_RUNOUT") EXCEPT !.wbuf = b], FALSE)

(* The loop ends early once as many sockets were handled as select() found *)
(* events; a socket with two events counts once.                           *)
NextSocket ==
  LET left == IF sel.handled THEN sel.left - 1 ELSE sel.left
  IN  /\ pc = "next"
      /\ sel' = [sel EXCEPT !.left = left]
      /\ IF sel.handled /\ left = 0
         THEN pc' = "sweep" /\ cursor' = First(socks)
         ELSE pc' = "recv" /\ cursor' = After(cursor)
      /\ UNCHANGED <<data, nxt, peer>>

-----------------------------------------------------------------------------
(* zsocket_do_close and __zsocket_close                                    *)

TimedOut(s) == sk[s].type = "connection" /\ sk[s].tick # "fresh"
Sweeping == pc = "sweep" /\ cursor # NoSock

SweepEnds ==
  /\ pc = "sweep" /\ cursor = NoSock
  /\ pc' = "app" /\ in_looping' = FALSE
  /\ UNCHANGED <<sk, heap, socks, watch, status, cursor, nxt, peer, sel, fault, notified>>

(* The mask forgets an EOF, so a closed socket can be closed again. *)
SweepTimeout ==
  /\ Sweeping /\ TimedOut(cursor)
  /\ MarkEof(cursor, Masked(cursor, "TIMEOUT"), FALSE)
  /\ pc' = "reap"
  /\ UNCHANGED <<heap, socks, in_looping, cursor, nxt, peer, sel, fault, notified>>

(* Variant: only connections are swept. *)
SweepConnections ==
  /\ Sweeping /\ ~TimedOut(cursor)
  /\ IF Eof(cursor) /\ sk[cursor].type = "connection"
     THEN pc' = "reap" /\ UNCHANGED cursor
     ELSE cursor' = After(cursor) /\ UNCHANGED pc
  /\ UNCHANGED <<data, nxt, peer, sel>>

(* Variant: the sweep does not recognise the head of the circular list.    *)
SweepInACircle ==
  /\ Sweeping /\ ~TimedOut(cursor)
  /\ IF Eof(cursor) THEN pc' = "reap" /\ UNCHANGED cursor
     ELSE /\ cursor' = IF After(cursor) = NoSock THEN First(socks) ELSE After(cursor)
          /\ UNCHANGED pc
  /\ UNCHANGED <<data, nxt, peer, sel>>

SweepOthers ==
  /\ Sweeping /\ ~TimedOut(cursor)
  /\ IF Eof(cursor) THEN pc' = "reap" /\ UNCHANGED cursor
                    ELSE cursor' = After(cursor) /\ UNCHANGED pc
  /\ UNCHANGED <<data, nxt, peer, sel>>

(* Variant: the ports are compared from the closing server on. *)
ReapFromHere ==
  /\ pc = "reap"
  /\ nxt' = IF in_looping THEN After(cursor) ELSE NoSock
  /\ socks' = Without(cursor)
  /\ IF sk[cursor].type = "server"
     THEN pc' = "cascade" /\ peer' = After(cursor)
     ELSE pc' = "release" /\ UNCHANGED peer
  /\ UNCHANGED <<sk, heap, watch, status, in_looping, cursor, sel, fault, notified>>

(* list_del; list_for_each_entry_safe already holds the next socket. *)
Reap ==
  /\ pc = "reap"
  /\ nxt' = IF in_looping THEN After(cursor) ELSE NoSock
  /\ socks' = Without(cursor)
  /\ IF sk[cursor].type = "server"
     THEN pc' = "cascade" /\ peer' = First(socks')
     ELSE pc' = "release" /\ UNCHANGED peer
  /\ UNCHANGED <<sk, heap, watch, status, in_looping, cursor, sel, fault, notified>>

(* A closing server closes the sockets with its port.  Between loops this  *)
(* takes them off the list that is being traversed, whose links then lead  *)
(* to LIST_POISON1.                                                        *)
SamePort == pc = "cascade" /\ peer # NoSock /\ sk[peer].port = sk[cursor].port

CascadeMoves ==
  /\ pc = "cascade" /\ ~SamePort
  /\ IF peer = NoSock THEN pc' = "release" /\ UNCHANGED peer
                      ELSE peer' = After(peer) /\ UNCHANGED pc
  /\ UNCHANGED <<data, cursor, nxt, sel>>

(* Variant: a server releases its connections at once. *)
CascadeReleases ==
  /\ SamePort /\ in_looping /\ ~Eof(peer)
  /\ MarkEof(peer, sk[peer], FALSE)
  /\ peer' = After(peer) /\ socks' = Without(peer)
  /\ UNCHANGED <<heap, in_looping, pc, cursor, nxt, sel, fault, notified>>

CascadeCloses ==
  /\ SamePort /\ in_looping /\ ~Eof(peer)
  /\ MarkEof(peer, sk[peer], FALSE)
  /\ peer' = After(peer)
  /\ UNCHANGED <<heap, socks, in_looping, pc, cursor, nxt, sel, fault, notified>>

CascadeAborts ==
  /\ SamePort
  /\ \/ Eof(peer) /\ Abort("zsocket.c:109")
     \/ ~Eof(peer) /\ ~in_looping /\ Abort("zsocket.c:83")

(* Variants: the state is reset with the other fields; the write buffer is *)
(* not deleted.                                                            *)
ReleasedRevived(r) == [Fresh EXCEPT !.type = r.type]
ReleasedHolding(r) == [Fresh EXCEPT !.type = r.type, !.state = {"EOF"}, !.wbuf = r.wbuf]

(* Of a released socket only its being closed is still looked at: the      *)
(* fields __zsocket_close leaves alone are dropped with the others.        *)
Released(r) == [Fresh EXCEPT !.type = r.type, !.state = {"EOF"}]

(* Variant: the sweep does not free a connection. *)
ReleaseNotFreed ==
  LET r == Released(sk[cursor])
  IN  /\ pc = "release"
      /\ sk' = [sk EXCEPT ![cursor] = r]
      /\ notified' = IF in_looping /\ r.close_cb THEN notified \cup {cursor} ELSE notified
      /\ pc' = IF in_looping THEN "sweep" ELSE "app"
      /\ cursor' = nxt /\ nxt' = NoSock
      /\ UNCHANGED <<heap, socks, watch, status, in_looping, peer, sel, fault>>

(* The rest of __zsocket_close.  It resets close_cb before zsocket_do_close*)
(* tests it; a connection is freed by the sweep, and by nothing else.      *)
Release ==
  LET freed == in_looping /\ sk[cursor].type = "connection"
      r == Released(sk[cursor])
  IN  /\ pc = "release"
      /\ sk' = [sk EXCEPT ![cursor] = IF freed THEN Fresh ELSE r]
      /\ heap' = IF freed THEN heap \ {cursor} ELSE heap
      /\ notified' = IF in_looping /\ r.close_cb THEN notified \cup {cursor} ELSE notified
      /\ pc' = IF in_looping THEN "sweep" ELSE "app"
      /\ cursor' = nxt /\ nxt' = NoSock
      /\ UNCHANGED <<socks, watch, status, in_looping, peer, sel, fault>>

-----------------------------------------------------------------------------

CallLoop ==
  \/ \E R \in SUBSET Below(watch.read), W \in SUBSET Below(watch.write),
        late \in SUBSET Silent : SelectReady(R, W, late)
  \/ \E late \in SUBSET Silent : SelectNothing(late)
  \/ SelectFails

CallbackReturns == ConnCbReturns \/ \E n \in 0..MaxBuf + 1 : ReadCbReturns(n)

Poll ==
  \/ ScanEnds \/ NotReadable \/ RecvAborts \/ RecvServer \/ RecvNoBuffer
  \/ \E n \in -1..MaxBuf : RecvData(n)
  \/ NotWritable \/ SendAborts \/ SendNothing \/ SendFails
  \/ \E n \in 1..MaxBuf : SendData(n)
  \/ NextSocket

Sweep ==
  \/ SweepEnds \/ SweepTimeout \/ SweepOthers
  \/ Reap \/ CascadeMoves \/ CascadeCloses \/ CascadeAborts \/ Release

Next == AppCall \/ CallLoop \/ CallbackReturns \/ Poll \/ Sweep

(* The application goes on calling zsocket_loop and its callbacks return.  *)
Fairness == WF_vars(CallLoop) /\ WF_vars(CallbackReturns) /\ WF_vars(Poll \/ Sweep)

Spec == Init /\ [][Next]_vars
FairSpec == Spec /\ Fairness

-----------------------------------------------------------------------------
(* Properties that hold whatever goes wrong                                *)

BufferOrNone == Buffer \cup {NoBuf}
Place == {"app", "recv", "conn_cb", "read_cb", "send", "next", "sweep", "reap",
          "cascade", "release", "halt"}

Socket == [fd : Fd \cup {NoFd}, type : Type, state : SUBSET Flag,
           tick : {"zero", "fresh", "expired"}, port : Port \cup {NoPort, Assigned},
           rbuf : BufferOrNone, wbuf : BufferOrNone, close_cb : BOOLEAN]
Watch == [read : SUBSET Fd, nread : Nat, write : SUBSET Fd, nwrite : Nat]
Selected == [read : SUBSET Fd, write : SUBSET Fd, left : Int, handled : BOOLEAN]

(* Every variable has its type. *)
TypeOK ==
  /\ sk \in [Sock -> Socket]
  /\ heap \subseteq Heap
  /\ socks \in Seq(Sock)
  /\ watch \in Watch
  /\ status \in [Counter -> Int]
  /\ in_looping \in BOOLEAN
  /\ pc \in Place
  /\ {cursor, nxt, peer} \subseteq Sock \cup {NoSock}
  /\ sel \in Selected
  /\ notified \subseteq Sock

(* select() never watches a descriptor that is closed, or that a closing   *)
(* socket still holds: every watched one belongs to a usable socket, and   *)
(* no descriptor belongs to two (zsocket_close, __zsocket_close).          *)
WatchedAreUsable ==
  /\ \A f \in watch.read \cup watch.write : \E s \in Sock : sk[s].fd = f /\ ~Eof(s)
  /\ \A s, t \in Sock : IsOpen(s) /\ sk[s].fd = sk[t].fd => s = t

(* nfds is above every watched descriptor although closing a socket only   *)
(* ever lowers it by one: select() overlooks none.                         *)
NfdsCovers ==
  /\ \A f \in watch.read : f < watch.nread
  /\ \A f \in watch.write : f < watch.nwrite

(* The list holds each open socket once, except the one __zsocket_close is *)
(* releasing, and nothing else: no freed connection, no closed socket.     *)
Releasing == IF pc \in {"cascade", "release"} THEN {cursor} ELSE {}
ListHoldsOpen ==
  /\ IsInjective(socks)
  /\ pc # "halt" => Listed = {s \in Sock : IsOpen(s)} \ Releasing
  /\ Listed \cap Heap \subseteq heap

(* The list loops and the callbacks they run never hold a socket that left *)
(* the list: what a callback closes stays listed until the sweep, and the  *)
(* sweep takes its next socket before it releases one.                     *)
TraversalSafe ==
  /\ pc \in {"conn_cb", "read_cb", "send", "next"} => cursor \in Listed
  /\ pc = "reap" => cursor \in Listed
  /\ pc \in {"recv", "sweep"} => cursor \in Listed \cup {NoSock}
  /\ pc \in {"cascade", "release"} => nxt \in Listed \cup {NoSock}
  /\ pc = "cascade" => peer \in Listed \cup {NoSock}

(* Ending the scan after as many sockets as select() found events loses no *)
(* event (zsocket_poll, --nfds_selected).                                  *)
NoEventLost == pc \in {"app", "sweep", "reap"} => sel.read = {} /\ sel.write = {}

(* recv() always has room for a byte, so that 0 means the peer is done and *)
(* not that the buffer is full (zsocket_handle_recv).                      *)
RecvHasRoom ==
  pc = "recv" =>
    \A s \in Sock : ~Eof(s) /\ sk[s].rbuf # NoBuf => Spare(sk[s].rbuf) > 0

(* Whoever may write has a buffer (the assertion on line 378), and only an *)
(* open socket owns one: nothing is leaked by closing.                     *)
BuffersOwned ==
  \A s \in Sock :
    /\ "WRITE_ENABLE" \in sk[s].state /\ IsOpen(s) => sk[s].wbuf # NoBuf
    /\ ~IsOpen(s) => sk[s].rbuf = NoBuf /\ sk[s].wbuf = NoBuf

(* A closing server that was given a port takes the connections it accepted*)
(* with it: none stays usable when no server is open on its port           *)
(* (__zsocket_close).  One on port 0 leaves them behind: it compares the 0 *)
(* it asked for with the ports the system gave them.                       *)
NoOrphan ==
  \A c \in Sock : Usable(c) /\ sk[c].type = "connection" /\ sk[c].port # Assigned =>
    \E s \in Sock : IsOpen(s) /\ sk[s].type = "server" /\ sk[s].port = sk[c].port

(* No flag arithmetic revives a closed socket: it stays closed until it is *)
(* initialised or allocated anew.                                          *)
EofIsFinal == [][\A s \in Sock : Eof(s) => Eof(s)' \/ sk'[s] = Fresh]_vars

-----------------------------------------------------------------------------
(* Properties that need a well-behaved kernel or application               *)

(* No assertion fails and no wild pointer is followed. *)
NoAbort == pc # "halt"

(* zsocket_status counts the sockets that are open and not closing, by     *)
(* type, and everything ever opened is current or closed.                  *)
Census(t) == Cardinality({s \in Sock : Usable(s) /\ sk[s].type = t})
StatusExact ==
  /\ \A t \in Type \ {"none"} : status[t] = Census(t)
  /\ status["current"] = Census("client") + Census("server") + Census("connection")
  /\ status["total"] = status["current"] + status["closed"]

(* Every allocated connection is on the list, from which the sweep frees   *)
(* it once it is closed.                                                   *)
NoLeak == heap \subseteq Listed \cup Releasing

(* A connection that was closed between loops, which zsocket_close releases*)
(* and does not free, is the application's to free: it is off the list, it *)
(* owns nothing and no list loop will come back to it.                     *)
MayBeFreed ==
  \A c \in heap \ (Listed \cup Releasing) :
    /\ ~IsOpen(c) /\ sk[c].rbuf = NoBuf /\ sk[c].wbuf = NoBuf
    /\ c \notin {nxt, peer} /\ (pc # "app" => cursor # c)

(* The loop keeps the promise of SocketLife: due are the closing sockets   *)
(* from the cursor of zsocket_do_close on.                                 *)
LifeOf(s) ==
  IF IsOpen(s) THEN IF Eof(s) THEN "closing" ELSE "open"
  ELSE IF sk[s].type = "none" THEN "new" ELSE "closed"
InSweep == pc \in {"sweep", "reap", "cascade", "release"}
Ahead ==
  LET from == IF pc \in {"sweep", "reap"} THEN cursor ELSE nxt
  IN  IF ~in_looping THEN {cursor}
      ELSE {cursor} \cup IF from = NoSock THEN {} ELSE {socks[i] : i \in Index(from)..Len(socks)}
Lives == [s \in Sock |-> LifeOf(s)]
PhaseNow == IF pc = "app" THEN "app" ELSE IF InSweep THEN "sweep" ELSE "scan"
DueNow == IF InSweep THEN {s \in Ahead \ {NoSock} : LifeOf(s) = "closing"} ELSE {}
Contract == INSTANCE SocketLife WITH life <- Lives, phase <- PhaseNow, due <- DueNow
ImplementsSocketLife == Contract!Spec

(* A socket closed in a callback, by an error, a timeout or its server is  *)
(* released, at the latest by the next call of zsocket_loop.               *)
ClosedIsReleased == \A s \in Sock : (IsOpen(s) /\ Eof(s)) ~> ~IsOpen(s)

(* zsocket_loop returns. *)
LoopReturns == (pc # "app") ~> (pc = "app")

-----------------------------------------------------------------------------
(* What the code's comments, assertions and tests say and the code does    *)
(* not do: each is violated.                                               *)

(* "assert((s->state & ZS_S_EOF) == 0)" of zsocket_handle_send. *)
SendsToOpen == fault # "zsocket.c:376"

(* "assert(s->state & ZS_S_READ_ENABLE)" of zsocket_handle_recv. *)
ReceivesEnabled == fault # "zsocket.c:330"

(* A close_cb that was passed to zsocket_close runs when the loop releases *)
(* the socket.                                                             *)
CloseCbRuns ==
  [][pc = "release" /\ pc' = "sweep" /\ sk[cursor].close_cb => cursor \in notified']_vars

(* A tick of 0 disables the timeout. *)
ZeroDisablesTimeout ==
  [][\A s \in Sock : pc = "sweep" /\ Usable(s) /\ sk[s].tick = "zero" => ~Eof(s)']_vars

=============================================================================
