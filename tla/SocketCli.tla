------------------------------ MODULE SocketCli ------------------------------
(***************************************************************************)
(* The TCP client of socket_cli.c: an application thread that makes one    *)
(* call after the other, the task_read threads it has started, the sockets *)
(* of the kernel and the peer at their other end.                          *)
(*                                                                         *)
(* call.pc is where the application's call stands,                         *)
(*                                                                         *)
(*   connect                                              __connect_tcp    *)
(*   select -> recv -> select ...         __read_tcp, __read_tcp_all       *)
(*   send -> send ...                                     __write_tcp      *)
(*   poll -> drop -> poll ...                             __clean_tcp      *)
(*   join -> close                __disconnect_tcp, __destory_tcp          *)
(*                                                                         *)
(* and reader[r].pc where a thread is: test -> enter -> recv -> notify.    *)
(* Bytes are numbered in the order in which the peer sends them.           *)
(***************************************************************************)
EXTENDS Integers, Sequences, SequencesExt, FiniteSets

CONSTANTS Reader,      (* the thread ids pthread_create can give            *)
          Sock,        (* the sockets of the kernel                         *)
          None,        (* INVALID_SOCKET; a thread id that was never set    *)
          Chunk,       (* the size of task_read's buffer                    *)
          Length,      (* the lengths the application asks for              *)
          MaxBytes,    (* the bytes the peer sends (a bound)                *)
          Env

Hazard == {
  "connect_fail",    (* connect() fails                                     *)
  "send_fail",       (* send() fails, or times out after con_timeout        *)
  "reset",           (* the peer resets the connection                      *)
  "second_notify" }  (* a callback is registered twice on one connection    *)

ASSUME SocketCliAssumption ==
  /\ None \notin Reader \cup Sock
  /\ Chunk \in Nat \ {0}
  /\ Length \subseteq Nat \ {0}
  /\ MaxBytes \in Nat
  /\ Env \subseteq Hazard

VARIABLES
  cli,      (* socket_cli_t and socket_data_t                               *)
  sock,     (* the kernel's side of the connections                         *)
  call,     (* the call the application is in                               *)
  reader,   (* the threads that run task_read                               *)
  heard,    (* the bytes of the last connection the application was given   *)
  cleaned,  (* those that socket_clean has thrown away                      *)
  fault     (* undefined behaviour: "freed" memory used, "join" of no thread*)

vars == <<cli, sock, call, reader, heard, cleaned, fault>>

(* No client: before socket_cli_new. *)
NoClient == [alive |-> FALSE, is_connect |-> FALSE, async |-> FALSE,
             socket_id |-> None, t_id |-> None]

(* The client as socket_cli_new makes it; t_id is not set. *)
NewClient(async) == [NoClient EXCEPT !.alive = TRUE, !.async = async]

(* notify records that a callback was registered on the connection.        *)
FreeSock == [state |-> "free", in |-> <<>>, sent |-> 0, end |-> "no", notify |-> FALSE]
NoThread == [pc |-> "none", on |-> None, buf |-> <<>>]
Idle == [pc |-> "idle", op |-> "none", len |-> 0, got |-> 0, timed |-> FALSE]

Running(r) == reader[r].pc \notin {"none", "exited"}

(* A reader that was started and never joined, and whose id is overwritten.*)
Forgotten == {r \in Reader : reader[r].pc # "none" /\ r # cli.t_id}

At(pc) == call.pc = pc /\ fault = "no"
ReaderAt(r, pc) == reader[r].pc = pc /\ fault = "no"
Goto(pc) == call' = [call EXCEPT !.pc = pc]
Return == call' = Idle
ReaderGoto(r, pc) == reader' = [reader EXCEPT ![r] = [NoThread EXCEPT !.pc = pc]]

(* recv() and select() for reading would not block. *)
Ready(f) == sock[f].in # <<>> \/ sock[f].end # "no"

(* What recv() of at most n bytes returns, and what it leaves behind: an    *)
(* error is reported once.                                                 *)
First(f, n) == SubSeq(sock[f].in, 1, n)
Got(f, n) == IF n < Len(sock[f].in) THEN First(f, n) ELSE sock[f].in
Received(f, n) ==
  sock' = [sock EXCEPT ![f].in = SubSeq(@, Len(Got(f, n)) + 1, Len(@)),
                       ![f].end = IF sock[f].in = <<>> THEN "eof" ELSE @]

(* A socket the kernel keeps: its descriptor is open, or a thread is in     *)
(* recv() on it.                                                           *)
InUse(f) == sock[f].state = "up" \/ \E r \in Reader : reader[r].on = f

(* What the application hears is kept in order as long as one thread reads.*)
Hears(bytes) == IF Forgotten = {} THEN bytes ELSE <<>>

-----------------------------------------------------------------------------

Init ==
  /\ cli = NoClient
  /\ sock = [f \in Sock |-> FreeSock]
  /\ call = Idle
  /\ reader = [r \in Reader |-> NoThread]
  /\ heard = <<>> /\ cleaned = {}
  /\ fault = "no"

(* socket_cli_new *)
New(async) ==
  /\ At("idle") /\ ~cli.alive
  /\ \A r \in Reader : ~Running(r)
  /\ cli' = NewClient(async)
  /\ heard' = <<>> /\ cleaned' = {}
  /\ UNCHANGED <<sock, call, reader, fault>>

-----------------------------------------------------------------------------
(* __connect_tcp: the descriptor of an earlier attempt that failed is      *)
(* overwritten.                                                            *)

(* Variant: a connected client connects again. *)
ConnectMakesAlways ==
  /\ At("idle") /\ cli.alive
  /\ \E f \in Sock :
       /\ sock[f].state = "free" /\ ~InUse(f)
       /\ cli' = [cli EXCEPT !.socket_id = f]
       /\ sock' = [sock EXCEPT ![f] = [FreeSock EXCEPT !.state = "made"]]
  /\ Goto("connect")
  /\ UNCHANGED <<reader, heard, cleaned, fault>>

ConnectMakes ==
  /\ At("idle") /\ cli.alive /\ ~cli.is_connect
  /\ \E f \in Sock :
       /\ sock[f].state = "free" /\ ~InUse(f)
       /\ cli' = [cli EXCEPT !.socket_id = f]
       /\ sock' = [sock EXCEPT ![f] = [FreeSock EXCEPT !.state = "made"]]
  /\ Goto("connect")
  /\ UNCHANGED <<reader, heard, cleaned, fault>>

(* socket() fails when no socket is left. *)
ConnectMakesNone ==
  /\ At("idle") /\ cli.alive /\ ~cli.is_connect
  /\ \A f \in Sock : sock[f].state # "free" \/ InUse(f)
  /\ cli' = [cli EXCEPT !.socket_id = None]
  /\ UNCHANGED <<sock, call, reader, heard, cleaned, fault>>

ConnectSucceeds ==
  /\ At("connect")
  /\ cli' = [cli EXCEPT !.is_connect = TRUE]
  /\ sock' = [sock EXCEPT ![cli.socket_id].state = "up"]
  /\ heard' = <<>> /\ cleaned' = {}
  /\ Return
  /\ UNCHANGED <<reader, fault>>

ConnectFails ==
  /\ At("connect") /\ "connect_fail" \in Env
  /\ sock' = [sock EXCEPT ![cli.socket_id].state = "failed"]
  /\ Return
  /\ UNCHANGED <<cli, reader, heard, cleaned, fault>>

-----------------------------------------------------------------------------
(* Variant: the id of the thread is not kept. *)
RegisterForgets ==
  /\ At("idle") /\ cli.alive /\ cli.is_connect /\ cli.async
  /\ "second_notify" \in Env \/ \A r \in Reader : ~Running(r)
  /\ \E r \in Reader :
       /\ reader[r].pc = "none"
       /\ ReaderGoto(r, "test")
  /\ sock' = [sock EXCEPT ![cli.socket_id].notify = TRUE]
  /\ UNCHANGED <<cli, call, heard, cleaned, fault>>

(* socket_register_notify *)
Register ==
  /\ At("idle") /\ cli.alive /\ cli.is_connect /\ cli.async
  /\ "second_notify" \in Env \/ \A r \in Reader : ~Running(r)
  /\ \E r \in Reader :
       /\ reader[r].pc = "none"
       /\ cli' = [cli EXCEPT !.t_id = r]
       /\ ReaderGoto(r, "test")
  /\ sock' = [sock EXCEPT ![cli.socket_id].notify = TRUE]
  /\ UNCHANGED <<call, heard, cleaned, fault>>

-----------------------------------------------------------------------------
(* __read_tcp and __read_tcp_all, through __select_out: a timeout of 0     *)
(* waits for ever.                                                         *)

ReadStarts(op, len, timed) ==
  /\ At("idle") /\ cli.alive /\ cli.is_connect /\ ~cli.async
  /\ call' = [pc |-> IF timed THEN "select" ELSE "recv",
              op |-> op, len |-> len, got |-> 0, timed |-> timed]
  /\ UNCHANGED <<cli, sock, reader, heard, cleaned, fault>>

SelectReports ==
  /\ At("select") /\ Ready(cli.socket_id)
  /\ Goto("recv")
  /\ UNCHANGED <<cli, sock, reader, heard, cleaned, fault>>

(* Variant: socket_read_all waits again. *)
SelectTimesOutAgain ==
  /\ At("select") /\ ~Ready(cli.socket_id)
  /\ IF call.op = "read_all" THEN Goto("select") ELSE Return
  /\ UNCHANGED <<cli, sock, reader, heard, cleaned, fault>>

SelectTimesOut ==
  /\ At("select") /\ ~Ready(cli.socket_id)
  /\ Return
  /\ UNCHANGED <<cli, sock, reader, heard, cleaned, fault>>

(* recv() returns bytes, 0 at the end of the stream or -1 on an error.     *)
(* socket_read_all goes on after 0 as after a part of what it wants.       *)
Receives ==
  LET f == cli.socket_id
      got == call.got + Len(Got(f, call.len - call.got))
      failed == sock[f].in = <<>> /\ sock[f].end = "reset"
  IN  /\ At("recv") /\ Ready(f)
      /\ Received(f, call.len - call.got)
      /\ heard' = heard \o Got(f, call.len - call.got)
      /\ IF call.op = "read" \/ failed \/ got = call.len THEN Return
         ELSE call' = [call EXCEPT !.pc = IF call.timed THEN "select" ELSE "recv",
                                   !.got = got]
      /\ UNCHANGED <<cli, reader, cleaned, fault>>

-----------------------------------------------------------------------------
(* __write_tcp: send() takes a part of what is left until nothing is. What *)
(* was taken before an error is not told.                                  *)

WriteStarts(len) ==
  /\ At("idle") /\ cli.alive /\ cli.is_connect
  /\ call' = [Idle EXCEPT !.pc = "send", !.op = "write", !.len = len]
  /\ UNCHANGED <<cli, sock, reader, heard, cleaned, fault>>

(* Variant: every send() is given the whole length. *)
SendsWhole ==
  /\ At("send")
  /\ \E got \in call.got + 1 .. call.got + call.len :
       IF got = call.len THEN Return ELSE call' = [call EXCEPT !.got = got]
  /\ UNCHANGED <<cli, sock, reader, heard, cleaned, fault>>

Sends ==
  /\ At("send")
  /\ \E got \in call.got + 1 .. call.len :
       IF got = call.len THEN Return ELSE call' = [call EXCEPT !.got = got]
  /\ UNCHANGED <<cli, sock, reader, heard, cleaned, fault>>

SendFails ==
  /\ At("send")
  /\ "send_fail" \in Env \/ sock[cli.socket_id].end # "no"
  /\ Return
  /\ UNCHANGED <<cli, sock, reader, heard, cleaned, fault>>

-----------------------------------------------------------------------------
(* __clean_tcp: in synchronous mode it does nothing.                       *)

CleanStarts ==
  /\ At("idle") /\ cli.alive /\ cli.is_connect /\ cli.async
  /\ call' = [Idle EXCEPT !.pc = "poll", !.op = "clean"]
  /\ UNCHANGED <<cli, sock, reader, heard, cleaned, fault>>

(* Variant: recv() comes before select(). *)
CleanPollsNot ==
  /\ At("poll")
  /\ Goto("drop")
  /\ UNCHANGED <<cli, sock, reader, heard, cleaned, fault>>

CleanPolls ==
  /\ At("poll")
  /\ IF Ready(cli.socket_id) THEN Goto("drop") ELSE Return
  /\ UNCHANGED <<cli, sock, reader, heard, cleaned, fault>>

(* recv() blocks when a reader has taken what select() saw. *)
CleanDrops ==
  /\ At("drop") /\ Ready(cli.socket_id)
  /\ Received(cli.socket_id, 1)
  /\ cleaned' = IF Forgotten = {} THEN cleaned \cup ToSet(Got(cli.socket_id, 1)) ELSE {}
  /\ Goto("poll")
  /\ UNCHANGED <<cli, reader, heard, fault>>

-----------------------------------------------------------------------------
(* __disconnect_tcp, and __destory_tcp that frees the client after it.     *)

Freed(c, op) == IF op = "destory" THEN [c EXCEPT !.alive = FALSE] ELSE c

DisconnectStarts(op) ==
  /\ At("idle") /\ cli.alive
  /\ IF cli.socket_id = None
     THEN /\ cli' = Freed([cli EXCEPT !.is_connect = FALSE], op)
          /\ UNCHANGED call
     ELSE /\ cli' = [cli EXCEPT !.is_connect = FALSE]
          /\ call' = [Idle EXCEPT !.pc = IF cli.async THEN "join" ELSE "close", !.op = op]
  /\ UNCHANGED <<sock, reader, heard, cleaned, fault>>

(* Where the thread of t_id is: nowhere, if there is none or it is joined. *)
Known == IF cli.t_id = None THEN "none" ELSE reader[cli.t_id].pc

(* Variant: the socket is closed first, to wake the reader up. *)
JoinsNot ==
  /\ At("join")
  /\ Goto("close")
  /\ UNCHANGED <<cli, sock, reader, heard, cleaned, fault>>

(* pthread_join waits for the thread to end. *)
Joins ==
  /\ At("join")
  /\ Known = "exited"
  /\ reader' = [reader EXCEPT ![cli.t_id] = NoThread]
  /\ Goto("close")
  /\ UNCHANGED <<cli, sock, heard, cleaned, fault>>

(* A thread id that is not set, or of a thread that was joined before.     *)
JoinsNobody ==
  /\ At("join")
  /\ Known = "none"
  /\ fault' = "join"
  /\ UNCHANGED <<cli, sock, call, reader, heard, cleaned>>

(* close(): the kernel drops what was not read, unless a thread is in      *)
(* recv() on the socket.                                                   *)
ClosesSock ==
  LET f == cli.socket_id
  IN  sock' = [sock EXCEPT ![f] = IF \E r \in Reader : reader[r].on = f
                                  THEN [@ EXCEPT !.state = "free"] ELSE FreeSock]

Closes ==
  /\ At("close")
  /\ ClosesSock
  /\ cli' = Freed([cli EXCEPT !.socket_id = None], call.op)
  /\ Return
  /\ heard' = <<>> /\ cleaned' = {}
  /\ UNCHANGED <<reader, fault>>

-----------------------------------------------------------------------------
(* task_read *)

(* The client has been freed under a thread that nobody joined. *)
ReaderUsesFreed(r) ==
  /\ reader[r].pc \in {"test", "enter", "notify"} /\ fault = "no" /\ ~cli.alive
  /\ fault' = "freed"
  /\ UNCHANGED <<cli, sock, call, reader, heard, cleaned>>

ReaderTests(r) ==
  /\ ReaderAt(r, "test") /\ cli.alive
  /\ ReaderGoto(r, IF cli.is_connect THEN "enter" ELSE "exited")
  /\ UNCHANGED <<cli, sock, call, heard, cleaned, fault>>

(* On no descriptor, or on one that is not connected, recv() returns -1.   *)
ReaderEnters(r) ==
  LET f == cli.socket_id
  IN  /\ ReaderAt(r, "enter") /\ cli.alive
      /\ IF f # None /\ sock[f].state = "up"
         THEN reader' = [reader EXCEPT ![r].pc = "recv", ![r].on = f]
         ELSE ReaderGoto(r, "test")
      /\ UNCHANGED <<cli, sock, call, heard, cleaned, fault>>

(* Variant: recv() is called again when it returned nothing. *)
ReaderReceivesAgain(r) ==
  LET f == reader[r].on
  IN  /\ ReaderAt(r, "recv") /\ Ready(f)
      /\ Received(f, Chunk)
      /\ IF sock[f].in # <<>>
         THEN reader' = [reader EXCEPT ![r] = [pc |-> "notify", on |-> None, buf |-> Got(f, Chunk)]]
         ELSE UNCHANGED reader
      /\ UNCHANGED <<cli, call, heard, cleaned, fault>>

ReaderReceives(r) ==
  LET f == reader[r].on
  IN  /\ ReaderAt(r, "recv") /\ Ready(f)
      /\ Received(f, Chunk)
      /\ IF sock[f].in # <<>>
         THEN reader' = [reader EXCEPT ![r] = [pc |-> "notify", on |-> None, buf |-> Got(f, Chunk)]]
         ELSE ReaderGoto(r, "test")
      /\ UNCHANGED <<cli, call, heard, cleaned, fault>>

(* Variant: a chunk that comes while the client disconnects is dropped. *)
ReaderNotifiesConnected(r) ==
  /\ ReaderAt(r, "notify") /\ cli.alive
  /\ heard' = IF cli.is_connect THEN Hears(heard \o reader[r].buf) ELSE heard
  /\ ReaderGoto(r, "test")
  /\ UNCHANGED <<cli, sock, call, cleaned, fault>>

ReaderNotifies(r) ==
  /\ ReaderAt(r, "notify") /\ cli.alive
  /\ heard' = Hears(heard \o reader[r].buf)
  /\ ReaderGoto(r, "test")
  /\ UNCHANGED <<cli, sock, call, cleaned, fault>>

-----------------------------------------------------------------------------
(* The peer *)

PeerSends(f) ==
  /\ fault = "no" /\ InUse(f) /\ sock[f].end = "no" /\ sock[f].sent < MaxBytes
  /\ sock' = [sock EXCEPT ![f].sent = @ + 1, ![f].in = Append(@, sock[f].sent + 1)]
  /\ UNCHANGED <<cli, call, reader, heard, cleaned, fault>>

PeerEnds(f, how) ==
  /\ fault = "no" /\ InUse(f) /\ sock[f].end = "no"
  /\ sock' = [sock EXCEPT ![f].end = how]
  /\ UNCHANGED <<cli, call, reader, heard, cleaned, fault>>

-----------------------------------------------------------------------------

Starts ==
  \/ \E async \in BOOLEAN : New(async)
  \/ ConnectMakes \/ ConnectMakesNone \/ Register \/ CleanStarts
  \/ \E op \in {"read", "read_all"}, len \in Length, timed \in BOOLEAN :
       ReadStarts(op, len, timed)
  \/ \E len \in Length : WriteStarts(len)
  \/ \E op \in {"disconnect", "destory"} : DisconnectStarts(op)

Proceeds ==
  \/ ConnectSucceeds \/ ConnectFails
  \/ SelectReports \/ SelectTimesOut \/ Receives
  \/ Sends \/ SendFails \/ CleanPolls \/ CleanDrops
  \/ Joins \/ JoinsNobody \/ Closes

Reads(r) ==
  \/ ReaderUsesFreed(r) \/ ReaderTests(r) \/ ReaderEnters(r)
  \/ ReaderReceives(r) \/ ReaderNotifies(r)

Peer(f) ==
  \/ PeerSends(f)
  \/ PeerEnds(f, "eof")
  \/ "reset" \in Env /\ PeerEnds(f, "reset")

Next ==
  \/ Starts \/ Proceeds
  \/ \E r \in Reader : Reads(r)
  \/ \E f \in Sock : Peer(f)

Spec == Init /\ [][Next]_vars

(* The processor runs both threads, and select() with a timeout times out. *)
(* Nothing is asked of the peer, and the application need not call.        *)
FairSpec == Spec /\ WF_vars(Proceeds) /\ \A r \in Reader : WF_vars(Reads(r))

-----------------------------------------------------------------------------

TypeOK ==
  /\ cli \in [alive : BOOLEAN, is_connect : BOOLEAN, async : BOOLEAN,
              socket_id : Sock \cup {None}, t_id : Reader \cup {None}]
  /\ sock \in [Sock -> [state : {"free", "made", "failed", "up"}, in : Seq(1 .. MaxBytes),
                        sent : 0 .. MaxBytes, end : {"no", "eof", "reset"},
                        notify : BOOLEAN]]
  /\ call \in [pc : {"idle", "connect", "select", "recv", "send", "poll", "drop",
                     "join", "close"},
               op : {"none", "read", "read_all", "write", "clean", "disconnect", "destory"},
               len : Nat, got : Nat, timed : BOOLEAN]
  /\ call.got <= call.len
  /\ reader \in [Reader -> [pc : {"none", "test", "enter", "recv", "notify", "exited"},
                            on : Sock \cup {None}, buf : Seq(1 .. MaxBytes)]]
  /\ heard \in Seq(1 .. MaxBytes)
  /\ cleaned \subseteq 1 .. MaxBytes
  /\ fault \in {"no", "join", "freed"}

(* The client never loses a socket that is connected or connecting, nor    *)
(* works on one that is not: is_connect, socket_id and the kernel agree    *)
(* (__connect_tcp, __disconnect_tcp).  A socket whose connect() failed is  *)
(* lost with the next attempt.                                             *)
NoConnectionLost ==
  /\ \A f \in Sock : sock[f].state \in {"made", "up"} => f = cli.socket_id
  /\ cli.socket_id # None => sock[cli.socket_id].state # "free"
  /\ cli.is_connect => cli.alive /\ cli.socket_id # None /\ sock[cli.socket_id].state = "up"

(* The thread the client knows ends before the socket is closed and the    *)
(* client freed: it is in recv() on the client's connection only, and runs *)
(* no callback once socket_disconnect has returned (__disconnect_tcp joins *)
(* before it closes).                                                      *)
ReaderWithinConnection ==
  \A r \in Reader \ Forgotten :
    /\ reader[r].pc = "recv" => reader[r].on = cli.socket_id /\ sock[reader[r].on].state = "up"
    /\ reader[r].pc # "none" => cli.alive /\ (cli.is_connect \/ call.pc = "join")

(* The disconnect of a connection on which a callback was registered joins *)
(* a thread that runs or has just ended: pthread_join gets the id of none, *)
(* one never set or one joined before, only where no callback was          *)
(* registered.  There it does, for t_id is not reset: a client that        *)
(* registers, disconnects, connects and disconnects joins one thread twice *)
(* (__disconnect_tcp, socket_register_notify).                             *)
JoinsRegistered == fault = "join" => ~sock[cli.socket_id].notify

(* socket_clean waits for the peer only when a reader has taken the byte   *)
(* that select() reported to it (__clean_tcp).                             *)
CleanWaitsBehindReader ==
  call.pc = "drop" /\ ~Ready(cli.socket_id) => \E r \in Reader : Running(r)

(* The application is given the bytes of its connection in order, none     *)
(* twice and none left out but those socket_clean has thrown away, by      *)
(* socket_read, socket_read_all and the callback alike; with two readers   *)
(* it is not.                                                              *)
InHand == IF cli.t_id = None THEN <<>> ELSE reader[cli.t_id].buf
Stream == heard \o InHand \o sock[cli.socket_id].in
StreamInOrder ==
  cli.socket_id # None /\ sock[cli.socket_id].state = "up" /\ Forgotten = {} =>
    /\ \A i, j \in DOMAIN Stream : i < j => Stream[i] < Stream[j]
    /\ ToSet(Stream) = (1 .. sock[cli.socket_id].sent) \ cleaned

(* Once the peer has closed, socket_disconnect returns: task_read then     *)
(* gets 0 from recv() and tests is_connect again. While the peer keeps     *)
(* silent it does not return.                                              *)
DisconnectReturns ==
  (call.pc = "join" /\ Known # "none" /\ sock[cli.socket_id].end # "no") ~> (call.pc # "join")

(* A call with a timeout returns, however the peer doles out its bytes,    *)
(* or the stream has ended: socket_read_all adds the 0 of recv() for ever. *)
TimedCallReturns ==
  (call.op = "write" \/ call.timed)
    ~> (call.pc = "idle" \/ (call.op = "read_all" /\ sock[cli.socket_id].end # "no"))

=============================================================================
