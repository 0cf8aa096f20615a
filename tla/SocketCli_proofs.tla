-------------------------- MODULE SocketCli_proofs --------------------------
(***************************************************************************)
(* The client of SocketCli for any number of sockets and threads, any      *)
(* stream and any environment: the types, the safety invariants and, from  *)
(* a history of what was heard, in hand and thrown away, the order of the  *)
(* stream.  IInv ties the call the application is in, is_connect,          *)
(* socket_id, the kernel's sockets and the reader to each other.           *)
(***************************************************************************)
EXTENDS SocketCli, SequenceTheorems, TLAPS

(* The types of TypeOK, one per variable.                                  *)
ClientType == [alive : BOOLEAN, is_connect : BOOLEAN, async : BOOLEAN,
               socket_id : Sock \cup {None}, t_id : Reader \cup {None}]
SockType   == [state : {"free", "made", "failed", "up"}, in : Seq(1 .. MaxBytes),
               sent : 0 .. MaxBytes, end : {"no", "eof", "reset"}, notify : BOOLEAN]
CallType   == [pc : {"idle", "connect", "select", "recv", "send", "poll", "drop",
                     "join", "close"},
               op : {"none", "read", "read_all", "write", "clean", "disconnect", "destory"},
               len : Nat, got : Nat, timed : BOOLEAN]
ReaderType == [pc : {"none", "test", "enter", "recv", "notify", "exited"},
               on : Sock \cup {None}, buf : Seq(1 .. MaxBytes)]

(* A call of its type, that has no more than it wants.                     *)
CallOK(c) == c \in CallType /\ c.got <= c.len

(* What the client is while a call stands at each place; a freed client    *)
(* has no socket, and a bad pthread_join is in __disconnect_tcp.           *)
CallInv ==
  /\ call.pc # "idle" => cli.alive
  /\ call.pc \in {"select", "recv"} => cli.is_connect /\ ~cli.async
  /\ call.pc = "send" => cli.is_connect
  /\ call.pc \in {"poll", "drop"} => cli.is_connect /\ cli.async
  /\ call.pc \in {"connect", "join", "close"} => ~cli.is_connect /\ cli.socket_id # None
  /\ call.pc = "connect" => sock[cli.socket_id].state = "made"
  /\ call.pc = "join" => cli.async
  /\ ~cli.alive => cli.socket_id = None
  /\ fault = "join" => call.pc = "join"

(* The connection outlives is_connect until socket_disconnect closes it;   *)
(* a socket is made for one connect().                                     *)
ConnInv ==
  /\ NoConnectionLost
  /\ cli.socket_id # None /\ sock[cli.socket_id].state = "up" =>
       cli.is_connect \/ call.pc \in {"join", "close"}
  /\ \A f \in Sock : sock[f].state = "made" => call.pc = "connect"

(* The thread the client knows is joined before the connection ends, and   *)
(* is in recv() on it alone; a thread has bytes in hand only to notify.    *)
ThreadInv ==
  /\ cli.t_id # None => cli.async
  /\ Known # "none" => cli.is_connect \/ call.pc = "join"
  /\ Known = "recv" => reader[cli.t_id].on = cli.socket_id /\ sock[cli.socket_id].state = "up"
  /\ \A r \in Reader : reader[r].pc = "recv" <=> reader[r].on # None
  /\ \A r \in Reader : reader[r].pc # "notify" => reader[r].buf = <<>>

(* A socket that is not connected yet: nothing has come, nobody reads.     *)
MadeInv ==
  \A f \in Sock : sock[f].state = "made" =>
    /\ sock[f].in = <<>> /\ sock[f].sent = 0 /\ sock[f].end = "no"
    /\ \A r \in Reader : reader[r].on # f

(* A connection on which a callback was registered has a thread to join    *)
(* until it is joined.                                                     *)
NotifyInv ==
  cli.socket_id # None /\ sock[cli.socket_id].notify => call.pc = "close" \/ Known # "none"

(* The inductive invariant.                                                *)
IInv == TypeOK /\ CallInv /\ ConnInv /\ ThreadInv /\ MadeInv /\ NotifyInv /\ JoinsRegistered

-----------------------------------------------------------------------------

(* TypeOK, one variable at a time.                                         *)
LEMMA Types ==
  /\ TypeOK <=> /\ cli \in ClientType /\ sock \in [Sock -> SockType] /\ CallOK(call)
                /\ reader \in [Reader -> ReaderType] /\ heard \in Seq(1 .. MaxBytes)
                /\ cleaned \subseteq 1 .. MaxBytes /\ fault \in {"no", "join", "freed"}
BY DEF TypeOK, ClientType, SockType, CallOK, CallType, ReaderType

(* The calls the application can be in.                                    *)
LEMMA CallTypes ==
  ASSUME SocketCliAssumption
  PROVE
  /\ CallOK(Idle)
  /\ CallOK(call) => \A pc \in {"connect", "select", "recv", "poll", "drop", "close"} :
       CallOK([call EXCEPT !.pc = pc])
  /\ CallOK(call) => \A n \in 0 .. call.len :
       /\ CallOK([call EXCEPT !.got = n])
       /\ \A pc \in {"select", "recv"} : CallOK([call EXCEPT !.pc = pc, !.got = n])
  /\ \A pc \in {"select", "recv"}, op \in {"read", "read_all"}, len \in Length, timed \in BOOLEAN :
       CallOK([pc |-> pc, op |-> op, len |-> len, got |-> 0, timed |-> timed])
  /\ \A len \in Length : CallOK([Idle EXCEPT !.pc = "send", !.op = "write", !.len = len])
  /\ CallOK([Idle EXCEPT !.pc = "poll", !.op = "clean"])
  /\ \A pc \in {"join", "close"}, op \in {"disconnect", "destory"} :
       CallOK([Idle EXCEPT !.pc = pc, !.op = op])
<1> USE SocketCliAssumption DEF SocketCliAssumption, CallOK, CallType
<1>1. CallOK(Idle) /\ Idle.got = 0 /\ Idle.len = 0
  BY DEF Idle
<1>2. CallOK(call) => \A pc \in {"connect", "select", "recv", "poll", "drop", "close"} :
        CallOK([call EXCEPT !.pc = pc])
  OBVIOUS
<1>3. ASSUME CallOK(call), NEW n \in 0 .. call.len
      PROVE  /\ CallOK([call EXCEPT !.got = n])
             /\ \A pc \in {"select", "recv"} : CallOK([call EXCEPT !.pc = pc, !.got = n])
  <2>1. n \in Nat /\ n <= call.len
    BY <1>3
  <2>2. CallOK([call EXCEPT !.got = n])
    BY <1>3, <2>1
  <2>3. ASSUME NEW pc \in {"select", "recv"} PROVE CallOK([call EXCEPT !.pc = pc, !.got = n])
    BY <1>3, <2>1
  <2> QED BY <2>2, <2>3
<1>4. \A pc \in {"select", "recv"}, op \in {"read", "read_all"}, len \in Length, timed \in BOOLEAN :
        CallOK([pc |-> pc, op |-> op, len |-> len, got |-> 0, timed |-> timed])
  OBVIOUS
<1>5. ASSUME NEW len \in Length
      PROVE  CallOK([Idle EXCEPT !.pc = "send", !.op = "write", !.len = len])
  <2>1. len \in Nat
    OBVIOUS
  <2>2. [Idle EXCEPT !.pc = "send", !.op = "write", !.len = len] \in CallType
    BY <1>1, <2>1
  <2>3. /\ [Idle EXCEPT !.pc = "send", !.op = "write", !.len = len].got = Idle.got
        /\ [Idle EXCEPT !.pc = "send", !.op = "write", !.len = len].len = len
    BY <1>1
  <2> QED BY <1>1, <2>1, <2>2, <2>3
<1>6. CallOK([Idle EXCEPT !.pc = "poll", !.op = "clean"])
  BY <1>1
<1>7. ASSUME NEW pc \in {"join", "close"}, NEW op \in {"disconnect", "destory"}
      PROVE  CallOK([Idle EXCEPT !.pc = pc, !.op = op])
  <2>1. [Idle EXCEPT !.pc = pc, !.op = op] \in CallType
    BY <1>1
  <2>2. /\ [Idle EXCEPT !.pc = pc, !.op = op].got = Idle.got
        /\ [Idle EXCEPT !.pc = pc, !.op = op].len = Idle.len
    BY <1>1
  <2> QED BY <1>1, <2>1, <2>2
<1> HIDE DEF CallOK
<1> QED BY <1>1, <1>2, <1>3, <1>4, <1>5, <1>6, <1>7

-----------------------------------------------------------------------------
(* recv()                                                                  *)

(* What recv() of at most n bytes takes is a beginning of what is there.   *)
LEMMA GotSplits ==
  ASSUME sock \in [Sock -> SockType], NEW f \in Sock, NEW n \in Nat,
         NEW rest, rest = SubSeq(sock[f].in, Len(Got(f, n)) + 1, Len(sock[f].in))
  PROVE  /\ Got(f, n) \in Seq(1 .. MaxBytes) /\ Len(Got(f, n)) <= n
         /\ rest \in Seq(1 .. MaxBytes)
         /\ sock[f].in = Got(f, n) \o rest
<1> DEFINE in == sock[f].in
<1>1. in \in Seq(1 .. MaxBytes)
  BY DEF SockType
<1> HIDE DEF in
<1>2. Len(in) \in Nat /\ \A i \in 1 .. Len(in) : in[i] \in 1 .. MaxBytes
  BY <1>1, LenProperties, ElementOfSeq
<1>3. CASE n < Len(in)
  <2>1. Got(f, n) = SubSeq(in, 1, n)
    BY <1>3 DEF Got, First, in
  <2>2. SubSeq(in, 1, n) \in Seq(1 .. MaxBytes) /\ Len(SubSeq(in, 1, n)) = n
    <3>1. n \in Int /\ \A i \in 1 .. n : in[i] \in 1 .. MaxBytes
      BY <1>2, <1>3
    <3>2. /\ SubSeq(in, 1, n) \in Seq(1 .. MaxBytes)
          /\ Len(SubSeq(in, 1, n)) = IF 1 <= n THEN n - 1 + 1 ELSE 0
      BY <3>1, SubSeqProperties
    <3> QED BY <3>2
  <2>3. SubSeq(in, n + 1, Len(in)) \in Seq(1 .. MaxBytes)
    <3>1. n + 1 \in Int /\ Len(in) \in Int /\ \A i \in n + 1 .. Len(in) : in[i] \in 1 .. MaxBytes
      BY <1>2, <1>3
    <3> QED BY <3>1, SubSeqProperties
  <2>4. SubSeq(in, 1, n) \o SubSeq(in, n + 1, Len(in)) = SubSeq(in, 1, Len(in))
    <3>1. 1 \in 1 .. Len(in) + 1 /\ n \in 1 - 1 .. Len(in) /\ Len(in) \in n .. Len(in)
      BY <1>2, <1>3
    <3> QED BY <1>1, <3>1, ConcatAdjacentSubSeq
  <2>5. SubSeq(in, 1, Len(in)) = in
    BY <1>1, SubSeqFull
  <2>6. rest = SubSeq(in, n + 1, Len(in))
    BY <2>1, <2>2 DEF in
  <2>7. in = SubSeq(in, 1, n) \o rest
    BY <2>4, <2>5, <2>6
  <2>8. Got(f, n) \in Seq(1 .. MaxBytes) /\ Len(Got(f, n)) <= n
    BY <2>1, <2>2
  <2>9. in = Got(f, n) \o rest
    BY <2>1, <2>7
  <2> QED BY <2>3, <2>6, <2>8, <2>9 DEF in
<1>4. CASE ~(n < Len(in))
  <2>1. Got(f, n) = in
    BY <1>4 DEF Got, in
  <2>2. rest = SubSeq(in, Len(in) + 1, Len(in))
    BY <2>1 DEF in
  <2>3. rest = <<>>
    BY <2>2, <1>2, SubSeqEmpty
  <2>4. in \o <<>> = in
    BY <1>1, ConcatEmptySeq
  <2>5. <<>> \in Seq(1 .. MaxBytes)
    OBVIOUS
  <2> QED BY <1>1, <1>2, <1>4, <2>1, <2>3, <2>4, <2>5 DEF in
<1> QED BY <1>3, <1>4

(* recv() takes from one socket and leaves the others alone.               *)
LEMMA ReceivedType ==
  ASSUME sock \in [Sock -> SockType], NEW f \in Sock, NEW n \in Nat, Received(f, n)
  PROVE  /\ sock' \in [Sock -> SockType]
         /\ \A g \in Sock : /\ sock'[g].state = sock[g].state /\ sock'[g].sent = sock[g].sent
                             /\ sock'[g].notify = sock[g].notify
         /\ \A g \in Sock \ {f} : sock'[g] = sock[g]
         /\ sock[f].in = Got(f, n) \o sock'[f].in
         /\ sock'[f].end = IF sock[f].in = <<>> THEN "eof" ELSE sock[f].end
<1> DEFINE rest == SubSeq(sock[f].in, Len(Got(f, n)) + 1, Len(sock[f].in))
<1> DEFINE end == IF sock[f].in = <<>> THEN "eof" ELSE sock[f].end
<1>1. rest \in Seq(1 .. MaxBytes) /\ sock[f].in = Got(f, n) \o rest
  BY GotSplits
<1>2. end \in {"no", "eof", "reset"}
  BY DEF SockType
<1>3. sock' = [sock EXCEPT ![f].in = rest, ![f].end = end]
  BY DEF Received
<1> HIDE DEF rest, end
<1>4. sock' = [sock EXCEPT ![f] = [sock[f] EXCEPT !.in = rest, !.end = end]]
  BY <1>3
<1>5. [sock[f] EXCEPT !.in = rest, !.end = end] \in SockType
  BY <1>1, <1>2 DEF SockType
<1> QED BY <1>1, <1>4, <1>5 DEF end, SockType
-----------------------------------------------------------------------------
(* The types                                                               *)

(* Every action keeps the types: the lengths fit because recv() and send() *)
(* are given what is left.                                                 *)
LEMMA TypeStep ==
  ASSUME SocketCliAssumption, IInv, Next
  PROVE  TypeOK'
<1> USE SocketCliAssumption
<1>1. /\ cli \in ClientType /\ sock \in [Sock -> SockType] /\ CallOK(call)
      /\ reader \in [Reader -> ReaderType] /\ heard \in Seq(1 .. MaxBytes)
      /\ cleaned \subseteq 1 .. MaxBytes /\ fault \in {"no", "join", "freed"}
  BY Types DEF IInv
<1> DEFINE Typed == /\ cli' \in ClientType /\ sock' \in [Sock -> SockType] /\ CallOK(call')
                    /\ reader' \in [Reader -> ReaderType] /\ heard' \in Seq(1 .. MaxBytes)
                    /\ cleaned' \subseteq 1 .. MaxBytes /\ fault' \in {"no", "join", "freed"}
<1> SUFFICES Typed
  BY DEF TypeOK, ClientType, SockType, CallOK, CallType, ReaderType
<1>2. <<>> \in Seq(1 .. MaxBytes)
  OBVIOUS
<1>3. ASSUME NEW a \in BOOLEAN, New(a) PROVE Typed
  <2>1. NewClient(a) \in ClientType
    BY DEF NewClient, NoClient, ClientType
  <2> QED BY <1>1, <1>2, <1>3, <2>1 DEF New
<1>4. CASE ConnectMakes
  <2>1. PICK f \in Sock :
          /\ cli' = [cli EXCEPT !.socket_id = f]
          /\ sock' = [sock EXCEPT ![f] = [FreeSock EXCEPT !.state = "made"]]
    BY <1>4 DEF ConnectMakes
  <2>2. [FreeSock EXCEPT !.state = "made"] \in SockType
    <3>1. FreeSock \in SockType
      BY <1>2 DEF FreeSock, SockType, SocketCliAssumption
    <3> QED BY <3>1 DEF SockType
  <2>3. cli' \in ClientType
    BY <1>1, <2>1 DEF ClientType
  <2> QED BY <1>1, <1>4, <2>1, <2>2, <2>3, CallTypes DEF ConnectMakes, Goto
<1>5. CASE ConnectMakesNone
  BY <1>1, <1>5 DEF ConnectMakesNone, ClientType
<1>6. CASE ConnectSucceeds
  <2>1. cli' \in ClientType
    BY <1>1, <1>6 DEF ConnectSucceeds, ClientType
  <2>2. sock' \in [Sock -> SockType]
    BY <1>1, <1>6, ZenonT(60) DEF ConnectSucceeds, SockType
  <2> QED BY <1>1, <1>2, <1>6, <2>1, <2>2, CallTypes DEF ConnectSucceeds, Return
<1>7. CASE Register
  <2>1. PICK r \in Reader : cli' = [cli EXCEPT !.t_id = r] /\ ReaderGoto(r, "test")
    BY <1>7 DEF Register
  <2>2. cli' \in ClientType
    BY <1>1, <2>1 DEF ClientType
  <2>3. [NoThread EXCEPT !.pc = "test"] \in ReaderType
    BY <1>2 DEF NoThread, ReaderType
  <2>4. sock' = [sock EXCEPT ![cli.socket_id].notify = TRUE]
    BY <1>7 DEF Register
  <2>5. sock' \in [Sock -> SockType]
    BY <1>1, <2>4, ZenonT(60) DEF SockType
  <2> QED BY <1>1, <1>7, <2>1, <2>2, <2>3, <2>5 DEF Register, ReaderGoto
<1>8. ASSUME NEW op \in {"read", "read_all"}, NEW len \in Length, NEW timed \in BOOLEAN,
             ReadStarts(op, len, timed)
      PROVE  Typed
  BY <1>1, <1>8, CallTypes DEF ReadStarts
<1>9. CASE \E len \in Length : WriteStarts(len)
  BY <1>1, <1>9, CallTypes DEF WriteStarts
<1>10. CASE CleanStarts
  BY <1>1, <1>10, CallTypes DEF CleanStarts
<1>11. ASSUME NEW op \in {"disconnect", "destory"}, DisconnectStarts(op) PROVE Typed
  <2>1. cli' \in ClientType
    BY <1>1, <1>11 DEF DisconnectStarts, Freed, ClientType
  <2>2. CallOK(call')
    BY <1>1, <1>11, CallTypes DEF DisconnectStarts
  <2> QED BY <1>1, <1>11, <2>1, <2>2 DEF DisconnectStarts
<1>12. CASE SelectReports \/ SelectTimesOut \/ SendFails \/ CleanPolls
  BY <1>1, <1>12, CallTypes
     DEF SelectReports, SelectTimesOut, SendFails, CleanPolls, Goto, Return
<1>13. CASE ConnectFails
  <2>1. sock' = [sock EXCEPT ![cli.socket_id].state = "failed"]
    BY <1>13 DEF ConnectFails
  <2>2. sock' \in [Sock -> SockType]
    BY <1>1, <2>1, ZenonT(60) DEF SockType
  <2> QED BY <1>1, <1>13, <2>2, CallTypes DEF ConnectFails, Return
<1>14. CASE Receives
  <2> DEFINE f == cli.socket_id
  <2> DEFINE n == call.len - call.got
  <2>1. f \in Sock /\ n \in Nat
    BY <1>1, <1>14 DEF Receives, At, IInv, CallInv, ConnInv, NoConnectionLost, ClientType, CallOK, CallType
  <2> HIDE DEF f, n
  <2>2. Received(f, n) /\ heard' = heard \o Got(f, n)
    BY <1>14 DEF Receives, f, n
  <2>3. Got(f, n) \in Seq(1 .. MaxBytes) /\ Len(Got(f, n)) <= n
    BY <1>1, <2>1, GotSplits
  <2>4. sock' \in [Sock -> SockType]
    BY <1>1, <2>1, <2>2, ReceivedType
  <2>5. call.got + Len(Got(f, n)) \in 0 .. call.len
    BY <1>1, <2>1, <2>3 DEF n, CallOK, CallType
  <2>6. \/ call' = Idle
        \/ \E pc \in {"select", "recv"} :
             call' = [call EXCEPT !.pc = pc, !.got = call.got + Len(Got(f, n))]
    BY <1>14 DEF Receives, Return, f, n
  <2>7. CallOK(call')
    <3> DEFINE got == call.got + Len(Got(f, n))
    <3>1. got \in 0 .. call.len
      BY <2>5
    <3> HIDE DEF got
    <3>2. \A pc \in {"select", "recv"} : CallOK([call EXCEPT !.pc = pc, !.got = got])
      BY <1>1, <3>1, CallTypes
    <3> QED BY <2>6, <3>2, CallTypes DEF got
  <2>8. heard' \in Seq(1 .. MaxBytes)
    BY <1>1, <2>2, <2>3
  <2> QED BY <1>1, <1>14, <2>4, <2>7, <2>8 DEF Receives
<1>15. CASE Sends
  <2>1. PICK got \in call.got + 1 .. call.len :
          IF got = call.len THEN Return ELSE call' = [call EXCEPT !.got = got]
    BY <1>15 DEF Sends
  <2>2. got \in 0 .. call.len
    BY <1>1 DEF CallOK, CallType
  <2> QED BY <1>1, <1>15, <2>1, <2>2, CallTypes DEF Sends, Return
<1>16. CASE CleanDrops
  <2> DEFINE f == cli.socket_id
  <2>1. f \in Sock
    BY <1>1, <1>16 DEF CleanDrops, At, IInv, CallInv, ConnInv, NoConnectionLost, ClientType
  <2> HIDE DEF f
  <2>2. Received(f, 1) /\ cleaned' \subseteq cleaned \cup ToSet(Got(f, 1))
    BY <1>16 DEF CleanDrops, f
  <2>3. Got(f, 1) \in Seq(1 .. MaxBytes)
    BY <1>1, <2>1, GotSplits
  <2>4. ToSet(Got(f, 1)) \subseteq 1 .. MaxBytes
    BY <2>3, LenProperties DEF ToSet
  <2>5. sock' \in [Sock -> SockType]
    BY <1>1, <2>1, <2>2, ReceivedType
  <2> QED BY <1>1, <1>16, <2>2, <2>4, <2>5, CallTypes DEF CleanDrops, Goto
<1>17. CASE Joins
  <2>1. NoThread \in ReaderType
    BY <1>2 DEF NoThread, ReaderType
  <2> QED BY <1>1, <1>17, <2>1, CallTypes DEF Joins, Goto
<1>18. CASE JoinsNobody
  BY <1>1, <1>18 DEF JoinsNobody
<1>19. CASE Closes
  <2>1. cli' \in ClientType
    BY <1>1, <1>19 DEF Closes, Freed, ClientType
  <2>2. FreeSock \in SockType
    BY <1>2 DEF FreeSock, SockType, SocketCliAssumption
  <2>3. \A g \in Sock : [sock[g] EXCEPT !.state = "free"] \in SockType
    BY <1>1 DEF SockType
  <2>4. sock' \in [Sock -> SockType]
    BY <1>1, <1>19, <2>2, <2>3 DEF Closes, ClosesSock
  <2> QED BY <1>1, <1>2, <1>19, <2>1, <2>4, CallTypes DEF Closes, Return
<1>20. ASSUME NEW r \in Reader, Reads(r) PROVE Typed
  <2>1. \A pc \in {"test", "exited", "enter"} : [NoThread EXCEPT !.pc = pc] \in ReaderType
    BY <1>2 DEF NoThread, ReaderType
  <2>2. CASE ReaderUsesFreed(r)
    BY <1>1, <2>2 DEF ReaderUsesFreed
  <2>3. CASE ReaderTests(r)
    BY <1>1, <2>1, <2>3 DEF ReaderTests, ReaderGoto
  <2>4. CASE ReaderEnters(r)
    <3>1. cli.socket_id # None => [reader[r] EXCEPT !.pc = "recv", !.on = cli.socket_id] \in ReaderType
      BY <1>1, ZenonT(60) DEF ClientType, ReaderType
    <3>2. \/ reader' = [reader EXCEPT ![r] = [NoThread EXCEPT !.pc = "test"]]
          \/ /\ cli.socket_id # None
             /\ reader' = [reader EXCEPT ![r] = [reader[r] EXCEPT !.pc = "recv", !.on = cli.socket_id]]
      BY <2>4 DEF ReaderEnters, ReaderGoto
    <3> QED BY <1>1, <2>1, <2>4, <3>1, <3>2 DEF ReaderEnters
  <2>5. CASE ReaderReceives(r)
    <3> DEFINE f == reader[r].on
    <3>1. f \in Sock /\ Chunk \in Nat
      BY <1>1, <2>5 DEF ReaderReceives, ReaderAt, IInv, ThreadInv, ReaderType, SocketCliAssumption
    <3> HIDE DEF f
    <3>2. /\ Received(f, Chunk)
          /\ \/ reader' = [reader EXCEPT ![r] = [pc |-> "notify", on |-> None, buf |-> Got(f, Chunk)]]
             \/ reader' = [reader EXCEPT ![r] = [NoThread EXCEPT !.pc = "test"]]
      BY <2>5 DEF ReaderReceives, ReaderGoto, f
    <3>3. Got(f, Chunk) \in Seq(1 .. MaxBytes)
      BY <1>1, <3>1, GotSplits
    <3>4. [pc |-> "notify", on |-> None, buf |-> Got(f, Chunk)] \in ReaderType
      BY <3>3 DEF ReaderType
    <3>5. sock' \in [Sock -> SockType]
      BY <1>1, <3>1, <3>2, ReceivedType
    <3> QED BY <1>1, <2>1, <2>5, <3>2, <3>4, <3>5 DEF ReaderReceives
  <2>6. CASE ReaderNotifies(r)
    <3>1. heard \o reader[r].buf \in Seq(1 .. MaxBytes)
      BY <1>1 DEF ReaderType
    <3> QED BY <1>1, <1>2, <2>1, <2>6, <3>1 DEF ReaderNotifies, ReaderGoto, Hears
  <2> QED BY <1>20, <2>2, <2>3, <2>4, <2>5, <2>6 DEF Reads
<1>21. ASSUME NEW f \in Sock, Peer(f) PROVE Typed
  <2>1. CASE PeerSends(f)
    <3>1. sock[f].sent + 1 \in 1 .. MaxBytes
      BY <1>1, <2>1 DEF PeerSends, SockType, SocketCliAssumption
    <3>2. [sock[f] EXCEPT !.sent = sock[f].sent + 1, !.in = Append(sock[f].in, sock[f].sent + 1)] \in SockType
      <4> DEFINE n == sock[f].sent + 1
      <4>1. n \in 1 .. MaxBytes /\ n \in 0 .. MaxBytes
        BY <3>1
      <4> HIDE DEF n
      <4>2. Append(sock[f].in, n) \in Seq(1 .. MaxBytes)
        BY <1>1, <4>1, AppendProperties DEF SockType
      <4>3. [sock[f] EXCEPT !.sent = n, !.in = Append(sock[f].in, n)] \in SockType
        BY <1>1, <4>1, <4>2 DEF SockType
      <4> QED BY <4>3 DEF n
    <3>3. sock' = [sock EXCEPT ![f] =
                     [sock[f] EXCEPT !.sent = sock[f].sent + 1, !.in = Append(sock[f].in, sock[f].sent + 1)]]
      BY <2>1 DEF PeerSends
    <3> QED BY <1>1, <2>1, <3>2, <3>3 DEF PeerSends
  <2>2. ASSUME NEW how \in {"eof", "reset"}, PeerEnds(f, how) PROVE Typed
    <3>1. [sock[f] EXCEPT !.end = how] \in SockType
      BY <1>1, ZenonT(60) DEF SockType
    <3>2. sock' = [sock EXCEPT ![f] = [sock[f] EXCEPT !.end = how]]
      BY <2>2 DEF PeerEnds
    <3> QED BY <1>1, <2>2, <3>1, <3>2 DEF PeerEnds
  <2> QED BY <1>21, <2>1, <2>2 DEF Peer
<1> QED BY <1>3, <1>4, <1>5, <1>6, <1>7, <1>8, <1>9, <1>10, <1>11, <1>12, <1>14, <1>15, <1>16, <1>17,
           <1>18, <1>19, <1>20, <1>21, <1>13 DEF Next, Starts, Proceeds
-----------------------------------------------------------------------------
(* What the steps that choose do, field by field.                          *)

(* socket_disconnect and socket_destory                                    *)
LEMMA DisconnectShape ==
  ASSUME TypeOK, NEW op \in {"disconnect", "destory"}, DisconnectStarts(op)
  PROVE  /\ call.pc = "idle" /\ fault = "no" /\ cli.alive
         /\ ~cli'.is_connect /\ cli'.async = cli.async
         /\ cli'.socket_id = cli.socket_id /\ cli'.t_id = cli.t_id
         /\ cli.socket_id # None => cli'.alive
         /\ call'.pc = IF cli.socket_id = None THEN "idle" ELSE IF cli.async THEN "join" ELSE "close"
<1>1. cli \in ClientType
  BY Types
<1>2. CASE cli.socket_id = None
  <2>1. cli' = Freed([cli EXCEPT !.is_connect = FALSE], op) /\ call' = call
    BY <1>2 DEF DisconnectStarts
  <2> QED BY <1>1, <1>2, <2>1 DEF DisconnectStarts, At, Freed, ClientType
<1>3. CASE cli.socket_id # None
  <2>1. /\ cli' = [cli EXCEPT !.is_connect = FALSE]
        /\ call' = [Idle EXCEPT !.pc = IF cli.async THEN "join" ELSE "close", !.op = op]
    BY <1>3 DEF DisconnectStarts
  <2> QED BY <1>1, <1>3, <2>1 DEF DisconnectStarts, At, ClientType, Idle
<1> QED BY <1>2, <1>3

(* recv() of the application: the call ends or goes on.                    *)
LEMMA ReceivesShape ==
  ASSUME TypeOK, Receives
  PROVE  /\ call.pc = "recv" /\ fault = "no"
         /\ call'.pc \in {"idle", "select", "recv"}
<1>1. CallOK(call)
  BY Types
<1> DEFINE got == call.got + Len(Got(cli.socket_id, call.len - call.got))
<1>2. \/ call' = Idle
      \/ \E pc \in {"select", "recv"} : call' = [call EXCEPT !.pc = pc, !.got = got]
  BY DEF Receives, Return
<1> HIDE DEF got
<1>3. call.pc = "recv" /\ fault = "no"
  BY DEF Receives, At
<1>4. call'.pc \in {"idle", "select", "recv"}
  <2>1. ASSUME NEW pc \in {"select", "recv"}, call' = [call EXCEPT !.pc = pc, !.got = got]
        PROVE  call'.pc = pc
    BY <1>1, <2>1 DEF CallOK, CallType
  <2> QED BY <1>2, <2>1 DEF Idle
<1> QED BY <1>3, <1>4

(* send(): the call ends or goes on.                                       *)
LEMMA SendsShape ==
  ASSUME TypeOK, Sends
  PROVE  call.pc = "send" /\ fault = "no" /\ call'.pc \in {"idle", "send"}
<1>1. CallOK(call)
  BY Types
<1>2. call' = Idle \/ \E got \in Int : call' = [call EXCEPT !.got = got]
  BY <1>1 DEF Sends, Return, CallOK, CallType
<1> QED BY <1>1, <1>2 DEF Sends, At, Idle, CallOK, CallType

(* A thread goes into recv() on the connection, or back.                   *)
LEMMA EntersShape ==
  ASSUME TypeOK, NEW r \in Reader, ReaderEnters(r)
  PROVE  /\ reader[r].pc = "enter" /\ cli.alive
         /\ \A x \in Reader \ {r} : reader'[x] = reader[x]
         /\ \/ reader'[r].pc = "test" /\ reader'[r].on = None /\ reader'[r].buf = <<>>
            \/ /\ cli.socket_id # None /\ sock[cli.socket_id].state = "up"
               /\ reader'[r].pc = "recv" /\ reader'[r].on = cli.socket_id
               /\ reader'[r].buf = reader[r].buf
<1>1. reader \in [Reader -> ReaderType]
  BY Types
<1>2. \/ reader' = [reader EXCEPT ![r] = [NoThread EXCEPT !.pc = "test"]]
      \/ /\ cli.socket_id # None /\ sock[cli.socket_id].state = "up"
         /\ reader' = [reader EXCEPT ![r] = [reader[r] EXCEPT !.pc = "recv", !.on = cli.socket_id]]
  BY DEF ReaderEnters, ReaderGoto
<1> QED BY <1>1, <1>2 DEF ReaderEnters, ReaderAt, NoThread, ReaderType

(* recv() of a thread: it has bytes in hand, or goes back.                 *)
LEMMA ReaderReceivesShape ==
  ASSUME IInv, NEW r \in Reader, ReaderReceives(r)
  PROVE  /\ reader[r].pc = "recv" /\ reader[r].on \in Sock /\ fault = "no"
         /\ Received(reader[r].on, Chunk)
         /\ \A x \in Reader \ {r} : reader'[x] = reader[x]
         /\ reader'[r].on = None
         /\ IF sock[reader[r].on].in = <<>>
            THEN reader'[r].pc = "test" /\ reader'[r].buf = <<>>
            ELSE reader'[r].pc = "notify" /\ reader'[r].buf = Got(reader[r].on, Chunk)
<1>1. reader \in [Reader -> ReaderType]
  BY Types DEF IInv
<1>2. reader[r].pc = "recv" /\ reader[r].on \in Sock /\ fault = "no"
  BY <1>1 DEF IInv, ThreadInv, ReaderReceives, ReaderAt, ReaderType
<1>3. \/ /\ sock[reader[r].on].in # <<>>
         /\ reader' = [reader EXCEPT ![r] = [pc |-> "notify", on |-> None, buf |-> Got(reader[r].on, Chunk)]]
      \/ /\ sock[reader[r].on].in = <<>>
         /\ reader' = [reader EXCEPT ![r] = [NoThread EXCEPT !.pc = "test"]]
  BY DEF ReaderReceives, ReaderGoto
<1> QED BY <1>1, <1>2, <1>3 DEF ReaderReceives, NoThread

(* A thread that goes into recv() or comes back from it.                   *)
LEMMA ReadsKeepThreads ==
  ASSUME SocketCliAssumption, IInv, NEW r \in Reader, ReaderEnters(r) \/ ReaderReceives(r)
  PROVE  ThreadInv' /\ MadeInv'
<1>1. /\ reader \in [Reader -> ReaderType] /\ sock \in [Sock -> SockType] /\ cli \in ClientType
      /\ ThreadInv /\ MadeInv /\ Chunk \in Nat
  BY Types DEF IInv, SocketCliAssumption
<1>2. cli' = cli /\ call' = call
  BY DEF ReaderEnters, ReaderReceives
<1>3. /\ \A x \in Reader \ {r} : reader'[x] = reader[x]
      /\ reader[r].pc \in {"enter", "recv"} /\ reader'[r].pc \in {"test", "notify", "recv"}
      /\ reader'[r].pc = "recv" => /\ cli.socket_id # None /\ sock[cli.socket_id].state = "up"
                                   /\ reader'[r].on = cli.socket_id
      /\ reader'[r].pc # "recv" => reader'[r].on = None
      /\ reader'[r].pc # "notify" => reader'[r].buf = <<>>
  <2>1. CASE ReaderEnters(r)
    BY <1>1, <2>1, EntersShape DEF IInv, ThreadInv
  <2>2. CASE ReaderReceives(r)
    BY <2>2, ReaderReceivesShape
  <2> QED BY <2>1, <2>2
<1>4. \A g \in Sock : /\ sock'[g].state = sock[g].state
                      /\ sock[g].state = "made" => sock'[g] = sock[g]
  <2>1. CASE ReaderEnters(r)
    BY <2>1 DEF ReaderEnters
  <2>2. CASE ReaderReceives(r)
    <3>1. Received(reader[r].on, Chunk) /\ reader[r].on \in Sock
      BY <2>2, ReaderReceivesShape
    <3>2. sock[reader[r].on].state # "made"
      BY <1>1, <3>1 DEF MadeInv
    <3> QED BY <1>1, <3>1, <3>2, ReceivedType
  <2> QED BY <2>1, <2>2
<1>5. ThreadInv'
  <2>1. Known = IF cli.t_id = None THEN "none" ELSE reader[cli.t_id].pc
    BY DEF Known
  <2>2. Known' = IF cli.t_id = None THEN "none" ELSE reader'[cli.t_id].pc
    BY <1>2 DEF Known
  <2>3. Known' # "none" => Known # "none"
    BY <1>1, <1>3, <2>1, <2>2 DEF ClientType
  <2>4. Known' = "recv" => reader'[cli.t_id].on = cli.socket_id /\ sock'[cli.socket_id].state = "up"
    <3>1. Known' = "recv" => /\ reader'[cli.t_id].on = cli.socket_id /\ cli.socket_id \in Sock
                             /\ sock[cli.socket_id].state = "up"
      BY <1>1, <1>3, <2>1, <2>2 DEF ClientType, ThreadInv, ReaderType, SocketCliAssumption
    <3> QED BY <1>4, <3>1
  <2>5. \A x \in Reader : /\ reader'[x].pc = "recv" <=> reader'[x].on # None
                          /\ reader'[x].pc # "notify" => reader'[x].buf = <<>>
    BY <1>1, <1>3 DEF ThreadInv
  <2> QED BY <1>1, <1>2, <2>3, <2>4, <2>5 DEF ThreadInv
<1>6. MadeInv'
  <2> SUFFICES ASSUME NEW f \in Sock, sock'[f].state = "made"
               PROVE  /\ sock'[f].in = <<>> /\ sock'[f].sent = 0 /\ sock'[f].end = "no"
                      /\ \A x \in Reader : reader'[x].on # f
    BY DEF MadeInv
  <2>1. sock[f].state = "made" /\ sock'[f] = sock[f]
    BY <1>4
  <2>2. \A x \in Reader : reader'[x].on # f
    BY <1>1, <1>3, <2>1 DEF MadeInv, SocketCliAssumption
  <2> QED BY <1>1, <2>1, <2>2 DEF MadeInv
<1> QED BY <1>5, <1>6

(* recv() of the application is on a connected socket.                     *)
LEMMA ReceivesKeepMade ==
  ASSUME SocketCliAssumption, IInv, Receives
  PROVE  MadeInv'
<1>1. /\ cli \in ClientType /\ sock \in [Sock -> SockType] /\ CallOK(call) /\ MadeInv
  BY Types DEF IInv
<1> DEFINE f == cli.socket_id
<1> DEFINE n == call.len - call.got
<1>2. n \in Nat /\ f \in Sock /\ sock[f].state = "up"
  BY <1>1 DEF Receives, At, IInv, CallInv, ConnInv, NoConnectionLost, ClientType, CallOK, CallType
<1>3. Received(f, n) /\ reader' = reader
  BY DEF Receives
<1> HIDE DEF f, n
<1>4. \A g \in Sock : sock'[g].state = sock[g].state /\ (g # f => sock'[g] = sock[g])
  BY <1>1, <1>2, <1>3, ReceivedType
<1> QED BY <1>1, <1>2, <1>3, <1>4 DEF MadeInv

-----------------------------------------------------------------------------
(* The parts of the inductive invariant, action by action.                 *)

(* The client is what the call it is in needs.                             *)
LEMMA CallStep ==
  ASSUME SocketCliAssumption, IInv, Next
  PROVE  CallInv'
<1> USE SocketCliAssumption DEF SocketCliAssumption, IInv, TypeOK, CallInv, ConnInv, NoConnectionLost, At,
              Received
<1>1. ASSUME NEW a \in BOOLEAN, New(a) PROVE CallInv'
  BY <1>1 DEF New, NewClient, NoClient
<1>2. CASE ConnectMakes
  BY <1>2 DEF ConnectMakes, FreeSock, InUse, Goto
<1>3. CASE ConnectMakesNone
  BY <1>3 DEF ConnectMakesNone
<1>4. CASE ConnectSucceeds
  BY <1>4 DEF ConnectSucceeds, Return, Idle
<1>5. CASE Register
  BY <1>5 DEF Register, ReaderGoto, NoThread
<1>6. ASSUME NEW op \in {"read", "read_all"}, NEW len \in Length, NEW timed \in BOOLEAN,
             ReadStarts(op, len, timed)
      PROVE  CallInv'
  BY <1>6 DEF ReadStarts
<1>7. ASSUME NEW len \in Length, WriteStarts(len) PROVE CallInv'
  BY <1>7 DEF WriteStarts, Idle
<1>8. CASE CleanStarts
  BY <1>8 DEF CleanStarts, Idle
<1>9. ASSUME NEW op \in {"disconnect", "destory"}, DisconnectStarts(op) PROVE CallInv'
  BY <1>9, DisconnectShape DEF DisconnectStarts
<1>10. CASE ConnectFails
  BY <1>10 DEF ConnectFails, Return, Idle
<1>11. CASE SelectReports \/ SelectTimesOut \/ SendFails \/ CleanPolls
  BY <1>11 DEF SelectReports, SelectTimesOut, SendFails, CleanPolls, Goto, Return, Idle
<1>12. CASE Receives
  BY <1>12, ReceivesShape DEF Receives
<1>13. CASE Sends
  BY <1>13, SendsShape DEF Sends
<1>14. CASE CleanDrops
  BY <1>14 DEF CleanDrops, Goto
<1>15. CASE Joins
  BY <1>15 DEF Joins, NoThread, Goto
<1>16. CASE JoinsNobody
  BY <1>16 DEF JoinsNobody
<1>17. CASE Closes
  BY <1>17 DEF Closes, ClosesSock, FreeSock, Freed, Return, Idle
<1>18. ASSUME NEW r \in Reader, ReaderUsesFreed(r) PROVE CallInv'
  BY <1>18 DEF ReaderUsesFreed
<1>19. ASSUME NEW r \in Reader, ReaderTests(r) PROVE CallInv'
  BY <1>19 DEF ReaderTests, ReaderGoto, NoThread, ReaderAt
<1>20. ASSUME NEW r \in Reader, ReaderEnters(r) PROVE CallInv'
  BY <1>20, EntersShape DEF ReaderEnters
<1>21. ASSUME NEW r \in Reader, ReaderReceives(r) PROVE CallInv'
  BY <1>21, ReaderReceivesShape DEF ReaderReceives
<1>22. ASSUME NEW r \in Reader, ReaderNotifies(r) PROVE CallInv'
  BY <1>22 DEF ReaderNotifies, ReaderGoto, NoThread, ReaderAt
<1>23. ASSUME NEW f \in Sock, PeerSends(f) PROVE CallInv'
  BY <1>23 DEF PeerSends, InUse
<1>24. ASSUME NEW f \in Sock, NEW how \in {"eof", "reset"}, PeerEnds(f, how) PROVE CallInv'
  BY <1>24 DEF PeerEnds, InUse
<1> HIDE DEF CallInv
<1> QED
  BY <1>1, <1>2, <1>3, <1>4, <1>5, <1>6, <1>7, <1>8, <1>9, <1>11, <1>12, <1>13,
     <1>14, <1>15, <1>16, <1>17, <1>18, <1>19, <1>20, <1>21, <1>22, <1>23, <1>24, <1>10
     DEF Next, Starts, Proceeds, Reads, Peer

(* is_connect, socket_id and the kernel agree.                             *)
LEMMA ConnStep ==
  ASSUME SocketCliAssumption, IInv, Next
  PROVE  ConnInv'
<1> USE SocketCliAssumption DEF SocketCliAssumption, IInv, TypeOK, CallInv, ConnInv, NoConnectionLost, At,
              Received, MadeInv
<1>1. ASSUME NEW a \in BOOLEAN, New(a) PROVE ConnInv'
  BY <1>1 DEF New, NewClient, NoClient
<1>2. CASE ConnectMakes
  BY <1>2 DEF ConnectMakes, FreeSock, InUse, Goto
<1>3. CASE ConnectMakesNone
  BY <1>3 DEF ConnectMakesNone
<1>4. CASE ConnectSucceeds
  BY <1>4 DEF ConnectSucceeds, Return, Idle
<1>5. CASE Register
  BY <1>5 DEF Register, ReaderGoto, NoThread
<1>6. ASSUME NEW op \in {"read", "read_all"}, NEW len \in Length, NEW timed \in BOOLEAN,
             ReadStarts(op, len, timed)
      PROVE  ConnInv'
  BY <1>6 DEF ReadStarts
<1>7. ASSUME NEW len \in Length, WriteStarts(len) PROVE ConnInv'
  BY <1>7 DEF WriteStarts, Idle
<1>8. CASE CleanStarts
  BY <1>8 DEF CleanStarts, Idle
<1>9. ASSUME NEW op \in {"disconnect", "destory"}, DisconnectStarts(op) PROVE ConnInv'
  BY <1>9, DisconnectShape, ZenonT(60) DEF DisconnectStarts
<1>10. CASE ConnectFails
  BY <1>10 DEF ConnectFails, Return, Idle
<1>11. CASE SelectReports \/ SelectTimesOut \/ SendFails \/ CleanPolls
  BY <1>11 DEF SelectReports, SelectTimesOut, SendFails, CleanPolls, Goto, Return, Idle
<1>12. CASE Receives
  BY <1>12, ReceivesShape DEF Receives
<1>13. CASE Sends
  BY <1>13, SendsShape DEF Sends
<1>14. CASE CleanDrops
  BY <1>14 DEF CleanDrops, Goto
<1>15. CASE Joins
  BY <1>15 DEF Joins, NoThread, Goto
<1>16. CASE JoinsNobody
  BY <1>16 DEF JoinsNobody
<1>17. CASE Closes
  BY <1>17 DEF Closes, ClosesSock, FreeSock, Freed, Return, Idle
<1>18. ASSUME NEW r \in Reader, ReaderUsesFreed(r) PROVE ConnInv'
  BY <1>18 DEF ReaderUsesFreed
<1>19. ASSUME NEW r \in Reader, ReaderTests(r) PROVE ConnInv'
  BY <1>19 DEF ReaderTests, ReaderGoto, NoThread, ReaderAt
<1>20. ASSUME NEW r \in Reader, ReaderEnters(r) PROVE ConnInv'
  BY <1>20, EntersShape DEF ReaderEnters
<1>21. ASSUME NEW r \in Reader, ReaderReceives(r) PROVE ConnInv'
  <2>1. \A g \in Sock : sock'[g].state = sock[g].state
    <3>1. reader[r].on \in Sock /\ Received(reader[r].on, Chunk)
      BY <1>21, ReaderReceivesShape
    <3>2. sock \in [Sock -> SockType] /\ Chunk \in Nat
      BY Types
    <3> HIDE DEF Received
    <3> QED BY <3>1, <3>2, ReceivedType
  <2>2. cli' = cli /\ call' = call
    BY <1>21 DEF ReaderReceives
  <2>3. cli.socket_id # None => cli.socket_id \in Sock
    BY Types DEF ClientType
  <2> HIDE DEF TypeOK, CallInv, MadeInv, Received
  <2> QED BY <2>1, <2>2, <2>3
<1>22. ASSUME NEW r \in Reader, ReaderNotifies(r) PROVE ConnInv'
  BY <1>22 DEF ReaderNotifies, ReaderGoto, NoThread, ReaderAt
<1>23. ASSUME NEW f \in Sock, PeerSends(f) PROVE ConnInv'
  <2>1. \A g \in Sock : sock'[g].state = sock[g].state
    <3> DEFINE in == Append(sock[f].in, sock[f].sent + 1)
    <3> DEFINE n == sock[f].sent + 1
    <3>1. sock' = [sock EXCEPT ![f].sent = n, ![f].in = in] /\ sock \in [Sock -> SockType]
      BY <1>23, Types DEF PeerSends
    <3> HIDE DEF in, n
    <3> QED BY <3>1 DEF SockType
  <2>2. cli' = cli /\ call' = call
    BY <1>23 DEF PeerSends
  <2>3. cli.socket_id # None => cli.socket_id \in Sock
    BY Types DEF ClientType
  <2> HIDE DEF TypeOK, CallInv, MadeInv, Received
  <2> QED BY <2>1, <2>2, <2>3
<1>24. ASSUME NEW f \in Sock, NEW how \in {"eof", "reset"}, PeerEnds(f, how) PROVE ConnInv'
  BY <1>24 DEF PeerEnds, InUse
<1> HIDE DEF ConnInv
<1> QED
  BY <1>1, <1>2, <1>3, <1>4, <1>5, <1>6, <1>7, <1>8, <1>9, <1>11, <1>12, <1>13,
     <1>14, <1>15, <1>16, <1>17, <1>18, <1>19, <1>20, <1>21, <1>22, <1>23, <1>24, <1>10
     DEF Next, Starts, Proceeds, Reads, Peer

(* The thread the client knows runs within the connection.                 *)
LEMMA ThreadStep ==
  ASSUME SocketCliAssumption, IInv, Next
  PROVE  ThreadInv'
<1> USE SocketCliAssumption DEF SocketCliAssumption, IInv, TypeOK, CallInv, ConnInv, NoConnectionLost,
              ThreadInv, Known, At, Received
<1>1. ASSUME NEW a \in BOOLEAN, New(a) PROVE ThreadInv'
  BY <1>1 DEF New, NewClient, NoClient
<1>2. CASE ConnectMakes
  BY <1>2 DEF ConnectMakes, FreeSock, InUse, Goto
<1>3. CASE ConnectMakesNone
  BY <1>3 DEF ConnectMakesNone
<1>4. CASE ConnectSucceeds
  BY <1>4 DEF ConnectSucceeds, Return, Idle
<1>5. CASE Register
  BY <1>5 DEF Register, ReaderGoto, NoThread
<1>6. ASSUME NEW op \in {"read", "read_all"}, NEW len \in Length, NEW timed \in BOOLEAN,
             ReadStarts(op, len, timed)
      PROVE  ThreadInv'
  BY <1>6 DEF ReadStarts
<1>7. ASSUME NEW len \in Length, WriteStarts(len) PROVE ThreadInv'
  BY <1>7 DEF WriteStarts, Idle
<1>8. CASE CleanStarts
  BY <1>8 DEF CleanStarts, Idle
<1>9. ASSUME NEW op \in {"disconnect", "destory"}, DisconnectStarts(op) PROVE ThreadInv'
  BY <1>9, DisconnectShape, ZenonT(60) DEF DisconnectStarts
<1>10. CASE ConnectFails
  BY <1>10 DEF ConnectFails, Return, Idle
<1>11. CASE SelectReports \/ SelectTimesOut \/ SendFails \/ CleanPolls
  BY <1>11 DEF SelectReports, SelectTimesOut, SendFails, CleanPolls, Goto, Return, Idle
<1>12. CASE Receives
  BY <1>12, ReceivesShape DEF Receives
<1>13. CASE Sends
  BY <1>13, SendsShape DEF Sends
<1>14. CASE CleanDrops
  BY <1>14 DEF CleanDrops, Goto
<1>15. CASE Joins
  BY <1>15 DEF Joins, NoThread, Goto
<1>16. CASE JoinsNobody
  BY <1>16 DEF JoinsNobody
<1>17. CASE Closes
  BY <1>17 DEF Closes, ClosesSock, FreeSock, Freed, Return, Idle
<1>18. ASSUME NEW r \in Reader, ReaderUsesFreed(r) PROVE ThreadInv'
  BY <1>18 DEF ReaderUsesFreed
<1>19. ASSUME NEW r \in Reader, ReaderTests(r) PROVE ThreadInv'
  BY <1>19 DEF ReaderTests, ReaderGoto, NoThread, ReaderAt
<1>20. ASSUME NEW r \in Reader, ReaderEnters(r) PROVE ThreadInv'
  BY <1>20, ReadsKeepThreads
<1>21. ASSUME NEW r \in Reader, ReaderReceives(r) PROVE ThreadInv'
  BY <1>21, ReadsKeepThreads
<1>22. ASSUME NEW r \in Reader, ReaderNotifies(r) PROVE ThreadInv'
  BY <1>22 DEF ReaderNotifies, ReaderGoto, NoThread, ReaderAt
<1>23. ASSUME NEW f \in Sock, PeerSends(f) PROVE ThreadInv'
  BY <1>23 DEF PeerSends, InUse
<1>24. ASSUME NEW f \in Sock, NEW how \in {"eof", "reset"}, PeerEnds(f, how) PROVE ThreadInv'
  BY <1>24 DEF PeerEnds, InUse
<1> HIDE DEF ThreadInv
<1> QED
  BY <1>1, <1>2, <1>3, <1>4, <1>5, <1>6, <1>7, <1>8, <1>9, <1>11, <1>12, <1>13,
     <1>14, <1>15, <1>16, <1>17, <1>18, <1>19, <1>20, <1>21, <1>22, <1>23, <1>24, <1>10
     DEF Next, Starts, Proceeds, Reads, Peer

(* A socket that is not connected yet is as socket() made it.              *)
LEMMA MadeStep ==
  ASSUME SocketCliAssumption, IInv, Next
  PROVE  MadeInv'
<1> USE SocketCliAssumption DEF SocketCliAssumption, IInv, TypeOK, CallInv, ConnInv, NoConnectionLost,
              ThreadInv, MadeInv, At, Received
<1>1. ASSUME NEW a \in BOOLEAN, New(a) PROVE MadeInv'
  BY <1>1 DEF New, NewClient, NoClient
<1>2. CASE ConnectMakes
  BY <1>2 DEF ConnectMakes, FreeSock, InUse, Goto
<1>3. CASE ConnectMakesNone
  BY <1>3 DEF ConnectMakesNone
<1>4. CASE ConnectSucceeds
  BY <1>4 DEF ConnectSucceeds, Return, Idle
<1>5. CASE Register
  BY <1>5 DEF Register, ReaderGoto, NoThread
<1>6. ASSUME NEW op \in {"read", "read_all"}, NEW len \in Length, NEW timed \in BOOLEAN,
             ReadStarts(op, len, timed)
      PROVE  MadeInv'
  BY <1>6 DEF ReadStarts
<1>7. ASSUME NEW len \in Length, WriteStarts(len) PROVE MadeInv'
  BY <1>7 DEF WriteStarts, Idle
<1>8. CASE CleanStarts
  BY <1>8 DEF CleanStarts, Idle
<1>9. ASSUME NEW op \in {"disconnect", "destory"}, DisconnectStarts(op) PROVE MadeInv'
  BY <1>9, DisconnectShape DEF DisconnectStarts
<1>10. CASE ConnectFails
  BY <1>10 DEF ConnectFails, Return, Idle
<1>11. CASE SelectReports \/ SelectTimesOut \/ SendFails \/ CleanPolls
  BY <1>11 DEF SelectReports, SelectTimesOut, SendFails, CleanPolls, Goto, Return, Idle
<1>12. CASE Receives
  BY <1>12, ReceivesKeepMade
<1>13. CASE Sends
  BY <1>13, SendsShape DEF Sends
<1>14. CASE CleanDrops
  BY <1>14 DEF CleanDrops, Goto
<1>15. CASE Joins
  BY <1>15 DEF Joins, NoThread, Goto
<1>16. CASE JoinsNobody
  BY <1>16 DEF JoinsNobody
<1>17. CASE Closes
  BY <1>17 DEF Closes, ClosesSock, FreeSock, Freed, Return, Idle
<1>18. ASSUME NEW r \in Reader, ReaderUsesFreed(r) PROVE MadeInv'
  BY <1>18 DEF ReaderUsesFreed
<1>19. ASSUME NEW r \in Reader, ReaderTests(r) PROVE MadeInv'
  BY <1>19 DEF ReaderTests, ReaderGoto, NoThread, ReaderAt
<1>20. ASSUME NEW r \in Reader, ReaderEnters(r) PROVE MadeInv'
  BY <1>20, ReadsKeepThreads
<1>21. ASSUME NEW r \in Reader, ReaderReceives(r) PROVE MadeInv'
  BY <1>21, ReadsKeepThreads
<1>22. ASSUME NEW r \in Reader, ReaderNotifies(r) PROVE MadeInv'
  BY <1>22 DEF ReaderNotifies, ReaderGoto, NoThread, ReaderAt
<1>23. ASSUME NEW f \in Sock, PeerSends(f) PROVE MadeInv'
  BY <1>23 DEF PeerSends, InUse
<1>24. ASSUME NEW f \in Sock, NEW how \in {"eof", "reset"}, PeerEnds(f, how) PROVE MadeInv'
  BY <1>24 DEF PeerEnds, InUse
<1> HIDE DEF MadeInv
<1> QED
  BY <1>1, <1>2, <1>3, <1>4, <1>5, <1>6, <1>7, <1>8, <1>9, <1>11, <1>12, <1>13,
     <1>14, <1>15, <1>16, <1>17, <1>18, <1>19, <1>20, <1>21, <1>22, <1>23, <1>24, <1>10
     DEF Next, Starts, Proceeds, Reads, Peer

(* pthread_join is given the id of no thread by JoinsNobody alone.         *)
LEMMA JoinsStep ==
  ASSUME SocketCliAssumption, IInv, Next
  PROVE  JoinsRegistered'
<1>1. fault = "no"
  BY ZenonT(60) DEF Next, Starts, Proceeds, Reads, Peer, New, ConnectMakes, ConnectMakesNone, Register,
         CleanStarts, ReadStarts, WriteStarts, DisconnectStarts, ConnectSucceeds, ConnectFails,
         SelectReports, SelectTimesOut, Receives, Sends, SendFails, CleanPolls, CleanDrops, Joins,
         JoinsNobody, Closes, ReaderUsesFreed, ReaderTests, ReaderEnters, ReaderReceives,
         ReaderNotifies, PeerSends, PeerEnds, At, ReaderAt
<1>2. fault' # "join" \/ JoinsNobody
  BY <1>1
     DEF Next, Starts, Proceeds, Reads, Peer, New, ConnectMakes, ConnectMakesNone, Register,
         CleanStarts, ReadStarts, WriteStarts, DisconnectStarts, ConnectSucceeds, ConnectFails,
         SelectReports, SelectTimesOut, Receives, Sends, SendFails, CleanPolls, CleanDrops, Joins,
         Closes, ReaderUsesFreed, ReaderTests, ReaderEnters, ReaderReceives,
         ReaderNotifies, PeerSends, PeerEnds
<1>3. CASE JoinsNobody
  <2>1. cli.socket_id \in Sock /\ call.pc = "join" /\ Known = "none" /\ sock \in [Sock -> SockType]
    BY <1>3, Types DEF JoinsNobody, At, IInv, CallInv, ClientType
  <2>2. ~sock[cli.socket_id].notify
    BY <2>1, SocketCliAssumption DEF IInv, NotifyInv, SockType, SocketCliAssumption
  <2> QED BY <1>3, <2>2 DEF JoinsNobody, JoinsRegistered
<1> QED BY <1>2, <1>3, SMTT(30) DEF JoinsRegistered

(* A registered callback has a thread until it is joined.                  *)
LEMMA NotifyStep ==
  ASSUME SocketCliAssumption, IInv, Next
  PROVE  NotifyInv'
<1>1. /\ cli \in ClientType /\ sock \in [Sock -> SockType] /\ CallOK(call)
      /\ reader \in [Reader -> ReaderType] /\ None \notin Reader \cup Sock
      /\ NotifyInv /\ Chunk \in Nat
  BY Types DEF IInv, SocketCliAssumption
<1>2. Known = IF cli.t_id = None THEN "none" ELSE reader[cli.t_id].pc
  BY DEF Known
<1>3. Known' = IF cli'.t_id = None THEN "none" ELSE reader'[cli'.t_id].pc
  BY DEF Known
(* The connection, the callback and the thread stay. *)
<1> DEFINE Kept == /\ cli'.socket_id \in {None, cli.socket_id}
                   /\ cli.socket_id # None => sock'[cli.socket_id].notify = sock[cli.socket_id].notify
                   /\ Known # "none" => Known' # "none"
                   /\ call.pc # "close"
<1>4. Kept => NotifyInv'
  BY <1>1 DEF NotifyInv
<1>5. CASE (\E a \in BOOLEAN : New(a)) \/ ConnectMakesNone \/ Closes
  <2>1. cli'.socket_id = None
    BY <1>1, <1>5 DEF New, NewClient, NoClient, ConnectMakesNone, Closes, Freed, ClientType
  <2> QED BY <2>1 DEF NotifyInv
<1>6. CASE ConnectMakes
  <2>1. PICK f \in Sock : /\ cli' = [cli EXCEPT !.socket_id = f]
                          /\ sock' = [sock EXCEPT ![f] = [FreeSock EXCEPT !.state = "made"]]
    BY <1>6 DEF ConnectMakes
  <2>2. cli'.socket_id = f /\ ~sock'[f].notify
    BY <1>1, <2>1 DEF ClientType, FreeSock
  <2> QED BY <2>2 DEF NotifyInv
<1>7. CASE Register
  <2>1. PICK r \in Reader : cli' = [cli EXCEPT !.t_id = r] /\ ReaderGoto(r, "test")
    BY <1>7 DEF Register
  <2>2. cli'.t_id = r /\ reader'[r].pc = "test" /\ r # None
    BY <1>1, <2>1 DEF ClientType, ReaderGoto, NoThread
  <2> QED BY <1>3, <2>2 DEF NotifyInv
<1>8. ASSUME NEW op \in {"disconnect", "destory"}, DisconnectStarts(op) PROVE Kept
  BY <1>2, <1>3, <1>8, DisconnectShape DEF IInv, DisconnectStarts
<1>9. CASE ConnectSucceeds \/ ConnectFails
  <2>1. cli'.socket_id = cli.socket_id /\ cli'.t_id = cli.t_id /\ reader' = reader
    BY <1>1, <1>9 DEF ConnectSucceeds, ConnectFails, ClientType
  <2>2. cli.socket_id # None => sock'[cli.socket_id].notify = sock[cli.socket_id].notify
    BY <1>1, <1>9 DEF ConnectSucceeds, ConnectFails, ClientType, SockType
  <2>3. call.pc = "connect"
    BY <1>9 DEF ConnectSucceeds, ConnectFails, At
  <2> QED BY <1>2, <1>3, <1>4, <2>1, <2>2, <2>3
<1>10. CASE \/ CleanStarts \/ JoinsNobody \/ SelectReports \/ SelectTimesOut \/ Sends \/ SendFails \/ CleanPolls
            \/ (\E op \in {"read", "read_all"}, len \in Length, timed \in BOOLEAN : ReadStarts(op, len, timed))
            \/ \E len \in Length : WriteStarts(len)
  BY <1>2, <1>3, <1>4, <1>10
     DEF CleanStarts, JoinsNobody, SelectReports, SelectTimesOut, Sends, SendFails, CleanPolls,
         ReadStarts, WriteStarts, At
<1>11. CASE Receives
  <2>1. cli.socket_id \in Sock /\ call.len - call.got \in Nat
    BY <1>1, <1>11 DEF Receives, At, IInv, CallInv, ConnInv, NoConnectionLost, ClientType, CallOK, CallType
  <2>2. sock'[cli.socket_id].notify = sock[cli.socket_id].notify
    BY <1>1, <1>11, <2>1, ReceivedType DEF Receives
  <2> QED BY <1>2, <1>3, <1>4, <1>11, <2>2 DEF Receives, At
<1>12. CASE CleanDrops
  <2>1. cli.socket_id \in Sock
    BY <1>1, <1>12 DEF CleanDrops, At, IInv, CallInv, ConnInv, NoConnectionLost, ClientType
  <2>2. sock'[cli.socket_id].notify = sock[cli.socket_id].notify
    BY <1>1, <1>12, <2>1, ReceivedType DEF CleanDrops
  <2> QED BY <1>2, <1>3, <1>4, <1>12, <2>2 DEF CleanDrops, At
<1>13. CASE Joins
  <2>1. call'.pc = "close"
    BY <1>1, <1>13 DEF Joins, Goto, CallOK, CallType
  <2> QED BY <2>1 DEF NotifyInv
<1>14. ASSUME NEW r \in Reader, Reads(r) PROVE NotifyInv'
  <2>1. cli' = cli /\ call' = call
    BY <1>14 DEF Reads, ReaderUsesFreed, ReaderTests, ReaderEnters, ReaderReceives, ReaderNotifies
  <2>2. \A x \in Reader : reader[x].pc # "none" => reader'[x].pc # "none"
    <3>1. CASE ReaderUsesFreed(r) \/ ReaderTests(r) \/ ReaderNotifies(r)
      BY <1>1, <3>1 DEF ReaderUsesFreed, ReaderTests, ReaderNotifies, ReaderGoto, NoThread
    <3>2. CASE ReaderEnters(r)
      BY <3>2, EntersShape DEF IInv
    <3>3. CASE ReaderReceives(r)
      BY <3>3, ReaderReceivesShape
    <3> QED BY <1>14, <3>1, <3>2, <3>3 DEF Reads
  <2>3. \A g \in Sock : sock'[g].notify = sock[g].notify
    <3>1. CASE ReaderReceives(r)
      BY <1>1, <3>1, ReaderReceivesShape, ReceivedType
    <3> QED BY <1>14, <3>1 DEF Reads, ReaderUsesFreed, ReaderTests, ReaderEnters, ReaderNotifies
  <2>4. Known # "none" => Known' # "none"
    BY <1>1, <1>2, <1>3, <2>1, <2>2 DEF ClientType
  <2> QED BY <1>1, <2>1, <2>3, <2>4 DEF NotifyInv, ClientType
<1>15. ASSUME NEW f \in Sock, Peer(f) PROVE NotifyInv'
  <2>1. cli' = cli /\ call' = call /\ reader' = reader
    BY <1>15 DEF Peer, PeerSends, PeerEnds
  <2>2. \A g \in Sock : sock'[g].notify = sock[g].notify
    <3>1. CASE PeerSends(f)
      <4> DEFINE in == Append(sock[f].in, sock[f].sent + 1)
      <4> DEFINE n == sock[f].sent + 1
      <4>1. sock' = [sock EXCEPT ![f].sent = n, ![f].in = in]
        BY <3>1 DEF PeerSends
      <4> HIDE DEF in, n
      <4> QED BY <1>1, <4>1 DEF SockType
    <3>2. CASE PeerEnds(f, "eof") \/ PeerEnds(f, "reset")
      BY <1>1, <3>2, ZenonT(60) DEF PeerEnds, SockType
    <3> QED BY <1>15, <3>1, <3>2 DEF Peer
  <2>3. Known' = Known
    BY <1>2, <1>3, <2>1
  <2> QED BY <1>1, <2>1, <2>2, <2>3 DEF NotifyInv, ClientType
<1> QED
  BY <1>4, <1>5, <1>6, <1>7, <1>8, <1>9, <1>10, <1>11, <1>12, <1>13, <1>14, <1>15
     DEF Next, Starts, Proceeds

-----------------------------------------------------------------------------
(* The invariants                                                          *)

(* No client, no socket in use, no thread.                                 *)
LEMMA InitInv == SocketCliAssumption /\ Init => IInv
<1> SUFFICES ASSUME SocketCliAssumption, Init PROVE IInv
  OBVIOUS
<1>1. <<>> \in Seq(1 .. MaxBytes) /\ 0 \in 0 .. MaxBytes
  BY DEF SocketCliAssumption
<1>2. FreeSock \in SockType /\ NoThread \in ReaderType /\ NoClient \in ClientType
  BY <1>1 DEF FreeSock, SockType, NoThread, ReaderType, NoClient, ClientType
<1>3. TypeOK
  BY <1>1, <1>2, CallTypes, Types DEF Init
<1>4. CallInv /\ ConnInv /\ ThreadInv /\ MadeInv /\ NotifyInv /\ JoinsRegistered
  BY DEF Init, CallInv, ConnInv, NoConnectionLost, ThreadInv, Known, MadeInv, NotifyInv, JoinsRegistered,
         Idle, NoClient, FreeSock, NoThread
<1> QED BY <1>3, <1>4 DEF IInv

(* Every step keeps the inductive invariant.                               *)
LEMMA NextInv == SocketCliAssumption /\ IInv /\ [Next]_vars => IInv'
<1> SUFFICES ASSUME SocketCliAssumption, IInv, [Next]_vars PROVE IInv'
  OBVIOUS
<1>1. CASE Next
  BY <1>1, TypeStep, CallStep, ConnStep, ThreadStep, MadeStep, NotifyStep, JoinsStep DEF IInv
<1>2. CASE UNCHANGED vars
  BY <1>2 DEF vars, IInv, TypeOK, CallInv, ConnInv, NoConnectionLost, ThreadInv, Known, MadeInv,
              NotifyInv, JoinsRegistered
<1> QED BY <1>1, <1>2

(* The inductive invariant of SocketCli holds.                             *)
THEOREM AlwaysIInv == Spec => []IInv
<1>1. Init => IInv
  BY SocketCliAssumption, InitInv
<1>2. IInv /\ [Next]_vars => IInv'
  BY SocketCliAssumption, NextInv
<1> QED BY <1>1, <1>2, PTL DEF Spec

(* Types: no call has more bytes than it asked for, and the numbers of all *)
(* bytes are of those the peer has sent.                                   *)
THEOREM AlwaysTypeOK == Spec => []TypeOK
<1>1. IInv => TypeOK
  BY DEF IInv
<1> QED BY <1>1, AlwaysIInv, PTL

(* The client never loses a socket that is connected or connecting, nor    *)
(* works on one that is not (__connect_tcp, __disconnect_tcp).             *)
THEOREM AlwaysNoConnectionLost == Spec => []NoConnectionLost
<1>1. IInv => NoConnectionLost
  BY DEF IInv, ConnInv
<1> QED BY <1>1, AlwaysIInv, PTL

(* The thread the client knows ends before the socket is closed and the    *)
(* client freed (__disconnect_tcp joins before it closes).                 *)
THEOREM AlwaysReaderWithinConnection == Spec => []ReaderWithinConnection
<1>1. IInv => ReaderWithinConnection
  <2> SUFFICES ASSUME IInv, NEW r \in Reader \ Forgotten, reader[r].pc # "none"
               PROVE  /\ reader[r].pc = "recv" =>
                           reader[r].on = cli.socket_id /\ sock[reader[r].on].state = "up"
                      /\ cli.alive /\ (cli.is_connect \/ call.pc = "join")
    BY SocketCliAssumption DEF ReaderWithinConnection, SocketCliAssumption
  <2>1. r = cli.t_id /\ r # None /\ Known = reader[r].pc
    BY SocketCliAssumption DEF Forgotten, Known, SocketCliAssumption
  <2>2. cli.is_connect \/ call.pc = "join"
    BY <2>1 DEF IInv, ThreadInv
  <2>3. cli.alive
    BY <2>2 DEF IInv, CallInv, ConnInv, NoConnectionLost
  <2>4. reader[r].pc = "recv" => reader[r].on = cli.socket_id
    BY <2>1 DEF IInv, ThreadInv
  <2>5. reader[r].pc = "recv" => sock[reader[r].on].state = "up"
    BY <2>1 DEF IInv, ThreadInv
  <2> QED BY <2>2, <2>3, <2>4, <2>5
<1> QED BY <1>1, AlwaysIInv, PTL

(* The disconnect of a connection on which a callback was registered joins *)
(* a thread, never the id of none (socket_register_notify sets t_id before *)
(* __disconnect_tcp reads it).                                             *)
THEOREM AlwaysJoinsRegistered == Spec => []JoinsRegistered
<1>1. IInv => JoinsRegistered
  BY DEF IInv
<1> QED BY <1>1, AlwaysIInv, PTL

-----------------------------------------------------------------------------
(* socket_clean and the reader                                             *)

(* Between select() and recv() of __clean_tcp only a running reader can    *)
(* take what was reported, and it goes on running while connected.         *)
LEMMA CleanStep ==
  ASSUME SocketCliAssumption, IInv, CleanWaitsBehindReader, [Next]_vars
  PROVE  CleanWaitsBehindReader'
<1> SUFFICES ASSUME call'.pc = "drop", ~Ready(cli.socket_id)' PROVE \E r \in Reader : Running(r)'
  BY DEF CleanWaitsBehindReader
<1>1. /\ cli \in ClientType /\ sock \in [Sock -> SockType] /\ CallOK(call)
      /\ reader \in [Reader -> ReaderType]
  BY Types DEF IInv
<1>2. CASE UNCHANGED vars
  BY <1>2 DEF vars, CleanWaitsBehindReader, Ready, Running
<1>3. CASE CleanPolls
  BY <1>1, <1>3 DEF CleanPolls, Return, Idle, Ready
<1>4. ASSUME call' = call, call.pc = "drop" PROVE cli.alive /\ cli.is_connect /\ cli.socket_id \in Sock
  BY <1>1, <1>4 DEF IInv, CallInv, ConnInv, NoConnectionLost, ClientType
<1>5. ASSUME NEW f \in Sock, Peer(f) PROVE \E r \in Reader : Running(r)'
  <2>1. call' = call /\ cli' = cli /\ reader' = reader
    BY <1>5 DEF Peer, PeerSends, PeerEnds
  <2>2. \A g \in Sock : Ready(g) => Ready(g)'
    <3>1. CASE PeerSends(f)
      <4> DEFINE in == sock[f].in
      <4> DEFINE n == sock[f].sent + 1
      <4>1. in \in Seq(1 .. MaxBytes) /\ n \in 1 .. MaxBytes
        BY <1>1, <3>1 DEF PeerSends, SockType, SocketCliAssumption
      <4>2. \A g \in Sock : sock'[g] = IF g = f THEN [sock[f] EXCEPT !.sent = n, !.in = Append(in, n)] ELSE sock[g]
        BY <1>1, <3>1 DEF PeerSends
      <4> HIDE DEF in, n
      <4>3. Append(in, n) # <<>>
        <5>1. Len(Append(in, n)) = Len(in) + 1 /\ Len(in) \in Nat
          BY <4>1, AppendProperties, LenProperties
        <5> DEFINE longer == Append(in, n)
        <5>2. Len(longer) # 0
          BY <5>1
        <5> HIDE DEF longer
        <5>3. longer # <<>>
          BY <5>2
        <5> QED BY <5>3 DEF longer
      <4> QED BY <1>1, <4>2, <4>3 DEF Ready, SockType
    <3>2. CASE PeerEnds(f, "eof") \/ PeerEnds(f, "reset")
      BY <1>1, <3>2 DEF PeerEnds, Ready, SockType
    <3> QED BY <1>5, <3>1, <3>2 DEF Peer
  <2>3. cli.socket_id \in Sock
    BY <1>4, <2>1
  <2>4. call.pc = "drop" /\ ~Ready(cli.socket_id)
    BY <2>1, <2>2, <2>3
  <2> QED BY <2>1, <2>4 DEF CleanWaitsBehindReader, Running
<1>6. ASSUME NEW r \in Reader, Reads(r) PROVE \E x \in Reader : Running(x)'
  <2>1. call' = call
    BY <1>6 DEF Reads, ReaderUsesFreed, ReaderTests, ReaderEnters, ReaderReceives, ReaderNotifies
  <2>2. cli.alive /\ cli.is_connect
    BY <1>4, <2>1
  <2>3. CASE ReaderTests(r) \/ ReaderNotifies(r)
    BY <1>1, <2>2, <2>3 DEF ReaderTests, ReaderNotifies, ReaderGoto, Running, NoThread
  <2>4. CASE ReaderEnters(r)
    BY <2>4, EntersShape DEF IInv, Running
  <2>5. CASE ReaderReceives(r)
    BY <2>5, ReaderReceivesShape DEF Running
  <2>6. ~ReaderUsesFreed(r)
    BY <2>2 DEF ReaderUsesFreed
  <2> QED BY <1>6, <2>3, <2>4, <2>5, <2>6 DEF Reads
<1>7. ASSUME Starts PROVE call'.pc # "drop"
  <2>1. ASSUME NEW op \in {"disconnect", "destory"}, DisconnectStarts(op) PROVE call'.pc # "drop"
    BY <2>1, DisconnectShape DEF IInv
  <2>2. CASE (\E a \in BOOLEAN : New(a)) \/ ConnectMakesNone \/ Register
    BY <2>2 DEF New, ConnectMakesNone, Register, At
  <2>3. CASE ConnectMakes
    BY <1>1, <2>3 DEF ConnectMakes, Goto, CallOK, CallType
  <2>4. CASE CleanStarts \/ \E len \in Length : WriteStarts(len)
    <3>1. Idle \in CallType
      BY CallTypes DEF CallOK
    <3> QED BY <2>4, <3>1 DEF CleanStarts, WriteStarts, CallType
  <2>5. CASE \E op \in {"read", "read_all"}, len \in Length, timed \in BOOLEAN : ReadStarts(op, len, timed)
    BY <2>5 DEF ReadStarts
  <2> QED BY <1>7, <2>1, <2>2, <2>3, <2>4, <2>5 DEF Starts
<1>8. ASSUME Proceeds PROVE call'.pc # "drop" \/ CleanPolls
  <2>1. CASE Receives
    BY <2>1, ReceivesShape DEF IInv
  <2>2. CASE Sends
    BY <2>2, SendsShape DEF IInv
  <2>3. CASE ConnectSucceeds \/ ConnectFails \/ SelectTimesOut \/ SendFails \/ Closes
    BY <2>3 DEF ConnectSucceeds, ConnectFails, SelectTimesOut, SendFails, Closes, Return, Idle
  <2>4. CASE SelectReports \/ CleanDrops \/ Joins \/ JoinsNobody
    BY <1>1, <2>4 DEF SelectReports, CleanDrops, Joins, JoinsNobody, At, Goto, CallOK, CallType
  <2> QED BY <1>8, <2>1, <2>2, <2>3, <2>4 DEF Proceeds
<1> QED BY <1>2, <1>3, <1>5, <1>6, <1>7, <1>8 DEF Next

(* socket_clean waits for the peer only behind a reader that has taken the *)
(* byte that select() reported (__clean_tcp).                              *)
THEOREM AlwaysCleanWaitsBehindReader == Spec => []CleanWaitsBehindReader
<1>1. Init => CleanWaitsBehindReader
  BY DEF Init, Idle, CleanWaitsBehindReader
<1>2. IInv /\ CleanWaitsBehindReader /\ [Next]_vars => CleanWaitsBehindReader'
  BY SocketCliAssumption, CleanStep
<1> QED BY <1>1, <1>2, AlwaysIInv, PTL DEF Spec

-----------------------------------------------------------------------------
(* Sequences of bytes in order                                             *)

(* What StreamInOrder asks of the stream.                                  *)
Increasing(s) == \A i, j \in DOMAIN s : i < j => s[i] < s[j]

(* A concatenation, one half after the other.                              *)
LEMMA Joined ==
  ASSUME NEW x \in Seq(Nat), NEW y \in Seq(Nat), NEW k, k = Len(x), NEW m, m = Len(y)
  PROVE  /\ k \in Nat /\ m \in Nat
         /\ x \o y \in Seq(Nat) /\ DOMAIN (x \o y) = 1 .. k + m
         /\ \A i \in 1 .. k : (x \o y)[i] = x[i] /\ x[i] \in Nat
         /\ \A i \in 1 .. m : (x \o y)[k + i] = y[i] /\ y[i] \in Nat
<1>1. k \in Nat /\ m \in Nat
  BY LenProperties
<1> DEFINE t == x \o y
<1>2. t \in Seq(Nat) /\ Len(t) = Len(x) + Len(y)
  BY ConcatProperties
<1>3. \A i \in 1 .. Len(x) + Len(y) : t[i] = IF i <= Len(x) THEN x[i] ELSE y[i - Len(x)]
  BY ConcatProperties
<1>4. /\ \A i \in 1 .. k : x[i] \in Nat
      /\ \A i \in 1 .. m : y[i] \in Nat
  BY ElementOfSeq
<1> HIDE DEF t
<1>5. DOMAIN t = 1 .. k + m
  BY <1>2, LenProperties
<1>6. \A i \in 1 .. k : t[i] = x[i]
  BY <1>1, <1>3
<1>7. ASSUME NEW i \in 1 .. m PROVE t[k + i] = y[i]
  <2> DEFINE j == k + i
  <2>1. j \in 1 .. k + m /\ ~(j <= k) /\ j - k = i
    BY <1>1
  <2> HIDE DEF j
  <2>2. t[j] = y[j - k]
    BY <1>3, <2>1
  <2> QED BY <2>1, <2>2 DEF j
<1> QED BY <1>1, <1>2, <1>4, <1>5, <1>6, <1>7 DEF t

(* Concatenation is associative.                                           *)
LEMMA JoinedTwice ==
  \A x, y, z \in Seq(Nat) : (x \o y) \o z = x \o (y \o z)
BY ConcatAssociative, SMTT(30)

(* A byte with a greater number than all others goes to the end.           *)
LEMMA AppendInOrder ==
  ASSUME NEW n \in Nat, NEW s \in Seq(Nat), Increasing(s), ToSet(s) \subseteq 1 .. n,
         NEW one, one = <<n + 1>>
  PROVE  /\ Increasing(s \o one)
         /\ ToSet(s \o one) = ToSet(s) \cup {n + 1}
<1> DEFINE k == Len(s)
<1> DEFINE t == s \o one
<1>1. one \in Seq(Nat) /\ Len(one) = 1 /\ one[1] = n + 1
  OBVIOUS
<1>2. /\ k \in Nat /\ DOMAIN t = 1 .. k + 1
      /\ \A i \in 1 .. k : t[i] = s[i] /\ s[i] \in Nat
      /\ \A i \in 1 .. 1 : t[k + i] = one[i]
  BY <1>1, Joined
<1>3. DOMAIN s = 1 .. k
  BY LenProperties
<1> HIDE DEF k, t
<1>4. t[k + 1] = n + 1
  BY <1>1, <1>2
<1>5. ASSUME NEW i \in 1 .. k PROVE s[i] < n + 1
  <2>1. s[i] \in ToSet(s)
    BY <1>3 DEF ToSet
  <2>2. s[i] \in 1 .. n
    BY <2>1
  <2> QED BY <2>2
<1>6. ASSUME NEW i \in DOMAIN t, NEW j \in DOMAIN t, i < j PROVE t[i] < t[j]
  <2>1. i \in 1 .. k /\ (j \in 1 .. k \/ j = k + 1)
    BY <1>2, <1>6
  <2>2. CASE j \in 1 .. k
    BY <1>2, <1>3, <1>6, <2>1, <2>2 DEF Increasing
  <2>3. CASE j = k + 1
    BY <1>2, <1>4, <1>5, <2>1, <2>3
  <2> QED BY <2>1, <2>2, <2>3
<1>7. ToSet(t) = ToSet(s) \cup {n + 1}
  <2>1. \A j \in DOMAIN t : t[j] \in ToSet(s) \cup {n + 1}
    <3> SUFFICES ASSUME NEW j \in DOMAIN t PROVE t[j] \in ToSet(s) \cup {n + 1}
      OBVIOUS
    <3>1. CASE j = k + 1
      BY <1>4, <3>1
    <3>2. CASE j # k + 1
      <4>1. j \in 1 .. k
        BY <1>2, <3>2
      <4> QED BY <1>2, <1>3, <4>1 DEF ToSet
    <3> QED BY <3>1, <3>2
  <2>2. \A j \in DOMAIN s : s[j] \in ToSet(t)
    <3> SUFFICES ASSUME NEW j \in 1 .. k PROVE s[j] \in ToSet(t)
      BY <1>3
    <3>1. j \in DOMAIN t /\ t[j] = s[j]
      BY <1>2
    <3> QED BY <3>1 DEF ToSet
  <2>3. n + 1 \in ToSet(t)
    <3>1. k + 1 \in DOMAIN t
      BY <1>2
    <3> QED BY <1>4, <3>1 DEF ToSet
  <2> QED BY <2>1, <2>2, <2>3 DEF ToSet
<1> QED BY <1>6, <1>7 DEF t, Increasing

(* One byte is taken out of the middle.                                    *)
LEMMA DropInOrder ==
  ASSUME NEW a \in Seq(Nat), NEW b \in Nat, NEW one, one = <<b>>, NEW c \in Seq(Nat),
         Increasing(a \o (one \o c))
  PROVE  /\ Increasing(a \o c)
         /\ ToSet(a \o c) = ToSet(a \o (one \o c)) \ {b}
         /\ b \in ToSet(a \o (one \o c))
<1> DEFINE s == a \o (one \o c)
<1> DEFINE k == Len(a)
<1> DEFINE m == Len(c)
<1> DEFINE t == a \o c
<1> DEFINE u == one \o c
<1>1. one \in Seq(Nat) /\ Len(one) = 1 /\ one[1] = b
  OBVIOUS
<1>2. /\ k \in Nat /\ m \in Nat /\ DOMAIN t = 1 .. k + m
      /\ \A i \in 1 .. k : t[i] = a[i]
      /\ \A i \in 1 .. m : t[k + i] = c[i]
  BY Joined
<1>3. /\ u \in Seq(Nat) /\ DOMAIN u = 1 .. 1 + m
      /\ \A i \in 1 .. 1 : u[i] = one[i]
      /\ \A i \in 1 .. m : u[1 + i] = c[i]
  BY <1>1, Joined
<1>4. Increasing(s)
  OBVIOUS
<1> HIDE DEF k, m, u, s
<1>5. Len(u) = 1 + m
  BY <1>2, <1>3, LenProperties
<1>6. /\ DOMAIN s = 1 .. k + (1 + m)
      /\ \A i \in 1 .. k : s[i] = a[i] /\ a[i] \in Nat
      /\ \A i \in 1 .. 1 + m : s[k + i] = u[i] /\ u[i] \in Nat
  <2>1. s = a \o u /\ k = Len(a)
    BY DEF k, u, s
  <2> DEFINE w == 1 + m
  <2>2. w = Len(u)
    BY <1>5
  <2> HIDE DEF w
  <2>3. /\ DOMAIN (a \o u) = 1 .. k + w
        /\ \A i \in 1 .. k : (a \o u)[i] = a[i] /\ a[i] \in Nat
        /\ \A i \in 1 .. w : (a \o u)[k + i] = u[i] /\ u[i] \in Nat
    <3>1. /\ DOMAIN (a \o u) = 1 .. Len(a) + Len(u)
          /\ \A i \in 1 .. Len(a) : (a \o u)[i] = a[i] /\ a[i] \in Nat
          /\ \A i \in 1 .. Len(u) : (a \o u)[Len(a) + i] = u[i] /\ u[i] \in Nat
      <4>1. u \in Seq(Nat)
        BY <1>3
      <4> QED BY ONLY a \in Seq(Nat), <4>1, Joined
    <3> QED BY <2>1, <2>2, <3>1
  <2> QED BY <2>1, <2>3 DEF w
<1> HIDE DEF t
<1>7. k + 1 \in DOMAIN s /\ s[k + 1] = b
  <2>1. 1 \in 1 .. 1 + m /\ 1 \in 1 .. 1 /\ k + 1 \in 1 .. k + (1 + m)
    BY <1>2
  <2> QED BY <1>1, <1>3, <1>6, <2>1
<1>8. \A i \in 1 .. m : /\ k + (1 + i) \in DOMAIN s /\ s[k + (1 + i)] = c[i]
  <2> SUFFICES ASSUME NEW i \in 1 .. m PROVE k + (1 + i) \in DOMAIN s /\ s[k + (1 + i)] = c[i]
    OBVIOUS
  <2>1. 1 + i \in 1 .. 1 + m /\ k + (1 + i) \in 1 .. k + (1 + m)
    BY <1>2
  <2>2. s[k + (1 + i)] = u[1 + i]
    BY <1>6, <2>1
  <2> QED BY <1>3, <1>6, <2>1, <2>2
<1> DEFINE at(i) == IF i <= k THEN i ELSE k + (1 + (i - k))
<1>9. \A i \in DOMAIN t : at(i) \in DOMAIN s /\ at(i) # k + 1 /\ t[i] = s[at(i)]
  <2> SUFFICES ASSUME NEW i \in 1 .. k + m
               PROVE  at(i) \in DOMAIN s /\ at(i) # k + 1 /\ t[i] = s[at(i)]
    BY <1>2
  <2>1. CASE i <= k
    <3>1. i \in 1 .. k /\ i \in 1 .. k + (1 + m)
      BY <1>2, <2>1
    <3>2. at(i) = i /\ i # k + 1
      BY <1>2, <2>1
    <3> QED BY <1>2, <1>6, <3>1, <3>2
  <2>2. CASE ~(i <= k)
    <3> DEFINE q == i - k
    <3>1. q \in 1 .. m /\ k + q = i /\ at(i) = k + (1 + q) /\ k + (1 + q) # k + 1
      BY <1>2, <2>2
    <3> HIDE DEF q, at
    <3> QED BY <1>2, <1>8, <3>1
  <2> QED BY <2>1, <2>2
<1>10. \A i, j \in DOMAIN t : i < j => at(i) < at(j)
  BY <1>2
<1>11. \A j \in DOMAIN s : j # k + 1 => \E i \in DOMAIN t : at(i) = j
  <2> SUFFICES ASSUME NEW j \in 1 .. k + (1 + m), j # k + 1 PROVE \E i \in DOMAIN t : at(i) = j
    BY <1>6
  <2>1. CASE j <= k
    <3>1. j \in 1 .. k + m /\ at(j) = j
      BY <1>2, <2>1
    <3> QED BY <1>2, <3>1
  <2>2. CASE ~(j <= k)
    <3> DEFINE q == j - 1
    <3>1. q \in 1 .. k + m /\ ~(q <= k) /\ k + (1 + (q - k)) = j
      BY <1>2, <2>2
    <3>2. at(q) = j
      BY <3>1
    <3> HIDE DEF q, at
    <3> QED BY <1>2, <3>1, <3>2
  <2> QED BY <2>1, <2>2
<1>12. \A i \in DOMAIN t : at(i) \in Int
  BY <1>2
<1> HIDE DEF at
<1>13. Increasing(t)
  BY <1>9, <1>10, <1>4 DEF Increasing
<1>14. ToSet(t) \subseteq ToSet(s)
  BY <1>9 DEF ToSet
<1>15. b \notin ToSet(t)
  <2> SUFFICES ASSUME NEW i \in DOMAIN t, t[i] = b PROVE FALSE
    BY DEF ToSet
  <2>1. at(i) \in DOMAIN s /\ at(i) # k + 1 /\ s[at(i)] = b
    BY <1>9
  <2>2. at(i) < k + 1 \/ k + 1 < at(i)
    BY <1>2, <1>12, <2>1
  <2>3. b < b
    BY <1>7, <1>4, <2>1, <2>2 DEF Increasing
  <2> QED BY <2>3
<1>16. ToSet(s) \ {b} \subseteq ToSet(t)
  <2> SUFFICES ASSUME NEW j \in DOMAIN s, s[j] # b PROVE s[j] \in ToSet(t)
    BY DEF ToSet
  <2>1. PICK i \in DOMAIN t : at(i) = j
    BY <1>7, <1>11
  <2> QED BY <1>9, <2>1 DEF ToSet
<1>17. b \in ToSet(s)
  BY <1>7 DEF ToSet
<1> QED BY <1>13, <1>14, <1>15, <1>16, <1>17 DEF t, s

-----------------------------------------------------------------------------
(* The stream                                                              *)

(* The client has a connection, and one thread at most reads it.           *)
Linked == cli.socket_id # None /\ sock[cli.socket_id].state = "up" /\ Forgotten = {}

(* What StreamInOrder says, and that socket_clean throws away only bytes   *)
(* that were sent.                                                         *)
StreamInv ==
  Linked => /\ Increasing(Stream)
            /\ ToSet(Stream) = (1 .. sock[cli.socket_id].sent) \ cleaned
            /\ cleaned \subseteq 1 .. sock[cli.socket_id].sent

(* The parts of the stream are sequences of bytes.                         *)
LEMMA StreamType ==
  ASSUME SocketCliAssumption, IInv, Linked
  PROVE  /\ cli.socket_id \in Sock /\ heard \in Seq(Nat) /\ InHand \in Seq(Nat)
         /\ sock[cli.socket_id].in \in Seq(Nat) /\ heard \o InHand \in Seq(Nat)
         /\ Stream \in Seq(Nat) /\ sock[cli.socket_id].sent \in Nat
<1>1. /\ cli \in ClientType /\ sock \in [Sock -> SockType] /\ reader \in [Reader -> ReaderType]
      /\ heard \in Seq(1 .. MaxBytes)
  BY Types DEF IInv
<1>2. 1 .. MaxBytes \subseteq Nat /\ 0 .. MaxBytes \subseteq Nat
  OBVIOUS
<1>3. cli.socket_id \in Sock
  BY <1>1 DEF Linked, ClientType
<1>4. heard \in Seq(Nat) /\ \A f \in Sock : sock[f].in \in Seq(Nat) /\ sock[f].sent \in Nat
  BY <1>1, <1>2, SeqMonotonic DEF SockType
<1>5. InHand \in Seq(Nat)
  <2>1. cli.t_id # None => reader[cli.t_id].buf \in Seq(Nat)
    BY <1>1, <1>2, SeqMonotonic DEF ClientType, ReaderType
  <2>2. <<>> \in Seq(Nat)
    OBVIOUS
  <2> QED BY <2>1, <2>2 DEF InHand
<1>6. heard \o InHand \in Seq(Nat)
  BY <1>4, <1>5, ConcatProperties
<1>7. (heard \o InHand) \o sock[cli.socket_id].in \in Seq(Nat)
  BY <1>3, <1>4, <1>6, ConcatProperties
<1> QED BY <1>3, <1>4, <1>5, <1>6, <1>7 DEF Stream

(* A thread that is forgotten stays so: nobody joins it.                   *)
LEMMA ForgottenStays ==
  ASSUME SocketCliAssumption, IInv, Next, Forgotten' = {}
  PROVE  Forgotten = {}
<1> SUFFICES ASSUME NEW x \in Reader, reader[x].pc # "none", x # cli.t_id
             PROVE  reader'[x].pc # "none" /\ x # cli'.t_id
  BY DEF Forgotten
<1>1. /\ cli \in ClientType /\ reader \in [Reader -> ReaderType] /\ x # None
  BY Types, SocketCliAssumption DEF IInv, SocketCliAssumption
<1>2. CASE reader' = reader /\ cli'.t_id = cli.t_id
  BY <1>2
<1>3. ASSUME NEW a \in BOOLEAN, New(a) PROVE reader' = reader /\ cli'.t_id = None
  BY <1>3 DEF New, NewClient, NoClient
<1>4. CASE Register
  BY <1>1, <1>4 DEF Register, ReaderGoto, ClientType
<1>5. CASE Joins
  BY <1>1, <1>5 DEF Joins
<1>6. ASSUME NEW r \in Reader, Reads(r)
      PROVE  cli'.t_id = cli.t_id /\ \A y \in Reader : reader[y].pc # "none" => reader'[y].pc # "none"
  <2>1. CASE ReaderUsesFreed(r) \/ ReaderTests(r) \/ ReaderNotifies(r)
    BY <1>1, <2>1 DEF ReaderUsesFreed, ReaderTests, ReaderNotifies, ReaderGoto, NoThread
  <2>2. CASE ReaderEnters(r)
    BY <2>2, EntersShape DEF IInv, ReaderEnters
  <2>3. CASE ReaderReceives(r)
    BY <2>3, ReaderReceivesShape DEF ReaderReceives
  <2> QED BY <1>6, <2>1, <2>2, <2>3 DEF Reads
<1>7. ASSUME NEW op \in {"disconnect", "destory"}, DisconnectStarts(op) PROVE reader' = reader /\ cli'.t_id = cli.t_id
  BY <1>7, DisconnectShape DEF IInv, DisconnectStarts
<1>8. CASE ConnectMakes \/ ConnectMakesNone \/ ConnectSucceeds \/ Closes
  BY <1>1, <1>8 DEF ConnectMakes, ConnectMakesNone, ConnectSucceeds, Closes, Freed, ClientType
<1>9. ASSUME NEW f \in Sock, Peer(f) PROVE reader' = reader /\ cli' = cli
  BY <1>9 DEF Peer, PeerSends, PeerEnds
<1>10. CASE CleanStarts \/ (\E op \in {"read", "read_all"}, len \in Length, timed \in BOOLEAN :
             ReadStarts(op, len, timed)) \/ \E len \in Length : WriteStarts(len)
  BY <1>10 DEF CleanStarts, ReadStarts, WriteStarts
<1>11. CASE ConnectFails \/ SelectReports \/ SelectTimesOut \/ Receives \/ Sends \/ SendFails
            \/ CleanPolls \/ CleanDrops \/ JoinsNobody
  BY <1>11 DEF ConnectFails, SelectReports, SelectTimesOut, Receives, Sends, SendFails, CleanPolls,
               CleanDrops, JoinsNobody
<1> QED BY <1>1, <1>2, <1>3, <1>4, <1>5, <1>6, <1>7, <1>8, <1>9, <1>10, <1>11 DEF Next, Starts, Proceeds

(* The connection, what was sent and what of it the application has stay.  *)
Rests == /\ cli'.socket_id = cli.socket_id
         /\ Linked => /\ Stream' = Stream /\ cleaned' = cleaned
                      /\ sock'[cli.socket_id].sent = sock[cli.socket_id].sent
         /\ Linked' => Linked

(* A step that ends with a connection leaves the stream as it was, starts  *)
(* a new one, makes it longer, or takes one byte out of it.                *)
StreamMoves ==
  \/ Linked /\ Rests
  \/ /\ heard' = <<>> /\ InHand' = <<>> /\ cleaned' = {}
     /\ sock'[cli'.socket_id].in = <<>> /\ sock'[cli'.socket_id].sent = 0
  \/ /\ Linked /\ cli' = cli /\ cleaned' = cleaned
     /\ sock'[cli.socket_id].sent = sock[cli.socket_id].sent + 1
     /\ Stream' = Stream \o <<sock[cli.socket_id].sent + 1>>
  \/ /\ Linked /\ cli' = cli
     /\ sock'[cli.socket_id].sent = sock[cli.socket_id].sent
     /\ \E b \in Nat, c \in Seq(Nat) :
          /\ Stream = (heard \o InHand) \o (<<b>> \o c)
          /\ Stream' = (heard \o InHand) \o c
          /\ cleaned' = cleaned \cup {b}

(* The steps that touch no byte.                                           *)
LEMMA CallMoves ==
  ASSUME SocketCliAssumption, IInv, Forgotten = {},
         \/ SelectReports \/ SelectTimesOut \/ Sends \/ SendFails \/ CleanPolls \/ JoinsNobody
         \/ CleanStarts \/ \E op \in {"disconnect", "destory"} : DisconnectStarts(op)
         \/ \E op \in {"read", "read_all"}, len \in Length, timed \in BOOLEAN : ReadStarts(op, len, timed)
         \/ \E len \in Length : WriteStarts(len)
  PROVE  Rests
<1>1. /\ cli'.socket_id = cli.socket_id /\ cli'.t_id = cli.t_id
      /\ sock' = sock /\ reader' = reader /\ heard' = heard /\ cleaned' = cleaned
  <2>1. ASSUME NEW op \in {"disconnect", "destory"}, DisconnectStarts(op)
        PROVE  /\ cli'.socket_id = cli.socket_id /\ cli'.t_id = cli.t_id
               /\ sock' = sock /\ reader' = reader /\ heard' = heard /\ cleaned' = cleaned
    BY <2>1, DisconnectShape DEF IInv, DisconnectStarts
  <2> QED BY <2>1 DEF SelectReports, SelectTimesOut, Sends, SendFails, CleanPolls, JoinsNobody,
                CleanStarts, ReadStarts, WriteStarts
<1> QED BY <1>1 DEF Rests, Stream, InHand, Linked

(* recv() by the application: it is given what it takes.                   *)
LEMMA ReceiveMoves ==
  ASSUME SocketCliAssumption, IInv, Linked, Receives
  PROVE  Rests
<1>1. /\ cli \in ClientType /\ sock \in [Sock -> SockType] /\ CallOK(call)
  BY Types DEF IInv
<1> DEFINE f == cli.socket_id
<1> DEFINE n == call.len - call.got
<1>2. n \in Nat /\ f \in Sock /\ cli.t_id = None
  BY <1>1 DEF Receives, At, IInv, CallInv, ConnInv, ThreadInv, NoConnectionLost, ClientType, CallOK, CallType
<1>3. /\ Received(f, n) /\ heard' = heard \o Got(f, n)
      /\ cli' = cli /\ reader' = reader /\ cleaned' = cleaned
  BY DEF Receives
<1>4. heard \in Seq(Nat) /\ Stream = heard \o sock[f].in
  <2>1. heard \in Seq(Nat) /\ InHand = <<>>
    BY <1>2, StreamType DEF InHand
  <2> QED BY <2>1, ConcatEmptySeq DEF Stream
<1> HIDE DEF f, n
<1>5. /\ Got(f, n) \in Seq(Nat) /\ sock'[f].in \in Seq(Nat)
      /\ sock[f].in = Got(f, n) \o sock'[f].in
      /\ sock'[f].sent = sock[f].sent /\ sock'[f].state = sock[f].state
  <2>1. sock' \in [Sock -> SockType] /\ Got(f, n) \in Seq(1 .. MaxBytes)
    BY <1>1, <1>2, <1>3, ReceivedType, GotSplits
  <2>2. 1 .. MaxBytes \subseteq Nat /\ sock'[f].in \in Seq(1 .. MaxBytes)
    BY <1>2, <2>1 DEF SockType
  <2> QED BY <1>1, <1>2, <1>3, <2>1, <2>2, ReceivedType, SeqMonotonic
<1>6. (heard \o Got(f, n)) \o sock'[f].in = heard \o (Got(f, n) \o sock'[f].in)
  BY <1>4, <1>5, JoinedTwice, Zenon
<1>7. Stream' = heard' \o sock'[f].in
  <2>1. InHand' = <<>> /\ heard' \in Seq(Nat) /\ cli'.socket_id = f
    BY <1>2, <1>3, <1>4, <1>5, ConcatProperties DEF InHand, f
  <2>2. heard' \o <<>> = heard'
    BY <2>1, ConcatEmptySeq
  <2> QED BY <2>1, <2>2 DEF Stream
<1> QED BY <1>3, <1>4, <1>5, <1>6, <1>7 DEF Rests, f

(* task_read: what recv() takes is in the thread's hand until the callback.*)
LEMMA ReadMoves ==
  ASSUME SocketCliAssumption, IInv, Linked, NEW r \in Reader, Reads(r)
  PROVE  Rests
<1>1. /\ cli \in ClientType /\ sock \in [Sock -> SockType] /\ reader \in [Reader -> ReaderType]
      /\ Chunk \in Nat
  BY Types DEF IInv, SocketCliAssumption
<1> DEFINE f == cli.socket_id
<1>2. f \in Sock
  BY StreamType
<1>3. cli' = cli /\ cleaned' = cleaned
  BY DEF Reads, ReaderUsesFreed, ReaderTests, ReaderEnters, ReaderReceives, ReaderNotifies
<1>4. reader[r].pc # "none" => r = cli.t_id /\ r # None
  BY SocketCliAssumption DEF Linked, Forgotten, SocketCliAssumption
<1>5. CASE ReaderUsesFreed(r) \/ ReaderTests(r) \/ ReaderEnters(r)
  <2>1. sock' = sock /\ heard' = heard
    BY <1>5 DEF ReaderUsesFreed, ReaderTests, ReaderEnters
  <2>2. \A x \in Reader : reader'[x].buf = reader[x].buf
    <3>1. CASE ReaderUsesFreed(r)
      BY <3>1 DEF ReaderUsesFreed
    <3>2. CASE ReaderTests(r)
      BY <1>1, <3>2 DEF ReaderTests, ReaderAt, ReaderGoto, NoThread, IInv, ThreadInv
    <3>3. CASE ReaderEnters(r)
      BY <3>3, EntersShape DEF IInv, ThreadInv
    <3> QED BY <1>5, <3>1, <3>2, <3>3
  <2>3. InHand' = InHand
    BY <1>1, <1>3, <2>2 DEF InHand, ClientType
  <2> QED BY <1>3, <2>1, <2>3 DEF Rests, Stream
<1>6. CASE ReaderReceives(r)
  <2>1. /\ reader[r].pc = "recv" /\ Received(reader[r].on, Chunk) /\ heard' = heard
    BY <1>6, ReaderReceivesShape DEF ReaderReceives
  <2>2. r = cli.t_id /\ r # None /\ reader[r].on = f /\ reader[r].buf = <<>>
    BY <1>4, <2>1 DEF IInv, ThreadInv, Known
  <2>3. sock[f].in = Got(f, Chunk) \o sock'[f].in /\ sock'[f].sent = sock[f].sent
    BY <1>1, <1>2, <2>1, <2>2, ReceivedType
  <2>4. InHand = <<>> /\ InHand' = reader'[r].buf
    BY <1>3, <2>2 DEF InHand
  <2>5. reader'[r].buf = Got(f, Chunk)
    <3>1. CASE sock[f].in # <<>>
      BY <1>6, <2>2, <3>1, ReaderReceivesShape
    <3>2. CASE sock[f].in = <<>>
      <4>1. reader'[r].buf = <<>>
        BY <1>6, <2>2, <3>2, ReaderReceivesShape
      <4>2. Got(f, Chunk) = <<>>
        BY <1>1, <3>2 DEF Got
      <4> QED BY <4>1, <4>2
    <3> QED BY <3>1, <3>2
  <2>6. /\ heard \in Seq(Nat) /\ Got(f, Chunk) \in Seq(Nat) /\ sock'[f].in \in Seq(Nat)
    <3>1. sock' \in [Sock -> SockType] /\ Got(f, Chunk) \in Seq(1 .. MaxBytes)
      BY <1>1, <1>2, <2>1, <2>2, ReceivedType, GotSplits
    <3>2. 1 .. MaxBytes \subseteq Nat /\ sock'[f].in \in Seq(1 .. MaxBytes)
      BY <1>2, <3>1 DEF SockType
    <3> QED BY <3>1, <3>2, SeqMonotonic, StreamType
  <2>7. Stream = heard \o sock[f].in
    <3>1. heard \o <<>> = heard
      BY <2>6, ConcatEmptySeq
    <3> QED BY <2>4, <3>1 DEF Stream
  <2>8. Stream' = (heard \o Got(f, Chunk)) \o sock'[f].in
    BY <1>3, <2>1, <2>4, <2>5 DEF Stream
  <2> HIDE DEF f
  <2>9. (heard \o Got(f, Chunk)) \o sock'[f].in = heard \o (Got(f, Chunk) \o sock'[f].in)
    BY <2>6, JoinedTwice, ZenonT(60)
  <2>10. Stream' = Stream
    BY <2>3, <2>7, <2>8, <2>9
  <2> QED BY <1>3, <2>3, <2>10 DEF Rests, f
<1>7. CASE ReaderNotifies(r)
  <2>1. reader[r].pc = "notify" /\ heard' = heard \o reader[r].buf /\ sock' = sock
    BY <1>7 DEF ReaderNotifies, ReaderAt, Hears, Linked
  <2>2. r = cli.t_id /\ r # None
    BY <1>4, <2>1
  <2>3. reader'[r].buf = <<>>
    BY <1>1, <1>7 DEF ReaderNotifies, ReaderGoto, NoThread
  <2>4. InHand = reader[r].buf /\ InHand' = <<>>
    BY <1>3, <2>2, <2>3 DEF InHand
  <2>5. heard \o InHand \in Seq(Nat)
    BY StreamType
  <2>6. (heard \o InHand) \o <<>> = heard \o InHand
    BY <2>5, ConcatEmptySeq
  <2>7. Stream' = Stream
    BY <1>3, <2>1, <2>4, <2>6 DEF Stream
  <2> QED BY <1>3, <2>1, <2>7 DEF Rests
<1> QED BY <1>5, <1>6, <1>7 DEF Reads

(* connect(): a socket as socket() made it, and no thread yet.             *)
LEMMA ConnectMoves ==
  ASSUME SocketCliAssumption, IInv, Forgotten = {}, ConnectSucceeds
  PROVE  StreamMoves
<1>1. /\ cli \in ClientType /\ sock \in [Sock -> SockType] /\ reader \in [Reader -> ReaderType]
      /\ call.pc = "connect"
  BY Types DEF IInv, ConnectSucceeds, At
<1>2. cli.socket_id \in Sock /\ sock[cli.socket_id].state = "made" /\ Known = "none"
  BY <1>1 DEF IInv, CallInv, ThreadInv, ClientType
<1>3. sock[cli.socket_id].in = <<>> /\ sock[cli.socket_id].sent = 0
  BY <1>2 DEF IInv, MadeInv
<1>4. /\ cli'.socket_id = cli.socket_id /\ cli'.t_id = cli.t_id
      /\ sock'[cli.socket_id].in = <<>> /\ sock'[cli.socket_id].sent = 0
      /\ heard' = <<>> /\ cleaned' = {} /\ reader' = reader
  BY <1>1, <1>2, <1>3 DEF ConnectSucceeds, ClientType, SockType
<1>5. InHand' = <<>>
  <2>1. cli.t_id # None => cli.t_id \in Reader /\ reader[cli.t_id].pc = "none"
    BY <1>1, <1>2 DEF Known, ClientType
  <2>2. cli.t_id # None => reader[cli.t_id].buf = <<>>
    BY <2>1 DEF IInv, ThreadInv
  <2> QED BY <1>4, <2>2 DEF InHand
<1> QED BY <1>4, <1>5 DEF StreamMoves

(* socket_register_notify and pthread_join: nothing is in hand.            *)
LEMMA ThreadMoves ==
  ASSUME SocketCliAssumption, IInv, Forgotten = {}, Forgotten' = {}, Register \/ Joins
  PROVE  Rests
<1>1. /\ cli \in ClientType /\ reader \in [Reader -> ReaderType]
      /\ sock \in [Sock -> SockType] /\ None \notin Sock
  BY Types, SocketCliAssumption DEF IInv, SocketCliAssumption
<1>2. cli'.socket_id = cli.socket_id /\ heard' = heard /\ cleaned' = cleaned
  BY <1>1 DEF Register, Joins, ClientType
<1>3. \A g \in Sock : /\ sock'[g].state = sock[g].state /\ sock'[g].in = sock[g].in
                      /\ sock'[g].sent = sock[g].sent
  <2>1. CASE Register
    <3>1. sock' = [sock EXCEPT ![cli.socket_id].notify = TRUE]
      BY <2>1 DEF Register
    <3> QED BY <1>1, <3>1 DEF SockType
  <2>2. CASE Joins
    BY <2>2 DEF Joins
  <2> QED BY <2>1, <2>2
<1>4. cli.socket_id # None => cli.socket_id \in Sock
  BY <1>1 DEF ClientType
<1>5. \A x \in Reader : reader[x].pc \in {"none", "exited", "test"} => reader[x].buf = <<>>
  BY DEF IInv, ThreadInv
<1>6. InHand = <<>> /\ InHand' = <<>>
  <2>1. CASE Joins
    <3>1. cli.t_id \in Reader /\ reader[cli.t_id].pc = "exited" /\ cli' = cli
      BY <1>1, <2>1 DEF Joins, Known, ClientType
    <3>2. reader'[cli.t_id].buf = <<>>
      BY <1>1, <2>1, <3>1 DEF Joins, NoThread
    <3> QED BY <1>5, <3>1, <3>2 DEF InHand
  <2>2. CASE Register
    <3>1. PICK r \in Reader : /\ reader[r].pc = "none" /\ cli' = [cli EXCEPT !.t_id = r]
                              /\ ReaderGoto(r, "test")
      BY <2>2 DEF Register
    <3>2. cli'.t_id = r /\ reader'[r].buf = <<>> /\ \A x \in Reader \ {r} : reader'[x] = reader[x]
      BY <1>1, <3>1 DEF ReaderGoto, NoThread, ClientType
    <3>3. cli.t_id # None => cli.t_id \in Reader /\ reader[cli.t_id].pc = "none"
      BY <1>1, <3>1, <3>2 DEF Forgotten, ClientType
    <3> QED BY <1>5, <3>2, <3>3 DEF InHand
  <2> QED BY <2>1, <2>2
<1> QED BY <1>2, <1>6, <1>3, <1>4 DEF Rests, Stream, Linked

(* The peer: a byte that comes on the connection goes to the end.          *)
LEMMA PeerMoves ==
  ASSUME SocketCliAssumption, IInv, Linked, NEW f \in Sock, Peer(f)
  PROVE  StreamMoves
<1>1. sock \in [Sock -> SockType]
  BY Types DEF IInv
<1>2. cli' = cli /\ reader' = reader /\ heard' = heard /\ cleaned' = cleaned /\ InHand' = InHand
  BY DEF Peer, PeerSends, PeerEnds, InHand
<1>3. cli.socket_id \in Sock
  BY StreamType
<1>4. CASE /\ sock'[cli.socket_id].in = sock[cli.socket_id].in
           /\ sock'[cli.socket_id].sent = sock[cli.socket_id].sent
  BY <1>2, <1>4 DEF StreamMoves, Rests, Stream
<1>5. CASE PeerSends(f) /\ f = cli.socket_id
  <2> DEFINE in == sock[f].in
  <2> DEFINE n == sock[f].sent
  <2>1. sock'[f].in = Append(in, n + 1) /\ sock'[f].sent = n + 1
    BY <1>1, <1>5 DEF PeerSends, SockType
  <2>2. in \in Seq(Nat) /\ n \in Nat
    BY <1>5, StreamType
  <2>3. Stream = (heard \o InHand) \o in /\ Stream' = (heard \o InHand) \o sock'[f].in
    BY <1>2, <1>5 DEF Stream
  <2>4. heard \o InHand \in Seq(Nat)
    BY StreamType
  <2> DEFINE one == <<n + 1>>
  <2> DEFINE h == heard \o InHand
  <2>5. one \in Seq(Nat)
    BY <2>2
  <2> HIDE DEF in, n, h
  <2>6. Append(in, n + 1) = in \o one
    BY <2>2, AppendIsConcat
  <2> HIDE DEF one
  <2>7. h \o (in \o one) = (h \o in) \o one
    BY <2>2, <2>4, <2>5, JoinedTwice, Zenon DEF h
  <2>8. Stream' = Stream \o one
    BY <2>1, <2>3, <2>6, <2>7 DEF h
  <2> QED BY <1>2, <1>5, <2>1, <2>8 DEF StreamMoves, one, n
<1>6. \/ PeerSends(f) /\ f = cli.socket_id
      \/ /\ sock'[cli.socket_id].in = sock[cli.socket_id].in
         /\ sock'[cli.socket_id].sent = sock[cli.socket_id].sent
  BY <1>1, <1>3 DEF Peer, PeerSends, PeerEnds, SockType
<1> QED BY <1>4, <1>5, <1>6

(* socket_clean takes the first byte that nobody has taken.                *)
LEMMA CleanMoves ==
  ASSUME SocketCliAssumption, IInv, Linked, CleanDrops
  PROVE  StreamMoves
<1>1. sock \in [Sock -> SockType]
  BY Types DEF IInv
<1> DEFINE f == cli.socket_id
<1>2. f \in Sock
  BY StreamType
<1>3. /\ Received(f, 1) /\ cleaned' = cleaned \cup ToSet(Got(f, 1))
      /\ cli' = cli /\ reader' = reader /\ heard' = heard /\ InHand' = InHand
  BY DEF CleanDrops, Linked, InHand
<1>4. sock[f].in = Got(f, 1) \o sock'[f].in /\ sock'[f].sent = sock[f].sent
  BY <1>1, <1>2, <1>3, ReceivedType
<1>5. Got(f, 1) \in Seq(Nat) /\ Len(Got(f, 1)) <= 1 /\ sock'[f].in \in Seq(Nat)
  <2>1. sock' \in [Sock -> SockType] /\ Got(f, 1) \in Seq(1 .. MaxBytes) /\ Len(Got(f, 1)) <= 1
    BY <1>1, <1>2, <1>3, ReceivedType, GotSplits
  <2>2. 1 .. MaxBytes \subseteq Nat /\ sock'[f].in \in Seq(1 .. MaxBytes)
    BY <1>2, <2>1 DEF SockType
  <2> QED BY <2>1, <2>2, SeqMonotonic
<1>6. /\ Stream = (heard \o InHand) \o (Got(f, 1) \o sock'[f].in)
      /\ Stream' = (heard \o InHand) \o sock'[f].in
  BY <1>3, <1>4 DEF Stream
<1> DEFINE got == Got(f, 1)
<1>7. CASE Len(got) = 0
  <2>1. got = <<>>
    BY <1>5, <1>7, EmptySeq
  <2>2. <<>> \o sock'[f].in = sock'[f].in /\ ToSet(<<>>) = {}
    BY <1>5, ConcatEmptySeq DEF ToSet
  <2>3. cleaned' = cleaned \cup ToSet(got) /\ Stream = (heard \o InHand) \o (got \o sock'[f].in)
    BY <1>3, <1>6
  <2> HIDE DEF got
  <2>4. cleaned' = cleaned /\ Stream' = Stream
    BY <1>6, <2>1, <2>2, <2>3
  <2> QED BY <1>3, <1>4, <2>4 DEF StreamMoves, Rests
<1>8. CASE Len(got) = 1
  <2> HIDE DEF got
  <2> DEFINE b == got[1]
  <2>1. b \in Nat /\ DOMAIN got = {1}
    BY <1>5, <1>8, LenProperties, ElementOfSeq DEF got
  <2>2. got = <<b>>
    BY <1>5, <1>8, <2>1, SeqEqual DEF got
  <2>3. ToSet(got) = {b}
    BY <2>1 DEF ToSet
  <2> HIDE DEF b
  <2>4. /\ Stream = (heard \o InHand) \o (<<b>> \o sock'[f].in)
        /\ Stream' = (heard \o InHand) \o sock'[f].in
        /\ cleaned' = cleaned \cup {b}
    BY <1>3, <1>6, <2>2, <2>3 DEF got
  <2> QED BY <1>3, <1>4, <1>5, <2>1, <2>4 DEF StreamMoves
<1>9. Len(got) \in Nat /\ Len(got) <= 1
  BY <1>5, LenProperties
<1>10. Len(got) = 0 \/ Len(got) = 1
  <2> DEFINE k == Len(got)
  <2>1. k \in Nat /\ k <= 1
    BY <1>9
  <2> HIDE DEF k
  <2>2. k = 0 \/ k = 1
    BY <2>1
  <2> QED BY <2>2 DEF k
<1> QED BY <1>7, <1>8, <1>10

(* Every step does one of those.                                           *)
LEMMA NextMoves ==
  ASSUME SocketCliAssumption, IInv, Next, Linked'
  PROVE  StreamMoves
<1>1. /\ cli \in ClientType /\ sock \in [Sock -> SockType]
      /\ Forgotten = {} /\ Forgotten' = {}
  BY Types, ForgottenStays DEF IInv, Linked
<1>2. Rests => StreamMoves
  BY DEF Rests, StreamMoves
<1>3. ASSUME Linked' => Linked, Linked => StreamMoves PROVE StreamMoves
  BY <1>3
<1>4. ASSUME NEW a \in BOOLEAN, New(a) PROVE FALSE
  BY <1>4 DEF New, NewClient, NoClient, Linked
<1>5. ~ConnectMakesNone /\ ~Closes
  BY <1>1 DEF ConnectMakesNone, Closes, Freed, ClientType, Linked
<1>6. ~ConnectMakes
  BY <1>1 DEF ConnectMakes, FreeSock, ClientType, Linked
<1>7. ~ConnectFails
  <2> SUFFICES ASSUME ConnectFails PROVE FALSE
    OBVIOUS
  <2>1. cli.socket_id \in Sock /\ cli' = cli
    BY <1>1 DEF ConnectFails, At, IInv, CallInv, ClientType
  <2>2. sock'[cli.socket_id].state = "failed"
    BY <1>1, <2>1 DEF ConnectFails, SockType
  <2> QED BY <2>1, <2>2 DEF Linked
<1>8. CASE ConnectSucceeds
  BY <1>1, <1>8, ConnectMoves
<1>9. CASE Register \/ Joins
  BY <1>1, <1>2, <1>9, ThreadMoves
<1>10. CASE \/ SelectReports \/ SelectTimesOut \/ Sends \/ SendFails \/ CleanPolls \/ JoinsNobody
            \/ CleanStarts \/ \E op \in {"disconnect", "destory"} : DisconnectStarts(op)
            \/ \E op \in {"read", "read_all"}, len \in Length, timed \in BOOLEAN : ReadStarts(op, len, timed)
            \/ \E len \in Length : WriteStarts(len)
  BY <1>1, <1>2, <1>10, CallMoves
<1>11. CASE Receives
  <2>1. cli.socket_id # None /\ sock[cli.socket_id].state = "up"
    BY <1>11 DEF Receives, At, IInv, CallInv, ConnInv, NoConnectionLost
  <2> QED BY <1>1, <1>2, <1>11, <2>1, ReceiveMoves DEF Linked
<1>12. CASE CleanDrops
  <2>1. cli.socket_id # None /\ sock[cli.socket_id].state = "up"
    BY <1>12 DEF CleanDrops, At, IInv, CallInv, ConnInv, NoConnectionLost
  <2> QED BY <1>1, <1>12, <2>1, CleanMoves DEF Linked
<1>13. ASSUME NEW r \in Reader, Reads(r) PROVE StreamMoves
  <2>1. cli' = cli /\ \A g \in Sock : sock'[g].state = sock[g].state
    <3>1. CASE ReaderReceives(r)
      BY <1>1, <3>1, ReaderReceivesShape, ReceivedType DEF ReaderReceives, SocketCliAssumption
    <3> QED BY <1>13, <3>1 DEF Reads, ReaderUsesFreed, ReaderTests, ReaderEnters, ReaderNotifies
  <2>2. Linked
    BY <1>1, <2>1 DEF Linked, ClientType
  <2> QED BY <1>2, <1>13, <2>2, ReadMoves
<1>14. ASSUME NEW f \in Sock, Peer(f) PROVE StreamMoves
  <2>1. cli' = cli /\ \A g \in Sock : sock'[g].state = sock[g].state
    BY <1>1, <1>14, ZenonT(60) DEF Peer, PeerSends, PeerEnds, SockType
  <2>2. Linked
    BY <1>1, <2>1 DEF Linked, ClientType
  <2> QED BY <1>14, <2>2, PeerMoves
<1> QED BY <1>4, <1>5, <1>6, <1>8, <1>9, <1>10, <1>11, <1>12, <1>13, <1>14, <1>7 DEF Next, Starts, Proceeds

(* Every step keeps the stream in order.                                   *)
LEMMA StreamStep ==
  ASSUME SocketCliAssumption, IInv, StreamInv, [Next]_vars
  PROVE  StreamInv'
<1>1. CASE UNCHANGED vars
  BY <1>1 DEF vars, StreamInv, Linked, Forgotten, Stream, InHand
<1>2. CASE Next /\ Linked'
  <2> DEFINE n == sock[cli.socket_id].sent
  <2> DEFINE Good == /\ Increasing(Stream') /\ cleaned' \subseteq 1 .. sock'[cli'.socket_id].sent
                     /\ ToSet(Stream') = (1 .. sock'[cli'.socket_id].sent) \ cleaned'
  <2>1. Linked => /\ Increasing(Stream) /\ ToSet(Stream) = (1 .. n) \ cleaned /\ cleaned \subseteq 1 .. n
                  /\ Stream \in Seq(Nat) /\ n \in Nat /\ heard \o InHand \in Seq(Nat)
    BY StreamType DEF StreamInv
  <2>2. ASSUME Linked, Rests PROVE Good
    BY <2>1, <2>2 DEF Rests
  <2>3. ASSUME heard' = <<>>, InHand' = <<>>, cleaned' = {},
               sock'[cli'.socket_id].in = <<>>, sock'[cli'.socket_id].sent = 0
        PROVE  Good
    <3>1. Stream' = <<>>
      <4>1. <<>> \o <<>> = <<>>
        BY ConcatEmptySeq, EmptySeq
      <4> QED BY <2>3, <4>1 DEF Stream
    <3>2. Increasing(<<>>) /\ ToSet(<<>>) = {}
      BY DEF Increasing, ToSet
    <3> QED BY <2>3, <3>1, <3>2
  <2>4. ASSUME Linked, cli' = cli, cleaned' = cleaned,
               sock'[cli.socket_id].sent = sock[cli.socket_id].sent + 1,
               Stream' = Stream \o <<sock[cli.socket_id].sent + 1>>
        PROVE  Good
    <3> DEFINE one == <<n + 1>>
    <3>1. sock'[cli'.socket_id].sent = n + 1 /\ Stream' = Stream \o one
      BY <2>4
    <3> HIDE DEF n
    <3>2. ToSet(Stream) \subseteq 1 .. n
      BY <2>1, <2>4
    <3>3. /\ Increasing(Stream \o one) /\ ToSet(Stream \o one) = ToSet(Stream) \cup {n + 1}
      BY <2>1, <2>4, <3>2, AppendInOrder
    <3> HIDE DEF one
    <3>4. ((1 .. n) \ cleaned) \cup {n + 1} = (1 .. n + 1) \ cleaned /\ cleaned \subseteq 1 .. n + 1
      BY <2>1, <2>4
    <3> QED BY <2>1, <2>4, <3>1, <3>3, <3>4
  <2>5. ASSUME Linked, cli' = cli, sock'[cli.socket_id].sent = sock[cli.socket_id].sent,
               NEW b \in Nat, NEW c \in Seq(Nat),
               Stream = (heard \o InHand) \o (<<b>> \o c),
               Stream' = (heard \o InHand) \o c,
               cleaned' = cleaned \cup {b}
        PROVE  Good
    <3> DEFINE a == heard \o InHand
    <3> DEFINE one == <<b>>
    <3> DEFINE s == Stream
    <3>1. /\ a \in Seq(Nat) /\ s = a \o (one \o c) /\ Increasing(s) /\ Stream' = a \o c
          /\ one = <<b>>
      BY <2>1, <2>5
    <3> HIDE DEF a, s, one
    <3>2. Increasing(a \o c) /\ ToSet(a \o c) = ToSet(s) \ {b} /\ b \in ToSet(s)
      <4>1. Increasing(a \o (one \o c))
        BY <3>1
      <4>2. Increasing(a \o c) /\ ToSet(a \o c) = ToSet(a \o (one \o c)) \ {b}
            /\ b \in ToSet(a \o (one \o c))
        BY <3>1, <4>1, DropInOrder
      <4> QED BY <3>1, <4>2
    <3>3. ToSet(s) = (1 .. n) \ cleaned /\ cleaned \subseteq 1 .. n
      BY <2>1, <2>5 DEF s
    <3>4. sock'[cli'.socket_id].sent = n
      BY <2>5
    <3> HIDE DEF n
    <3> QED BY <2>5, <3>1, <3>2, <3>3, <3>4
  <2> HIDE DEF Good
  <2>6. Good
    BY <1>2, <2>2, <2>3, <2>4, <2>5, NextMoves DEF StreamMoves
  <2> QED BY <2>6 DEF StreamInv, Good
<1> QED BY <1>1, <1>2 DEF StreamInv

(* The application is given the bytes of its connection in order, none     *)
(* twice and none left out but those socket_clean has thrown away.         *)
THEOREM AlwaysStreamInOrder == Spec => []StreamInOrder
<1>1. Init => StreamInv
  BY DEF Init, NoClient, StreamInv, Linked
<1>2. IInv /\ StreamInv /\ [Next]_vars => StreamInv'
  BY SocketCliAssumption, StreamStep
<1>3. StreamInv => StreamInOrder
  BY DEF StreamInv, Linked, StreamInOrder, Increasing
<1> QED BY <1>1, <1>2, <1>3, AlwaysIInv, PTL DEF Spec

=============================================================================
