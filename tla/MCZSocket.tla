------------------------------ MODULE MCZSocket ------------------------------
(***************************************************************************)
(* Instances of ZSocket for TLC.  Three sockets over three descriptors,    *)
(* each opened once or one of them again: two servers (or a server and a   *)
(* client) and a connection, or a server and two connections.  Buffers of  *)
(* one byte are empty or full; one client alone has larger ones.           *)
(***************************************************************************)
EXTENDS ZSocket, TLC

CONSTANTS u1, u2, c1, c2

OneUser  == {u1}
TwoUsers == {u1, u2}
NoConn   == {}
OneConn  == {c1}
TwoConns == {c1, c2}
MCFd     == 3..5
MCPort   == {1}
AnyPort  == {0, 1}
NoCb     == {FALSE}
AnyCb    == BOOLEAN

(* The application misuses the interface. *)
Misuse  == {"accept_fail", "port_sharing", "stale_close", "server_close"}
(* Connections fail and select() does, on any descriptors.                 *)
Faults  == {"send_fail", "select_fail", "conn_close", "sparse_fds"}
(* Connections fail or stall, those exempted from the timeout too. *)
Stalls  == {"send_fail", "idle", "no_timeout"}
(* One client whose buffers fill up. *)
Memory  == {"recv_fail", "send_fail", "alloc_fail", "stale_close"}

(* One hazard each, to show what it alone leads to. *)
OnlyStaleClose == {"stale_close"}
OnlyRecvFail   == {"recv_fail"}
OnlyNoTimeout  == {"no_timeout"}
Nothing        == {}

Swap == Permutations(TwoUsers) \cup Permutations(TwoConns)

=============================================================================
