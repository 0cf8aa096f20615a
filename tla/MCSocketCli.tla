----------------------------- MODULE MCSocketCli -----------------------------
(***************************************************************************)
(* One client, two thread ids and two sockets.                             *)
(***************************************************************************)
EXTENDS SocketCli

CONSTANTS r1, r2, s1, s2

MCReader == {r1, r2}
MCSock   == {s1, s2}
MCLength == {1, 2}

=============================================================================
