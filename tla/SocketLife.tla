----------------------------- MODULE SocketLife -----------------------------
(***************************************************************************)
(* What zsocket.h promises of each struct zsocket: it is opened, closed and*)
(* released once, and may then be used again.  While a scan runs callbacks *)
(* no socket is released, so that a callback may close any; the sweep that *)
(* follows releases whatever was closed before it.  A call of zsocket_close*)
(* between two loops may be a sweep of its own, for one socket.            *)
(***************************************************************************)
CONSTANT Sock

VARIABLES life,        (* of every socket                                   *)
          phase,       (* of the program                                    *)
          due          (* the sockets the sweep has yet to release          *)

Life  == {"new", "open", "closing", "closed"}
Phase == {"app", "scan", "sweep"}

Is(l) == {s \in Sock : life[s] = l}

Init ==
  /\ life = [s \in Sock |-> "new"]
  /\ phase = "app"
  /\ due = {}

Becomes(s, from, to) == life[s] = from /\ life' = [life EXCEPT ![s] = to]

Open(s) ==
  /\ phase # "sweep"
  /\ Becomes(s, "new", "open")
  /\ UNCHANGED <<phase, due>>

(* A scan may close what it likes; a sweep, what it still comes to or what *)
(* is left to the next one.                                                *)
Close(s) ==
  /\ Becomes(s, "open", "closing")
  /\ due' \in IF phase = "sweep" THEN {due, due \cup {s}} ELSE {due}
  /\ UNCHANGED phase

CloseAlone(s) ==
  /\ phase = "app"
  /\ Becomes(s, "open", "closing")
  /\ phase' = "sweep" /\ due' = {s}

(* A socket the loop has allocated is new again: it is freed.              *)
Release(s) ==
  /\ phase = "sweep" /\ s \in due
  /\ Becomes(s, "closing", "closed") \/ Becomes(s, "closing", "new")
  /\ due' = due \ {s}
  /\ phase' \in {"sweep"} \cup IF due' = {} THEN {"app"} ELSE {}

Renew(s) ==
  /\ phase # "sweep"
  /\ Becomes(s, "closed", "new")
  /\ UNCHANGED <<phase, due>>

Scan  == phase = "app" /\ phase' = "scan" /\ UNCHANGED <<life, due>>
Sweep == phase # "sweep" /\ phase' = "sweep" /\ due' = Is("closing") /\ UNCHANGED life
Leave == phase = "sweep" /\ due = {} /\ phase' = "app" /\ UNCHANGED <<life, due>>

Next ==
  \/ \E s \in Sock : Open(s) \/ Close(s) \/ CloseAlone(s) \/ Release(s) \/ Renew(s)
  \/ Scan \/ Sweep \/ Leave

Spec == Init /\ [][Next]_<<life, phase, due>>

=============================================================================
