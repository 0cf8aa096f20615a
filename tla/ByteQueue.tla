------------------------------ MODULE ByteQueue ------------------------------
(***************************************************************************)
(* What qbuf.c promises its callers: a first-in first-out queue of bytes.  *)
(* No byte is lost, duplicated, reordered or made up, and a write accepts  *)
(* everything unless the allocator has failed.                             *)
(***************************************************************************)
EXTENDS Naturals, Sequences

CONSTANTS Byte,        (* the values of a byte                              *)
          MaxChunk     (* the most bytes one call moves (a bound for TLC)   *)

VARIABLES alive,       (* the queue exists                                  *)
          queue,       (* the unread bytes, oldest first                    *)
          reply,       (* the bytes the last call accepted or handed out    *)
          starved      (* the allocator is refusing requests                *)

vars == <<alive, queue, reply, starved>>

Chunk == UNION {[1..n -> Byte] : n \in 0..MaxChunk}

Init ==
  /\ alive = FALSE
  /\ queue = <<>>
  /\ reply = <<>>
  /\ starved \in BOOLEAN

Create ==
  /\ ~alive /\ ~starved
  /\ alive' = TRUE
  /\ UNCHANGED <<queue, reply, starved>>

Destroy ==
  /\ alive
  /\ alive' = FALSE
  /\ queue' = <<>>
  /\ reply' = <<>>
  /\ UNCHANGED starved

(* A write keeps a prefix of what it is given: all of it, memory allowing. *)
Put(bytes) ==
  /\ alive
  /\ \E k \in 0..Len(bytes) :
       /\ k = Len(bytes) \/ starved
       /\ reply' = SubSeq(bytes, 1, k)
       /\ queue' = queue \o SubSeq(bytes, 1, k)
  /\ UNCHANGED <<alive, starved>>

(* Hand out the n oldest bytes, and keep them or not. *)
Look(n) ==
  /\ alive
  /\ reply' = SubSeq(queue, 1, n)
  /\ UNCHANGED <<alive, queue, starved>>

Take(n) ==
  /\ alive
  /\ reply' = SubSeq(queue, 1, n)
  /\ queue' = SubSeq(queue, n + 1, Len(queue))
  /\ UNCHANGED <<alive, starved>>

Drop(n) ==
  /\ alive
  /\ queue' = SubSeq(queue, n + 1, Len(queue))
  /\ reply' = <<>>
  /\ UNCHANGED <<alive, starved>>

(* The rest of the program uses and releases memory as it likes. *)
Pressure == starved' = ~starved /\ UNCHANGED <<alive, queue, reply>>

Next ==
  \/ Create \/ Destroy \/ Pressure
  \/ \E bytes \in Chunk : Put(bytes)
  \/ \E n \in 0..Len(queue) : Look(n) \/ Take(n) \/ Drop(n)

Spec == Init /\ [][Next]_vars

=============================================================================
