----------------------------- MODULE QBufMachine -----------------------------
(***************************************************************************)
(* One buffer of qbuf.c with the memory behind it: the offsets of QBuf     *)
(* together with the allocation they index.  Each action is one call of    *)
(* the interface, or one of the two idioms its callers use: receiving      *)
(* straight into the spare room (zsocket_handle_recv) and consuming from   *)
(* the front before collecting (zsocket_handle_recv, zsocket_handle_send). *)
(***************************************************************************)
EXTENDS QBuf, Sequences

CONSTANTS Byte,        (* the values of a byte                              *)
          Junk,        (* memory the caller never wrote                     *)
          NewSizes,    (* the sizes qbuf_new is called with                 *)
          MaxChunk,    (* the longest write, read or receive (a bound)      *)
          MaxSize      (* the largest allocation (a bound: see Allocates)   *)

ASSUME QBufMachineAssumption ==
  /\ Junk \notin Byte
  /\ NewSizes \subseteq Nat
  /\ MaxChunk \in Nat
  /\ MaxSize \in Nat

VARIABLES alive,       (* the buffer exists                                 *)
          q,           (* its size and offsets                              *)
          raw,         (* rawbuf: raw[i + 1] is the byte at offset i        *)
          reply,       (* the bytes the last call accepted or handed out    *)
          starved      (* malloc, calloc and realloc are failing            *)

vars == <<alive, q, raw, reply, starved>>

Cell == Byte \cup {Junk}
Chunk == UNION {[1..n -> Byte] : n \in 0..MaxChunk}

(* n bytes of memory from an offset on. *)
Bytes(mem, at, n) == [i \in 1..n |-> mem[at + i]]

(* What a reader that asks for n bytes is given, and all the unread bytes. *)
Front(n) == Bytes(raw, q.out, Readable(q, n))
Content == Bytes(raw, q.out, Used(q))

-----------------------------------------------------------------------------

(* What the memmove of qbuf_collect leaves behind in the allocation. *)
Moved(mem, before, after) ==
  [i \in 1..before.size |->
     IF after # before /\ i <= Used(before) THEN mem[before.out + i] ELSE mem[i]]

(* realloc keeps the bytes that fit and leaves the rest uninitialised. *)
Resized(mem, old, new) == [i \in 1..new |-> IF i <= old THEN mem[i] ELSE Junk]

(* Variant: the copy starts one byte early. *)
CopiedEarly(mem, size, at, bytes, n) ==
  [i \in 1..size |-> IF at <= i /\ i < at + n THEN bytes[i - at + 1] ELSE mem[i]]

(* memcpy of the first n of bytes to offset at. *)
Copied(mem, size, at, bytes, n) ==
  [i \in 1..size |-> IF at < i /\ i <= at + n THEN bytes[i - at] ELSE mem[i]]

(* Whether an allocation of n bytes succeeds.  MaxSize bounds the model:   *)
(* beyond it only requests that are refused are made.                      *)
Allocates(n) == IF starved THEN {FALSE} ELSE IF n <= MaxSize THEN {TRUE} ELSE {}

-----------------------------------------------------------------------------

Init ==
  /\ alive = FALSE
  /\ q = [size |-> RawSize, in |-> 0, out |-> 0]
  /\ raw = [i \in 1..RawSize |-> Junk]
  /\ reply = <<>>
  /\ starved \in BOOLEAN

(* qbuf_new: NULL, and nothing changes, when an allocation fails. *)
Create(n) ==
  /\ ~alive
  /\ \E ok \in Allocates(New(n).size) :
       /\ alive' = ok
       /\ q' = IF ok THEN New(n) ELSE q
       /\ raw' = IF ok THEN [i \in 1..New(n).size |-> Junk] ELSE raw
  /\ UNCHANGED <<reply, starved>>

(* qbuf_delete; the freed memory is no state any more. *)
Destroy ==
  /\ alive
  /\ alive' = FALSE
  /\ q' = [size |-> RawSize, in |-> 0, out |-> 0]
  /\ raw' = [i \in 1..RawSize |-> Junk]
  /\ reply' = <<>>
  /\ UNCHANGED starved

Write(bytes) ==
  LET n == Len(bytes)
      b == Collected(q, n)
      mem == IF n > Spare(q) THEN Moved(raw, q, b) ELSE raw
  IN  /\ alive
      /\ \E ok \in IF MustGrow(q, n) THEN Allocates(GrownSize(q, n)) ELSE {TRUE} :
           LET r == Roomy(q, n, ok)
               k == Writable(q, n, ok)
           IN  /\ q' = Written(q, n, ok)
               /\ raw' = Copied(Resized(mem, b.size, r.size), r.size, r.in, bytes, k)
               /\ reply' = SubSeq(bytes, 1, k)
      /\ UNCHANGED <<alive, starved>>

(* recv() into qbuf_rawbuf_in_pos, at most qbuf_spare bytes, then          *)
(* qbuf_offset_in_head by what arrived.                                    *)
Receive(bytes) ==
  /\ alive
  /\ Len(bytes) <= Spare(q)
  /\ q' = OffsetInHead(q, Len(bytes))
  /\ raw' = Copied(raw, q.size, q.in, bytes, Len(bytes))
  /\ reply' = bytes
  /\ UNCHANGED <<alive, starved>>

Peek(n) ==
  /\ alive
  /\ reply' = Front(n)
  /\ UNCHANGED <<alive, q, raw, starved>>

Read(n) ==
  /\ alive
  /\ reply' = Front(n)
  /\ q' = OffsetOutHead(q, Readable(q, n))
  /\ UNCHANGED <<alive, raw, starved>>

(* qbuf_offset_out_head by the n bytes dealt with. *)
Consume(n) ==
  /\ alive
  /\ q' = OffsetOutHead(q, n)
  /\ reply' = <<>>
  /\ UNCHANGED <<alive, raw, starved>>

Tidy(policy) ==
  /\ alive
  /\ q' = Collect(q, policy)
  /\ raw' = Moved(raw, q, q')
  /\ UNCHANGED <<alive, reply, starved>>

(* qbuf_realloc to twice the size, as zsocket_handle_recv calls it. *)
Grow ==
  /\ alive
  /\ \E ok \in Allocates(q.size * 2) :
       /\ q' = Realloc(q, q.size * 2, ok)
       /\ raw' = Resized(raw, q.size, q'.size)
  /\ UNCHANGED <<alive, reply, starved>>

(* The rest of the program uses and releases memory as it likes. *)
Pressure == starved' = ~starved /\ UNCHANGED <<alive, q, raw, reply>>

Next ==
  \/ \E n \in NewSizes : Create(n)
  \/ Destroy
  \/ \E bytes \in Chunk : Write(bytes)
  \/ \E bytes \in Chunk : Receive(bytes)
  \/ \E n \in 0..MaxChunk : Peek(n)
  \/ \E n \in 0..MaxChunk : Read(n)
  \/ \E n \in 0..MaxChunk : Consume(n)
  \/ \E policy \in SUBSET Policy : Tidy(policy)
  \/ Grow
  \/ Pressure

Spec == Init /\ [][Next]_vars

-----------------------------------------------------------------------------

(* Every variable has its type; the offsets stay in order inside the       *)
(* allocation, so no pointer qbuf.c computes leaves rawbuf.                *)
TypeOK ==
  /\ alive \in BOOLEAN
  /\ q \in Buffer
  /\ raw \in [1..q.size -> Cell]
  /\ reply \in Seq(Byte)
  /\ starved \in BOOLEAN

(* Uninitialised or stale memory never lies between the two offsets: the   *)
(* bytes handed to a reader or to send() were all written by the caller    *)
(* (qbuf_rawbuf_out_pos, qbuf_used).                                       *)
NoJunkUnread == \A i \in 1..Used(q) : raw[q.out + i] \in Byte

(* Once anything is consumed, a collection with policy LESS_SPARE leaves   *)
(* room: the WBUF_RUNOUT branch of zsocket_handle_send, taken when it does *)
(* not, is dead code, and recv() is never given an empty buffer after it.  *)
RoomAfterConsume ==
  \A n \in 1..Used(q) :
    Spare(Collect(OffsetOutHead(q, n), {"LESS_SPARE"})) > 0

(* The buffer is the queue its callers take it for, collections and        *)
(* reallocations included.                                                 *)
BQ == INSTANCE ByteQueue WITH queue <- Content

ImplementsByteQueue == BQ!Spec

=============================================================================
