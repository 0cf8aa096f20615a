-------------------------------- MODULE QBuf --------------------------------
(***************************************************************************)
(* The byte buffer of qbuf.c as pure operators on its three offsets.       *)
(*                                                                         *)
(* A buffer is the record [size, in, out]: the unread bytes lie at offsets *)
(* out..in-1 of an allocation of size bytes, the bytes below out are       *)
(* garbage that a collection reclaims, and those from in on are spare.     *)
(* The bytes themselves are modelled in QBufMachine; the sockets of        *)
(* ZSocket only need the offsets.                                          *)
(***************************************************************************)
EXTENDS Naturals

CONSTANTS RawSize      (* RAW_SIZE: what qbuf_new allocates when asked for 0 *)

ASSUME QBufAssumption == RawSize \in Nat \ {0}

Policy == {"LESS_SPARE", "LARGE_GARBAGE"}

(* Every buffer the operators below can produce: see Offsets in QBuf_proofs. *)
Buffer == {b \in [size : Nat \ {0}, in : Nat, out : Nat] :
             b.out <= b.in /\ b.in <= b.size}

New(n) == [size |-> IF n = 0 THEN RawSize ELSE n, in |-> 0, out |-> 0]

Garbage(b) == b.out
Used(b)    == b.in - b.out
Spare(b)   == b.size - b.in

(* size >> 2 *)
Quarter(b) == b.size \div 4

(* Variants below, named for what is wrong with them, show what the checks *)
(* catch: a buffer of less than four bytes is never collected here.        *)
WorthwhileStrict(b, policy) ==
  /\ "LESS_SPARE" \in policy => Spare(b) < Quarter(b)
  /\ "LARGE_GARBAGE" \in policy => Garbage(b) >= Quarter(b)

(* The two policies that veto moving the unread bytes to the front. *)
Worthwhile(b, policy) ==
  /\ "LESS_SPARE" \in policy => Spare(b) <= Quarter(b)
  /\ "LARGE_GARBAGE" \in policy => Garbage(b) >= Quarter(b)

(* The policies are ignored when nothing is unread. *)
Collect(b, policy) ==
  IF Used(b) = 0 THEN [b EXCEPT !.in = 0, !.out = 0]
  ELSE IF Worthwhile(b, policy) THEN [b EXCEPT !.in = Used(b), !.out = 0]
  ELSE b

OffsetOutHeadUnclamped(b, n) == [b EXCEPT !.out = @ + n]

OffsetOutHead(b, n) == [b EXCEPT !.out = IF b.out + n > b.in THEN b.in ELSE b.out + n]
OffsetInHead(b, n)  == [b EXCEPT !.in = IF b.in + n > b.size THEN b.size ELSE b.in + n]

(* realloc() either gives the size asked for or leaves the buffer alone. *)
Realloc(b, n, ok) == IF ok THEN [b EXCEPT !.size = n] ELSE b

(* What qbuf_peek and qbuf_read can hand out. *)
Readable(b, n) == IF n <= Used(b) THEN n ELSE Used(b)

(* The stages of qbuf_write: make room by collecting, then by growing.     *)
Collected(b, n)   == IF n > Spare(b) THEN Collect(b, {}) ELSE b
MustGrow(b, n)    == n > Spare(Collected(b, n))
GrownSize(b, n)   == IF b.size > n THEN b.size * 2 ELSE n * 2
Roomy(b, n, ok)   == IF MustGrow(b, n)
                     THEN Realloc(Collected(b, n), GrownSize(b, n), ok)
                     ELSE Collected(b, n)
WritableUnclamped(b, n, ok) == n
Writable(b, n, ok) == IF n <= Spare(Roomy(b, n, ok)) THEN n ELSE Spare(Roomy(b, n, ok))
Written(b, n, ok) == OffsetInHead(Roomy(b, n, ok), Writable(b, n, ok))

=============================================================================
