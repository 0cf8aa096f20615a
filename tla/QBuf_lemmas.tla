----------------------------- MODULE QBuf_lemmas -----------------------------
(***************************************************************************)
(* The offset arithmetic of qbuf.c, for every buffer and every length:     *)
(* it stays inside the allocation, a write is total unless realloc fails   *)
(* (WriteAcceptsAll), and consuming leaves room (ConsumeLeavesRoom).  The  *)
(* proofs about the buffer and about the sockets rest on it.               *)
(***************************************************************************)
EXTENDS QBuf, TLAPS

-----------------------------------------------------------------------------
(* The operators of QBuf keep a buffer a buffer.                           *)

LEMMA NewType ==
  ASSUME NEW n \in Nat
  PROVE  New(n) \in Buffer
BY QBufAssumption DEF New, Buffer

LEMMA CollectType ==
  ASSUME NEW b \in Buffer, NEW policy
  PROVE  /\ Collect(b, policy) \in Buffer
         /\ Used(Collect(b, policy)) = Used(b)
         /\ Collect(b, policy).size = b.size
         /\ Spare(Collect(b, policy)) >= Spare(b)
<1>0. /\ b = [size |-> b.size, in |-> b.in, out |-> b.out]
      /\ b.size \in Nat \ {0} /\ b.in \in Nat /\ b.out \in Nat
      /\ b.out <= b.in /\ b.in <= b.size
  BY DEF Buffer
<1>1. CASE Used(b) = 0
  <2>1. Collect(b, policy) = [size |-> b.size, in |-> 0, out |-> 0]
    BY <1>0, <1>1 DEF Collect
  <2> QED BY <1>0, <1>1, <2>1 DEF Buffer, Used, Spare
<1>2. CASE Used(b) # 0 /\ Worthwhile(b, policy)
  <2>1. Collect(b, policy) = [size |-> b.size, in |-> b.in - b.out, out |-> 0]
    BY <1>0, <1>2 DEF Collect, Used
  <2> QED BY <1>0, <2>1 DEF Buffer, Used, Spare
<1>3. CASE Used(b) # 0 /\ ~Worthwhile(b, policy)
  <2>1. Collect(b, policy) = b
    BY <1>3 DEF Collect
  <2> QED BY <1>0, <2>1 DEF Spare
<1> QED BY <1>1, <1>2, <1>3

LEMMA OffsetOutType ==
  ASSUME NEW b \in Buffer, NEW n \in Nat
  PROVE  /\ OffsetOutHead(b, n) \in Buffer
         /\ OffsetOutHead(b, n).size = b.size
         /\ OffsetOutHead(b, n).in = b.in
         /\ OffsetOutHead(b, n).out = b.out + Readable(b, n)
BY DEF OffsetOutHead, Buffer, Used, Readable

LEMMA OffsetInType ==
  ASSUME NEW b \in Buffer, NEW n \in Nat, n <= Spare(b)
  PROVE  /\ OffsetInHead(b, n) \in Buffer
         /\ OffsetInHead(b, n).size = b.size
         /\ OffsetInHead(b, n).in = b.in + n
         /\ OffsetInHead(b, n).out = b.out
BY DEF OffsetInHead, Buffer, Spare

LEMMA ReallocType ==
  ASSUME NEW b \in Buffer, NEW n \in Nat, n >= b.size, NEW ok \in BOOLEAN
  PROVE  /\ Realloc(b, n, ok) \in Buffer
         /\ Realloc(b, n, ok).in = b.in
         /\ Realloc(b, n, ok).out = b.out
         /\ Realloc(b, n, ok).size >= b.size
BY DEF Realloc, Buffer

(* The room qbuf_write makes is in a buffer with the same unread bytes, at *)
(* the offsets the collection left them, and it accepts no more than fits. *)
LEMMA RoomyType ==
  ASSUME NEW b \in Buffer, NEW n \in Nat, NEW ok \in BOOLEAN
  PROVE  /\ Collected(b, n) \in Buffer
         /\ Roomy(b, n, ok) \in Buffer
         /\ Roomy(b, n, ok).size >= b.size
         /\ Roomy(b, n, ok).in = Collected(b, n).in
         /\ Roomy(b, n, ok).out = Collected(b, n).out
         /\ Collected(b, n).size = b.size
         /\ Used(Collected(b, n)) = Used(b)
         /\ Writable(b, n, ok) \in Nat
         /\ Writable(b, n, ok) <= n
         /\ Writable(b, n, ok) <= Spare(Roomy(b, n, ok))
<1> DEFINE c == Collected(b, n)
<1>1. c \in Buffer /\ c.size = b.size /\ Used(c) = Used(b)
  BY CollectType DEF Collected
<1>2. MustGrow(b, n) => GrownSize(b, n) \in Nat /\ GrownSize(b, n) >= c.size
  BY <1>1 DEF GrownSize, Buffer
<1>3. /\ Roomy(b, n, ok) \in Buffer
      /\ Roomy(b, n, ok).size >= b.size
      /\ Roomy(b, n, ok).in = c.in
      /\ Roomy(b, n, ok).out = c.out
  <2>1. CASE MustGrow(b, n)
    BY <1>1, <1>2, <2>1, ReallocType DEF Roomy
  <2>2. CASE ~MustGrow(b, n)
    BY <1>1, <2>2 DEF Roomy, Buffer
  <2> QED BY <2>1, <2>2
<1>4. Spare(Roomy(b, n, ok)) \in Nat
  BY <1>3 DEF Spare, Buffer
<1>5. /\ Writable(b, n, ok) \in Nat
      /\ Writable(b, n, ok) <= n
      /\ Writable(b, n, ok) <= Spare(Roomy(b, n, ok))
  BY <1>4 DEF Writable
<1> QED BY <1>1, <1>3, <1>5

(* qbuf_write accepts everything it is given unless it has to grow the     *)
(* buffer and realloc fails.                                               *)
THEOREM WriteAcceptsAll ==
  ASSUME NEW b \in Buffer, NEW n \in Nat, NEW ok \in BOOLEAN,
         MustGrow(b, n) => ok
  PROVE  Writable(b, n, ok) = n
<1> DEFINE c == Collected(b, n)
<1>1. c \in Buffer /\ c.size = b.size
  BY RoomyType
<1>2. CASE MustGrow(b, n)
  <2>1. Spare(Roomy(b, n, ok)) = GrownSize(b, n) - c.in
    BY <1>1, <1>2 DEF Roomy, Realloc, Spare, Buffer
  <2>2. n > Spare(b)
    BY <1>2 DEF MustGrow, Collected
  <2>3. c = Collect(b, {})
    BY <2>2 DEF Collected
  <2>4. c.in = Used(b)
    BY <2>3 DEF Collect, Worthwhile, Used, Buffer
  <2>5. Used(b) <= b.size /\ Used(b) \in Nat
    BY DEF Used, Buffer
  <2>6. GrownSize(b, n) >= n + Used(b)
    BY <2>5 DEF GrownSize, Buffer
  <2>7. GrownSize(b, n) \in Nat
    BY DEF GrownSize, Buffer
  <2>8. n <= Spare(Roomy(b, n, ok))
    BY <2>1, <2>4, <2>5, <2>6, <2>7
  <2> QED BY <2>8 DEF Writable
<1>3. CASE ~MustGrow(b, n)
  <2>1. n <= Spare(Roomy(b, n, ok))
    BY <1>1, <1>3 DEF MustGrow, Roomy, Spare, Buffer
  <2> QED BY <2>1 DEF Writable
<1> QED BY <1>2, <1>3

(* Once some unread bytes are consumed, qbuf_collect with LESS_SPARE       *)
(* leaves spare room, whatever the offsets were.                           *)
THEOREM ConsumeLeavesRoom ==
  ASSUME NEW b \in Buffer, NEW n \in 1..Used(b)
  PROVE  Spare(Collect(OffsetOutHead(b, n), {"LESS_SPARE"})) > 0
<1> DEFINE d == OffsetOutHead(b, n)
<1>1. n \in Nat /\ n > 0 /\ Readable(b, n) = n
  BY DEF Used, Buffer, Readable
<1>2. /\ d \in Buffer
      /\ d.size = b.size
      /\ d.in = b.in
      /\ d.out = b.out + n
  BY <1>1, OffsetOutType
<1>3. d.out > 0
  BY <1>1, <1>2 DEF Buffer
<1>4. d.size \in Nat \ {0} /\ d.in \in Nat /\ d.out \in Nat
  BY <1>2 DEF Buffer
<1>5. CASE Used(d) = 0
  BY <1>4, <1>5 DEF Collect, Spare
<1>6. CASE Used(d) # 0 /\ Spare(d) = 0
  <2>1. Worthwhile(d, {"LESS_SPARE"})
    BY <1>4, <1>6 DEF Worthwhile, Quarter
  <2>2. Collect(d, {"LESS_SPARE"}) = [d EXCEPT !.in = Used(d), !.out = 0]
    BY <1>6, <2>1 DEF Collect
  <2>3. Spare(Collect(d, {"LESS_SPARE"})) = d.size - (d.in - d.out)
    BY <1>2, <2>2 DEF Spare, Used, Buffer
  <2> QED BY <1>3, <1>4, <1>6, <2>3 DEF Spare
<1>7. CASE Used(d) # 0 /\ Spare(d) # 0
  <2>1. Spare(d) \in Nat /\ Spare(Collect(d, {"LESS_SPARE"})) \in Nat
    BY <1>2, CollectType DEF Spare, Buffer
  <2>2. Spare(Collect(d, {"LESS_SPARE"})) >= Spare(d)
    BY <1>2, CollectType
  <2> QED BY <1>7, <2>1, <2>2
<1> QED BY <1>5, <1>6, <1>7

=============================================================================
