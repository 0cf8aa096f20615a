----------------------------- MODULE QBuf_proofs -----------------------------
(***************************************************************************)
(* Proofs about the buffer of qbuf.c, for every size of the buffer, every  *)
(* length of a call and every set of byte values:                          *)
(*   - the offset arithmetic stays in the allocation (Typing);             *)
(*   - no uninitialised byte is ever unread (Clean);                       *)
(*   - consuming leaves room (RoomInvariant);                              *)
(*   - the buffer implements ByteQueue (Refinement).                       *)
(***************************************************************************)
EXTENDS QBufMachine, QBuf_lemmas, SequenceTheorems, TLAPS

-----------------------------------------------------------------------------
(* The memory behind the buffer.                                           *)

LEMMA ChunkType ==
  ASSUME NEW bytes \in Chunk
  PROVE  /\ bytes \in Seq(Byte)
         /\ Len(bytes) \in Nat
         /\ \A i \in 1..Len(bytes) : bytes[i] \in Byte
<1>1. PICK n \in 0..MaxChunk : bytes \in [1..n -> Byte]
  BY DEF Chunk
<1>2. n \in Nat
  BY <1>1, QBufMachineAssumption
<1> QED BY <1>1, <1>2

(* A collection moves the unread bytes, in order, to their new place.      *)
LEMMA MovedContent ==
  ASSUME NEW b \in Buffer, NEW policy, NEW mem \in [1..b.size -> Cell],
         NEW c, c = Collect(b, policy)
  PROVE  /\ Moved(mem, b, c) \in [1..b.size -> Cell]
         /\ \A i \in 1..Used(b) : /\ c.out + i \in 1..b.size
                                  /\ Moved(mem, b, c)[c.out + i] = mem[b.out + i]
<1>0. /\ b = [size |-> b.size, in |-> b.in, out |-> b.out]
      /\ b.size \in Nat \ {0} /\ b.in \in Nat /\ b.out \in Nat
      /\ b.out <= b.in /\ b.in <= b.size
      /\ Used(b) = b.in - b.out
  BY DEF Buffer, Used
<1>1. \A i \in 1..Used(b) : b.out + i \in 1..b.size /\ i \in 1..b.size
  BY <1>0
<1>2. Moved(mem, b, c) \in [1..b.size -> Cell]
  BY <1>0, <1>1 DEF Moved
<1>3. CASE Used(b) = 0
  BY <1>2, <1>3
<1>4. CASE Used(b) # 0 /\ Worthwhile(b, policy)
  <2>1. c = [size |-> b.size, in |-> b.in - b.out, out |-> 0]
    BY <1>0, <1>4 DEF Collect
  <2>2. CASE c # b
    BY <1>1, <1>2, <2>1, <2>2 DEF Moved
  <2>3. CASE c = b
    <3>1. b.out = 0
      BY <1>0, <2>1, <2>3
    <3> QED BY <1>0, <1>1, <1>2, <2>1, <2>3, <3>1 DEF Moved
  <2> QED BY <2>2, <2>3
<1>5. CASE Used(b) # 0 /\ ~Worthwhile(b, policy)
  <2>1. c = b
    BY <1>5 DEF Collect
  <2> QED BY <1>1, <1>2, <2>1 DEF Moved
<1> QED BY <1>3, <1>4, <1>5

LEMMA ResizedContent ==
  ASSUME NEW old \in Nat, NEW new \in Nat, old <= new,
         NEW mem \in [1..old -> Cell]
  PROVE  /\ Resized(mem, old, new) \in [1..new -> Cell]
         /\ \A i \in 1..old : Resized(mem, old, new)[i] = mem[i]
BY DEF Resized, Cell

LEMMA CopiedContent ==
  ASSUME NEW size \in Nat, NEW at \in Nat, NEW mem \in [1..size -> Cell],
         NEW bytes \in Seq(Byte), NEW n \in 0..Len(bytes), at + n <= size
  PROVE  /\ Copied(mem, size, at, bytes, n) \in [1..size -> Cell]
         /\ \A i \in 1..at : Copied(mem, size, at, bytes, n)[i] = mem[i]
         /\ \A i \in 1..n : Copied(mem, size, at, bytes, n)[at + i] = bytes[i]
<1>1. \A i \in 1..size : at < i /\ i <= at + n => i - at \in 1..Len(bytes)
  OBVIOUS
<1>2. \A i \in 1..Len(bytes) : bytes[i] \in Byte
  OBVIOUS
<1>3. Copied(mem, size, at, bytes, n) \in [1..size -> Cell]
  BY <1>1, <1>2 DEF Copied, Cell
<1>4. \A i \in 1..at : i \in 1..size /\ ~(at < i)
  OBVIOUS
<1>5. \A i \in 1..at : Copied(mem, size, at, bytes, n)[i] = mem[i]
  BY <1>4 DEF Copied
<1>6. \A i \in 1..n : at + i \in 1..size /\ at < at + i /\ at + i <= at + n
                      /\ (at + i) - at = i
  OBVIOUS
<1>7. \A i \in 1..n : Copied(mem, size, at, bytes, n)[at + i] = bytes[i]
  BY <1>6 DEF Copied
<1> QED BY <1>3, <1>5, <1>7

-----------------------------------------------------------------------------
(* What the three calls that move bytes do to the offsets and the memory.  *)

(* Between qbuf_delete and the next qbuf_new nothing is unread.            *)
EmptyWhenDead == ~alive => Used(q) = 0

(* The inductive invariant: the offsets are in order, what lies between    *)
(* them was written by the caller, and a new buffer starts empty.          *)
IInv == TypeOK /\ NoJunkUnread /\ EmptyWhenDead

LEMMA WriteEffect ==
  ASSUME IInv, NEW bytes \in Chunk, Write(bytes)
  PROVE  /\ q' \in Buffer
         /\ raw' \in [1..q'.size -> Cell]
         /\ \E k \in 0..Len(bytes) :
              /\ k = Len(bytes) \/ starved
              /\ reply' = SubSeq(bytes, 1, k)
              /\ Used(q') = Used(q) + k
              /\ \A i \in 1..Used(q) : raw'[q'.out + i] = raw[q.out + i]
              /\ \A i \in 1..k : raw'[q'.out + Used(q) + i] = bytes[i]
<1> DEFINE n == Len(bytes)
           c == Collected(q, n)
           mem == IF n > Spare(q) THEN Moved(raw, q, c) ELSE raw
<1>1. /\ q \in Buffer /\ raw \in [1..q.size -> Cell]
      /\ bytes \in Seq(Byte) /\ n \in Nat
  BY ChunkType DEF IInv, TypeOK
<1>2. PICK ok \in IF MustGrow(q, n) THEN Allocates(GrownSize(q, n)) ELSE {TRUE} :
        /\ q' = Written(q, n, ok)
        /\ raw' = Copied(Resized(mem, c.size, Roomy(q, n, ok).size),
                         Roomy(q, n, ok).size, Roomy(q, n, ok).in,
                         bytes, Writable(q, n, ok))
        /\ reply' = SubSeq(bytes, 1, Writable(q, n, ok))
  BY DEF Write
<1> DEFINE r == Roomy(q, n, ok)
           k == Writable(q, n, ok)
<1>3. ok \in BOOLEAN
  BY <1>2 DEF Allocates
<1>4. /\ c \in Buffer /\ r \in Buffer
      /\ r.size >= q.size /\ r.in = c.in /\ r.out = c.out
      /\ c.size = q.size /\ Used(c) = Used(q)
      /\ k \in Nat /\ k <= n /\ k <= Spare(r)
  BY <1>1, <1>3, RoomyType
<1> HIDE DEF c, r, k
<1>5. /\ q' \in Buffer /\ q'.size = r.size
      /\ q'.in = r.in + k /\ q'.out = r.out
  BY <1>2, <1>4, OffsetInType DEF Written, r, k
<1>6. /\ mem \in [1..q.size -> Cell]
      /\ \A i \in 1..Used(q) : /\ c.out + i \in 1..q.size
                               /\ mem[c.out + i] = raw[q.out + i]
  <2>1. CASE n > Spare(q)
    <3>1. c = Collect(q, {})
      BY <2>1 DEF c, Collected
    <3> QED BY <1>1, <2>1, <3>1, MovedContent
  <2>2. CASE ~(n > Spare(q))
    <3>1. c = q
      BY <2>2 DEF c, Collected
    <3> QED BY <1>1, <2>2, <3>1 DEF Buffer, Used
  <2> QED BY <2>1, <2>2
<1> HIDE DEF mem
<1> DEFINE big == Resized(mem, c.size, r.size)
<1>7. /\ big \in [1..r.size -> Cell]
      /\ \A i \in 1..q.size : big[i] = mem[i]
  <2>1. c.size \in Nat /\ r.size \in Nat /\ c.size <= r.size /\ c.size = q.size
    BY <1>1, <1>4 DEF Buffer
  <2>2. mem \in [1..c.size -> Cell]
    BY <1>6, <2>1
  <2> QED BY <2>1, <2>2, ResizedContent
<1> HIDE DEF big
<1>8. raw' = Copied(big, r.size, r.in, bytes, k)
  BY <1>2 DEF big, r, k
<1>9. /\ r.size \in Nat /\ r.in \in Nat /\ r.in + k <= r.size /\ k \in 0..Len(bytes)
  BY <1>1, <1>4 DEF Buffer, Spare
<1>10. /\ raw' \in [1..r.size -> Cell]
       /\ \A i \in 1..r.in : raw'[i] = big[i]
       /\ \A i \in 1..k : raw'[r.in + i] = bytes[i]
  <2>1. bytes \in Seq(Byte) /\ big \in [1..r.size -> Cell]
    BY <1>1, <1>7
  <2> HIDE DEF n
  <2> QED BY <1>8, <1>9, <2>1, CopiedContent
<1>11. /\ Used(q') = Used(q) + k
       /\ r.in = c.out + Used(q)
       /\ Used(q) \in Nat /\ c.out \in Nat
  BY <1>1, <1>4, <1>5 DEF Buffer, Used
<1>12. \A i \in 1..Used(q) : raw'[q'.out + i] = raw[q.out + i]
  <2> TAKE i \in 1..Used(q)
  <2>1. c.out + i \in 1..r.in
    BY <1>11
  <2> QED BY <1>4, <1>5, <1>6, <1>7, <1>10, <2>1
<1>13. \A i \in 1..k : raw'[q'.out + Used(q) + i] = bytes[i]
  BY <1>4, <1>5, <1>10, <1>11
<1>14. k = Len(bytes) \/ starved
  <2>1. CASE starved
    BY <2>1
  <2>2. CASE ~starved
    <3>1. MustGrow(q, n) => ok
      BY <1>2, <2>2 DEF Allocates
    <3> QED BY <1>1, <1>3, <3>1, WriteAcceptsAll DEF k
  <2> QED BY <2>1, <2>2
<1>15. reply' = SubSeq(bytes, 1, k)
  BY <1>2 DEF k
<1> QED BY <1>5, <1>9, <1>10, <1>11, <1>12, <1>13, <1>14, <1>15

LEMMA ReceiveEffect ==
  ASSUME IInv, NEW bytes \in Chunk, Receive(bytes)
  PROVE  /\ q' \in Buffer
         /\ raw' \in [1..q'.size -> Cell]
         /\ reply' = SubSeq(bytes, 1, Len(bytes))
         /\ Used(q') = Used(q) + Len(bytes)
         /\ \A i \in 1..Used(q) : raw'[q'.out + i] = raw[q.out + i]
         /\ \A i \in 1..Len(bytes) : raw'[q'.out + Used(q) + i] = bytes[i]
<1>1. /\ q \in Buffer /\ raw \in [1..q.size -> Cell]
      /\ bytes \in Seq(Byte) /\ Len(bytes) \in Nat
  BY ChunkType DEF IInv, TypeOK
<1>2. /\ q' \in Buffer /\ q'.size = q.size
      /\ q'.in = q.in + Len(bytes) /\ q'.out = q.out
  BY <1>1, OffsetInType DEF Receive
<1>3. /\ q.size \in Nat /\ q.in \in Nat /\ q.out \in Nat
      /\ q.out <= q.in /\ q.in + Len(bytes) <= q.size
      /\ Len(bytes) \in 0..Len(bytes)
  BY <1>1 DEF Receive, Buffer, Spare
<1>4. /\ raw' \in [1..q.size -> Cell]
      /\ \A i \in 1..q.in : raw'[i] = raw[i]
      /\ \A i \in 1..Len(bytes) : raw'[q.in + i] = bytes[i]
  <2> DEFINE k == Len(bytes)
  <2>1. raw' = Copied(raw, q.size, q.in, bytes, k)
    BY DEF Receive
  <2>2. /\ q.size \in Nat /\ q.in \in Nat /\ raw \in [1..q.size -> Cell]
        /\ bytes \in Seq(Byte) /\ k \in 0..Len(bytes) /\ q.in + k <= q.size
    BY <1>1, <1>3
  <2>3. /\ raw' \in [1..q.size -> Cell]
        /\ \A i \in 1..q.in : raw'[i] = raw[i]
        /\ \A i \in 1..k : raw'[q.in + i] = bytes[i]
    <3> HIDE DEF k
    <3>1. /\ Copied(raw, q.size, q.in, bytes, k) \in [1..q.size -> Cell]
          /\ \A i \in 1..q.in : Copied(raw, q.size, q.in, bytes, k)[i] = raw[i]
          /\ \A i \in 1..k : Copied(raw, q.size, q.in, bytes, k)[q.in + i] = bytes[i]
      BY <2>2, CopiedContent
    <3> QED BY <2>1, <3>1
  <2> QED BY <2>3
<1>5. Used(q') = Used(q) + Len(bytes) /\ q.in = q.out + Used(q) /\ Used(q) \in Nat
  BY <1>1, <1>2, <1>3 DEF Used
<1>6. \A i \in 1..Used(q) : raw'[q'.out + i] = raw[q.out + i]
  <2> TAKE i \in 1..Used(q)
  <2>1. q.out + i \in 1..q.in
    BY <1>3, <1>5
  <2> QED BY <1>2, <1>4, <2>1
<1>7. \A i \in 1..Len(bytes) : raw'[q'.out + Used(q) + i] = bytes[i]
  BY <1>2, <1>4, <1>5
<1>8. reply' = SubSeq(bytes, 1, Len(bytes))
  <2>1. reply' = bytes
    BY DEF Receive
  <2>2. SubSeq(bytes, 1, Len(bytes)) = bytes
    BY <1>1
  <2> QED BY <2>1, <2>2
<1> QED BY <1>2, <1>4, <1>5, <1>6, <1>7, <1>8

(* Read and Consume advance offset_out over the bytes handed out.          *)
LEMMA AdvanceEffect ==
  ASSUME IInv, NEW n \in Nat, q' = OffsetOutHead(q, n), raw' = raw
  PROVE  /\ q' \in Buffer
         /\ q'.size = q.size
         /\ Readable(q, n) \in 0..Used(q)
         /\ q'.out = q.out + Readable(q, n)
         /\ Used(q') = Used(q) - Readable(q, n)
<1>1. q \in Buffer
  BY DEF IInv, TypeOK
<1>2. Readable(q, n) \in 0..Used(q)
  BY <1>1 DEF Readable, Used, Buffer
<1>3. /\ q' \in Buffer /\ q'.size = q.size /\ q'.in = q.in
      /\ q'.out = q.out + Readable(q, n)
  BY <1>1, OffsetOutType
<1> QED BY <1>1, <1>2, <1>3 DEF Used, Buffer

LEMMA ReadableTwice ==
  ASSUME NEW b \in Buffer, NEW n \in Nat
  PROVE  Readable(b, Readable(b, n)) = Readable(b, n)
BY DEF Readable, Used, Buffer

LEMMA TidyEffect ==
  ASSUME IInv, NEW policy, Tidy(policy)
  PROVE  /\ q' \in Buffer
         /\ q'.size = q.size
         /\ raw' \in [1..q.size -> Cell]
         /\ Used(q') = Used(q)
         /\ \A i \in 1..Used(q) : raw'[q'.out + i] = raw[q.out + i]
<1>1. q \in Buffer /\ raw \in [1..q.size -> Cell]
  BY DEF IInv, TypeOK
<1>2. q' = Collect(q, policy) /\ raw' = Moved(raw, q, q')
  BY DEF Tidy
<1> QED BY <1>1, <1>2, CollectType, MovedContent

LEMMA GrowEffect ==
  ASSUME IInv, Grow
  PROVE  /\ q' \in Buffer
         /\ raw' \in [1..q'.size -> Cell]
         /\ q'.in = q.in /\ q'.out = q.out
         /\ \A i \in 1..q.size : raw'[i] = raw[i]
<1>1. /\ q \in Buffer /\ raw \in [1..q.size -> Cell]
      /\ q.size \in Nat /\ q.size * 2 \in Nat /\ q.size * 2 >= q.size
  BY DEF IInv, TypeOK, Buffer
<1>2. PICK ok \in Allocates(q.size * 2) :
        q' = Realloc(q, q.size * 2, ok) /\ raw' = Resized(raw, q.size, q'.size)
  BY DEF Grow
<1>3. ok \in BOOLEAN
  BY <1>2 DEF Allocates
<1>4. /\ q' \in Buffer /\ q'.in = q.in /\ q'.out = q.out /\ q'.size >= q.size
  BY <1>1, <1>2, <1>3, ReallocType
<1>5. q'.size \in Nat
  BY <1>4 DEF Buffer
<1> QED BY <1>1, <1>2, <1>4, <1>5, ResizedContent

-----------------------------------------------------------------------------
(* The inductive invariant.                                                *)

(* Where unread bytes stay what they were and written bytes follow them,   *)
(* nothing uninitialised becomes unread.                                   *)
LEMMA CleanAfterAppend ==
  ASSUME IInv, NEW bytes \in Chunk, NEW k \in 0..Len(bytes),
         Used(q') = Used(q) + k,
         \A i \in 1..Used(q) : raw'[q'.out + i] = raw[q.out + i],
         \A i \in 1..k : raw'[q'.out + Used(q) + i] = bytes[i],
         q' \in Buffer
  PROVE  NoJunkUnread'
<1>1. /\ q \in Buffer /\ Used(q) \in Nat /\ k \in Nat /\ Len(bytes) \in Nat
      /\ \A i \in 1..Used(q) : raw[q.out + i] \in Byte
      /\ \A i \in 1..k : bytes[i] \in Byte
  BY ChunkType DEF IInv, TypeOK, NoJunkUnread, Used, Buffer
<1> SUFFICES ASSUME NEW i \in 1..Used(q')
             PROVE  raw'[q'.out + i] \in Byte
  BY DEF NoJunkUnread
<1>2. CASE i \in 1..Used(q)
  BY <1>1, <1>2
<1>3. CASE i \notin 1..Used(q)
  <2>1. i - Used(q) \in 1..k
    BY <1>1, <1>3
  <2>2. raw'[q'.out + Used(q) + (i - Used(q))] = bytes[i - Used(q)]
    BY <2>1
  <2>3. q'.out + Used(q) + (i - Used(q)) = q'.out + i
    BY <1>1, <2>1 DEF Buffer
  <2> QED BY <1>1, <2>1, <2>2, <2>3
<1> QED BY <1>2, <1>3

LEMMA InitInv == Init => IInv
<1> SUFFICES ASSUME Init PROVE IInv
  OBVIOUS
<1>1. q \in Buffer /\ q.size = RawSize /\ q.in = 0 /\ q.out = 0
  BY QBufAssumption DEF Init, Buffer
<1>2. raw \in [1..q.size -> Cell]
  BY <1>1 DEF Init, Cell
<1>3. Used(q) = 0
  BY <1>1 DEF Used
<1>4. alive \in BOOLEAN /\ reply \in Seq(Byte) /\ starved \in BOOLEAN
  BY EmptySeq DEF Init
<1> QED BY <1>1, <1>2, <1>3, <1>4 DEF IInv, TypeOK, EmptyWhenDead, NoJunkUnread

LEMMA CreateInv ==
  ASSUME IInv, NEW n \in NewSizes, Create(n)
  PROVE  IInv'
<1>1. PICK ok \in Allocates(New(n).size) :
        /\ alive' = ok
        /\ q' = IF ok THEN New(n) ELSE q
        /\ raw' = IF ok THEN [i \in 1..New(n).size |-> Junk] ELSE raw
  BY DEF Create
<1>2. ok \in BOOLEAN /\ reply' = reply /\ starved' = starved
  BY <1>1 DEF Create, Allocates
<1>3. CASE ok
  <2>1. q' \in Buffer /\ Used(q') = 0
    <3>1. n \in Nat /\ q' = New(n)
      BY <1>1, <1>3, QBufMachineAssumption
    <3> QED BY <3>1, NewType DEF New, Used
  <2>2. raw' \in [1..q'.size -> Cell]
    BY <1>1, <1>3 DEF Cell
  <2> QED BY <1>1, <1>2, <2>1, <2>2 DEF IInv, TypeOK, EmptyWhenDead, NoJunkUnread
<1>4. CASE ~ok
  <2>1. ok = FALSE /\ alive = FALSE
    BY <1>2, <1>4 DEF Create, IInv, TypeOK
  <2>2. q' = q /\ raw' = raw /\ alive' = alive
    BY <1>1, <2>1
  <2> QED BY <1>2, <2>2 DEF IInv, TypeOK, NoJunkUnread, EmptyWhenDead
<1> QED BY <1>2, <1>3, <1>4

LEMMA DestroyInv ==
  ASSUME IInv, Destroy
  PROVE  IInv'
<1>1. q' \in Buffer /\ q'.size = RawSize /\ Used(q') = 0
  BY QBufAssumption DEF Destroy, Buffer, Used
<1>2. raw' \in [1..q'.size -> Cell]
  BY <1>1 DEF Destroy, Cell
<1>3. reply' \in Seq(Byte)
  BY EmptySeq DEF Destroy
<1>4. alive' \in BOOLEAN /\ starved' \in BOOLEAN
  BY DEF Destroy, IInv, TypeOK
<1> QED BY <1>1, <1>2, <1>3, <1>4 DEF IInv, TypeOK, EmptyWhenDead, NoJunkUnread

(* A reply is always made of bytes that were unread.                       *)
LEMMA FrontType ==
  ASSUME IInv, NEW n \in Nat
  PROVE  Front(n) \in Seq(Byte)
<1>1. /\ q \in Buffer /\ Readable(q, n) \in 0..Used(q) /\ Used(q) \in Nat
  BY DEF IInv, TypeOK, Readable, Used, Buffer
<1>2. \A i \in 1..Readable(q, n) : raw[q.out + i] \in Byte
  BY <1>1 DEF IInv, NoJunkUnread
<1>3. Front(n) \in [1..Readable(q, n) -> Byte]
  BY <1>2 DEF Front, Bytes
<1>4. Readable(q, n) \in Nat
  BY <1>1
<1> QED BY <1>3, <1>4

LEMMA AdvanceInv ==
  ASSUME IInv, NEW n \in Nat, q' = OffsetOutHead(q, n), raw' = raw
  PROVE  q' \in Buffer /\ raw' \in [1..q'.size -> Cell] /\ NoJunkUnread'
<1>1. /\ q' \in Buffer /\ q'.size = q.size
      /\ Readable(q, n) \in 0..Used(q)
      /\ q'.out = q.out + Readable(q, n)
      /\ Used(q') = Used(q) - Readable(q, n)
  BY AdvanceEffect
<1>2. q.out \in Nat /\ Used(q) \in Nat
  BY DEF IInv, TypeOK, Buffer, Used
<1>3. ASSUME NEW i \in 1..Used(q')
      PROVE  raw'[q'.out + i] \in Byte
  <2>1. Readable(q, n) + i \in 1..Used(q)
    BY <1>1, <1>2
  <2>2. raw[q.out + (Readable(q, n) + i)] \in Byte
    BY <2>1 DEF IInv, NoJunkUnread
  <2>3. q'.out + i = q.out + (Readable(q, n) + i)
    BY <1>1, <1>2
  <2> QED BY <2>2, <2>3
<1> QED BY <1>1, <1>3 DEF IInv, TypeOK, EmptyWhenDead, NoJunkUnread

LEMMA NextInv == IInv /\ [Next]_vars => IInv'
<1> SUFFICES ASSUME IInv, [Next]_vars PROVE IInv'
  OBVIOUS
<1>0. /\ alive \in BOOLEAN /\ starved \in BOOLEAN /\ reply \in Seq(Byte)
      /\ q \in Buffer /\ raw \in [1..q.size -> Cell]
  BY DEF IInv, TypeOK
<1>1. ASSUME NEW n \in NewSizes, Create(n) PROVE IInv'
  BY <1>1, CreateInv
<1>2. CASE Destroy
  BY <1>2, DestroyInv
<1>3. ASSUME NEW bytes \in Chunk, Write(bytes) PROVE IInv'
  <2>1. PICK k \in 0..Len(bytes) :
          /\ reply' = SubSeq(bytes, 1, k)
          /\ Used(q') = Used(q) + k
          /\ \A i \in 1..Used(q) : raw'[q'.out + i] = raw[q.out + i]
          /\ \A i \in 1..k : raw'[q'.out + Used(q) + i] = bytes[i]
    BY <1>3, WriteEffect
  <2>2. q' \in Buffer /\ raw' \in [1..q'.size -> Cell]
    BY <1>3, WriteEffect
  <2>3. reply' \in Seq(Byte)
    BY <2>1, ChunkType, SubSeqProperties
  <2>4. NoJunkUnread'
    BY <2>1, <2>2, CleanAfterAppend
  <2>5. alive /\ alive' = alive /\ starved' = starved
    BY <1>3 DEF Write
  <2> QED BY <1>0, <2>2, <2>3, <2>4, <2>5 DEF IInv, TypeOK, EmptyWhenDead
<1>4. ASSUME NEW bytes \in Chunk, Receive(bytes) PROVE IInv'
  <2>1. Len(bytes) \in 0..Len(bytes)
    BY ChunkType
  <2>2. /\ q' \in Buffer /\ raw' \in [1..q'.size -> Cell]
        /\ Used(q') = Used(q) + Len(bytes)
        /\ \A i \in 1..Used(q) : raw'[q'.out + i] = raw[q.out + i]
        /\ \A i \in 1..Len(bytes) : raw'[q'.out + Used(q) + i] = bytes[i]
    BY <1>4, ReceiveEffect
  <2>3. NoJunkUnread'
    BY <2>1, <2>2, CleanAfterAppend
  <2>4. alive /\ alive' = alive /\ starved' = starved /\ reply' \in Seq(Byte)
    BY <1>4, ChunkType DEF Receive
  <2> QED BY <1>0, <2>2, <2>3, <2>4 DEF IInv, TypeOK, EmptyWhenDead
<1>5. ASSUME NEW n \in 0..MaxChunk, Peek(n) PROVE IInv'
  <2>1. reply' \in Seq(Byte)
    BY <1>5, FrontType, QBufMachineAssumption DEF Peek
  <2> QED BY <1>0, <1>5, <2>1 DEF Peek, IInv, TypeOK, EmptyWhenDead, NoJunkUnread
<1>6. ASSUME NEW n \in 0..MaxChunk, Read(n) PROVE IInv'
  <2>1. n \in Nat /\ Readable(q, n) \in Nat
    BY <1>0, QBufMachineAssumption DEF Readable, Used, Buffer
  <2>2. reply' \in Seq(Byte)
    BY <1>6, <2>1, FrontType DEF Read
  <2>3. q' \in Buffer /\ raw' \in [1..q'.size -> Cell] /\ NoJunkUnread'
    BY <1>6, <2>1, AdvanceInv DEF Read
  <2> QED BY <1>0, <1>6, <2>2, <2>3 DEF Read, IInv, TypeOK, EmptyWhenDead
<1>7. ASSUME NEW n \in 0..MaxChunk, Consume(n) PROVE IInv'
  <2>1. n \in Nat
    BY QBufMachineAssumption
  <2>2. q' \in Buffer /\ raw' \in [1..q'.size -> Cell] /\ NoJunkUnread'
    BY <1>7, <2>1, AdvanceInv DEF Consume
  <2> QED BY <1>0, <1>7, <2>2 DEF Consume, IInv, TypeOK, EmptyWhenDead
<1>8. ASSUME NEW policy \in SUBSET Policy, Tidy(policy) PROVE IInv'
  <2>1. /\ q' \in Buffer /\ raw' \in [1..q'.size -> Cell]
        /\ Used(q') = Used(q)
        /\ \A i \in 1..Used(q) : raw'[q'.out + i] = raw[q.out + i]
    BY <1>8, TidyEffect
  <2>2. NoJunkUnread'
    BY <2>1 DEF IInv, NoJunkUnread
  <2> QED BY <1>0, <1>8, <2>1, <2>2 DEF Tidy, IInv, TypeOK, EmptyWhenDead
<1>9. CASE Grow
  <2>1. /\ q' \in Buffer /\ raw' \in [1..q'.size -> Cell]
        /\ q'.in = q.in /\ q'.out = q.out
        /\ \A i \in 1..q.size : raw'[i] = raw[i]
    BY <1>9, GrowEffect
  <2>2. \A i \in 1..Used(q) : q.out + i \in 1..q.size
    BY <1>0 DEF Used, Buffer
  <2>3. NoJunkUnread'
    BY <2>1, <2>2 DEF IInv, NoJunkUnread, Used
  <2> QED BY <1>0, <1>9, <2>1, <2>3 DEF Grow, IInv, TypeOK, EmptyWhenDead
<1>10. CASE Pressure
  BY <1>0, <1>10 DEF Pressure, IInv, TypeOK, NoJunkUnread, EmptyWhenDead
<1>11. CASE UNCHANGED vars
  BY <1>11 DEF vars, IInv, TypeOK, NoJunkUnread, EmptyWhenDead
<1> QED BY <1>1, <1>2, <1>3, <1>4, <1>5, <1>6, <1>7, <1>8, <1>9, <1>10, <1>11
        DEF Next

LEMMA Invariance == Spec => []IInv
BY InitInv, NextInv, PTL DEF Spec

(* The offsets never leave the allocation, whatever is called on the       *)
(* buffer: every pointer qbuf.c forms is inside rawbuf.                    *)
THEOREM Typing == Spec => []TypeOK
<1>1. IInv => TypeOK
  BY DEF IInv
<1> QED BY <1>1, Invariance, PTL

(* A reader, or send(), is only ever given bytes that were written.        *)
THEOREM Clean == Spec => []NoJunkUnread
<1>1. IInv => NoJunkUnread
  BY DEF IInv
<1> QED BY <1>1, Invariance, PTL

(* Consuming before a collection always leaves room: the WBUF_RUNOUT       *)
(* branch of zsocket_handle_send is never taken.                           *)
THEOREM RoomInvariant == Spec => []RoomAfterConsume
<1>1. IInv => RoomAfterConsume
  BY ConsumeLeavesRoom DEF IInv, TypeOK, RoomAfterConsume
<1> QED BY <1>1, Invariance, PTL

-----------------------------------------------------------------------------
(* Refinement of ByteQueue: the unread bytes as the queue.                 *)

LEMMA BytesSeq ==
  ASSUME NEW mem, NEW at, NEW n \in Nat, \A i \in 1..n : mem[at + i] \in Byte
  PROVE  /\ Bytes(mem, at, n) \in Seq(Byte)
         /\ Len(Bytes(mem, at, n)) = n
         /\ \A i \in 1..n : Bytes(mem, at, n)[i] = mem[at + i]
<1>1. Bytes(mem, at, n) \in [1..n -> Byte]
  BY DEF Bytes
<1> QED BY <1>1 DEF Bytes

LEMMA ContentSeq ==
  ASSUME IInv
  PROVE  /\ Content \in Seq(Byte)
         /\ Len(Content) = Used(q)
         /\ Used(q) \in Nat
         /\ \A i \in 1..Used(q) : Content[i] = raw[q.out + i]
<1>1. Used(q) \in Nat /\ \A i \in 1..Used(q) : raw[q.out + i] \in Byte
  BY DEF IInv, TypeOK, NoJunkUnread, Used, Buffer
<1> QED BY <1>1, BytesSeq DEF Content

LEMMA ContentSeqNext ==
  ASSUME IInv'
  PROVE  /\ Content' \in Seq(Byte)
         /\ Len(Content') = Used(q')
         /\ Used(q') \in Nat
         /\ \A i \in 1..Used(q') : Content'[i] = raw'[q'.out + i]
<1>1. Used(q') \in Nat /\ \A i \in 1..Used(q') : raw'[q'.out + i] \in Byte
  BY DEF IInv, TypeOK, NoJunkUnread, Used, Buffer
<1>2. Content' = Bytes(raw', q'.out, Used(q'))
  BY DEF Content, Bytes
<1> QED BY <1>1, <1>2, BytesSeq

LEMMA AppendContent ==
  ASSUME IInv, IInv', NEW bytes \in Chunk, NEW k \in 0..Len(bytes),
         Used(q') = Used(q) + k,
         \A i \in 1..Used(q) : raw'[q'.out + i] = raw[q.out + i],
         \A i \in 1..k : raw'[q'.out + Used(q) + i] = bytes[i]
  PROVE  Content' = Content \o SubSeq(bytes, 1, k)
<1> DEFINE t == SubSeq(bytes, 1, k)
<1>1. /\ Content \in Seq(Byte) /\ Len(Content) = Used(q) /\ Used(q) \in Nat
      /\ \A i \in 1..Used(q) : Content[i] = raw[q.out + i]
  BY ContentSeq
<1>2. /\ Content' \in Seq(Byte) /\ Len(Content') = Used(q) + k
      /\ \A i \in 1..Used(q) + k : Content'[i] = raw'[q'.out + i]
  BY ContentSeqNext
<1>3. /\ t \in Seq(Byte) /\ Len(t) = k /\ k \in Nat
      /\ \A i \in 1..k : t[i] = bytes[i]
  <2>1. k \in Nat /\ \A i \in 1..k : bytes[i] \in Byte
    BY ChunkType
  <2> QED BY <2>1, SubSeqProperties
<1> HIDE DEF t
<1>4. /\ Content \o t \in Seq(Byte)
      /\ Len(Content \o t) = Used(q) + k
      /\ \A i \in 1..Used(q) : (Content \o t)[i] = Content[i]
      /\ \A i \in 1..Used(q) + k :
           i > Used(q) => (Content \o t)[i] = t[i - Used(q)]
  <2>1. /\ Content \o t \in Seq(Byte)
        /\ Len(Content \o t) = Len(Content) + Len(t)
        /\ \A i \in 1..Len(Content) + Len(t) :
             (Content \o t)[i] = IF i <= Len(Content) THEN Content[i]
                                 ELSE t[i - Len(Content)]
    BY <1>1, <1>3, ConcatProperties
  <2> QED BY <1>1, <1>3, <2>1
<1>5. ASSUME NEW i \in 1..Used(q) + k
      PROVE  Content'[i] = (Content \o t)[i]
  <2>1. CASE i <= Used(q)
    <3>1. i \in 1..Used(q)
      BY <2>1
    <3>2. Content'[i] = raw'[q'.out + i]
      BY <1>2
    <3>3. raw'[q'.out + i] = raw[q.out + i]
      BY <3>1
    <3>4. (Content \o t)[i] = raw[q.out + i]
      BY <1>1, <1>4, <3>1
    <3> QED BY <3>2, <3>3, <3>4
  <2>2. CASE ~(i <= Used(q))
    <3>1. i - Used(q) \in 1..k
      BY <1>1, <1>3, <2>2
    <3>2. raw'[q'.out + Used(q) + (i - Used(q))] = t[i - Used(q)]
      BY <1>3, <3>1
    <3>3. q'.out + Used(q) + (i - Used(q)) = q'.out + i
      BY <1>1, <3>1 DEF IInv, TypeOK, Buffer
    <3>4. (Content \o t)[i] = t[i - Used(q)]
      BY <1>1, <1>3, <1>4, <2>2
    <3>5. Content'[i] = raw'[q'.out + i]
      BY <1>2
    <3>6. raw'[q'.out + i] = t[i - Used(q)]
      BY <3>2, <3>3
    <3> QED BY <3>4, <3>5, <3>6
  <2> QED BY <2>1, <2>2
<1>6. Content' = Content \o t
  BY <1>2, <1>4, <1>5, SeqEqual
<1> QED BY <1>6 DEF t

LEMMA SameContent ==
  ASSUME IInv, IInv', Used(q') = Used(q),
         \A i \in 1..Used(q) : raw'[q'.out + i] = raw[q.out + i]
  PROVE  Content' = Content
BY ContentSeq, ContentSeqNext, SeqEqual

LEMMA FrontIsPrefix ==
  ASSUME IInv, NEW n \in Nat
  PROVE  /\ Readable(q, n) \in 0..Len(Content)
         /\ Front(n) = SubSeq(Content, 1, Readable(q, n))
<1> DEFINE m == Readable(q, n)
<1>1. /\ Content \in Seq(Byte) /\ Len(Content) = Used(q) /\ Used(q) \in Nat
      /\ \A i \in 1..Used(q) : Content[i] = raw[q.out + i]
  BY ContentSeq
<1>2. m \in 0..Used(q)
  BY <1>1 DEF Readable
<1> HIDE DEF m
<1>3. /\ SubSeq(Content, 1, m) \in Seq(Byte)
      /\ Len(SubSeq(Content, 1, m)) = m
      /\ \A i \in 1..m : SubSeq(Content, 1, m)[i] = raw[q.out + i]
  BY <1>1, <1>2
<1>4. /\ Bytes(raw, q.out, m) \in Seq(Byte)
      /\ Len(Bytes(raw, q.out, m)) = m
      /\ \A i \in 1..m : Bytes(raw, q.out, m)[i] = raw[q.out + i]
  <2>1. m \in Nat /\ \A i \in 1..m : raw[q.out + i] \in Byte
    BY <1>1, <1>2 DEF IInv, NoJunkUnread
  <2> QED BY <2>1, BytesSeq
<1>5. Bytes(raw, q.out, m) = SubSeq(Content, 1, m)
  BY <1>3, <1>4, SeqEqual
<1> QED BY <1>1, <1>2, <1>5 DEF Front, m

LEMMA AdvanceContent ==
  ASSUME IInv, IInv', NEW n \in Nat, q' = OffsetOutHead(q, n), raw' = raw
  PROVE  Content' = SubSeq(Content, Readable(q, n) + 1, Len(Content))
<1> DEFINE m == Readable(q, n)
           t == SubSeq(Content, m + 1, Len(Content))
<1>1. /\ Content \in Seq(Byte) /\ Len(Content) = Used(q) /\ Used(q) \in Nat
      /\ \A i \in 1..Used(q) : Content[i] = raw[q.out + i]
  BY ContentSeq
<1>2. /\ m \in 0..Used(q)
      /\ q'.out = q.out + m
      /\ Used(q') = Used(q) - m
  BY AdvanceEffect
<1>3. /\ Content' \in Seq(Byte) /\ Len(Content') = Used(q) - m
      /\ \A i \in 1..Used(q) - m : Content'[i] = raw[q.out + m + i]
  BY <1>2, ContentSeqNext
<1> HIDE DEF m
<1>4. /\ t \in Seq(Byte)
      /\ Len(t) = Used(q) - m
      /\ \A i \in 1..Used(q) - m : t[i] = Content[m + i]
  BY <1>1, <1>2
<1> HIDE DEF t
<1>5. ASSUME NEW i \in 1..Used(q) - m
      PROVE  Content'[i] = t[i]
  <2>1. m + i \in 1..Used(q)
    BY <1>1, <1>2
  <2>2. q.out + (m + i) = q.out + m + i
    BY <1>1, <1>2 DEF IInv, TypeOK, Buffer
  <2> QED BY <1>1, <1>3, <1>4, <2>1, <2>2
<1>6. Content' = t
  BY <1>3, <1>4, <1>5, SeqEqual
<1> QED BY <1>6 DEF t, m

LEMMA InitRefines == Init => BQ!Init
<1> SUFFICES ASSUME Init PROVE BQ!Init
  OBVIOUS
<1>1. Used(q) = 0
  BY QBufAssumption DEF Init, Used
<1>2. Content = <<>>
  <2>1. Content \in Seq(Byte) /\ Len(Content) = 0
    BY InitInv, ContentSeq, <1>1
  <2> QED BY <2>1
<1> QED BY <1>2 DEF Init, BQ!Init

LEMMA StepRefines == IInv /\ IInv' /\ [Next]_vars => [BQ!Next]_BQ!vars
<1> SUFFICES ASSUME IInv, IInv', [Next]_vars
             PROVE  [BQ!Next]_BQ!vars
  OBVIOUS
<1>0. q \in Buffer /\ Used(q) \in Nat /\ BQ!Chunk = Chunk
  BY DEF IInv, TypeOK, Used, Buffer, BQ!Chunk, Chunk
<1>1. ASSUME NEW n \in NewSizes, Create(n) PROVE [BQ!Next]_BQ!vars
  <2>1. PICK ok \in Allocates(New(n).size) :
          /\ alive' = ok
          /\ q' = IF ok THEN New(n) ELSE q
          /\ raw' = IF ok THEN [i \in 1..New(n).size |-> Junk] ELSE raw
    BY <1>1 DEF Create
  <2>2. ~alive /\ reply' = reply /\ starved' = starved
    BY <1>1 DEF Create
  <2>3. CASE ok
    <3>1. ~starved
      BY <2>1, <2>3 DEF Allocates
    <3>2. Used(q') = 0
      BY <2>1, <2>3 DEF New, Used
    <3>3. Content' = Content
      BY <2>2, <3>2, SameContent DEF IInv, EmptyWhenDead
    <3>4. BQ!Create
      BY <2>1, <2>2, <2>3, <3>1, <3>3 DEF BQ!Create
    <3> QED BY <3>4 DEF BQ!Next
  <2>4. CASE ~ok
    <3>1. ok = FALSE
      BY <2>1, <2>4 DEF Allocates
    <3>2. Content' = Content
      BY <2>1, <3>1, SameContent
    <3>3. alive' = alive
      BY <2>1, <2>2, <3>1 DEF IInv, TypeOK
    <3> QED BY <2>2, <3>2, <3>3 DEF BQ!vars
  <2> QED BY <2>3, <2>4
<1>2. CASE Destroy
  <2>1. Used(q') = 0
    BY <1>2 DEF Destroy, Used
  <2>2. Content' = <<>>
    <3>1. Content' \in Seq(Byte) /\ Len(Content') = 0
      BY <2>1, ContentSeqNext
    <3> QED BY <3>1
  <2>3. BQ!Destroy
    BY <1>2, <2>2 DEF Destroy, BQ!Destroy
  <2> QED BY <2>3 DEF BQ!Next
<1>3. ASSUME NEW bytes \in Chunk, Write(bytes) PROVE BQ!Next
  <2>1. PICK k \in 0..Len(bytes) :
          /\ k = Len(bytes) \/ starved
          /\ reply' = SubSeq(bytes, 1, k)
          /\ Used(q') = Used(q) + k
          /\ \A i \in 1..Used(q) : raw'[q'.out + i] = raw[q.out + i]
          /\ \A i \in 1..k : raw'[q'.out + Used(q) + i] = bytes[i]
    BY <1>3, WriteEffect
  <2>2. Content' = Content \o SubSeq(bytes, 1, k)
    BY <2>1, AppendContent
  <2>3. BQ!Put(bytes)
    BY <1>3, <2>1, <2>2 DEF BQ!Put, Write
  <2> QED BY <1>0, <2>3 DEF BQ!Next
<1>4. ASSUME NEW bytes \in Chunk, Receive(bytes) PROVE BQ!Next
  <2> DEFINE k == Len(bytes)
  <2>1. k \in 0..Len(bytes)
    BY ChunkType
  <2>2. /\ reply' = SubSeq(bytes, 1, k)
        /\ Used(q') = Used(q) + k
        /\ \A i \in 1..Used(q) : raw'[q'.out + i] = raw[q.out + i]
        /\ \A i \in 1..k : raw'[q'.out + Used(q) + i] = bytes[i]
    BY <1>4, ReceiveEffect
  <2>3. Content' = Content \o SubSeq(bytes, 1, k)
    BY <2>1, <2>2, AppendContent
  <2>4. BQ!Put(bytes)
    BY <1>4, <2>1, <2>2, <2>3 DEF BQ!Put, Receive
  <2> QED BY <1>0, <2>4 DEF BQ!Next
<1>5. ASSUME NEW n \in 0..MaxChunk, Peek(n) PROVE BQ!Next
  <2>1. /\ Readable(q, n) \in 0..Len(Content)
        /\ Front(n) = SubSeq(Content, 1, Readable(q, n))
    BY FrontIsPrefix, QBufMachineAssumption
  <2>2. Content' = Content
    BY <1>5, SameContent DEF Peek
  <2>3. BQ!Look(Readable(q, n))
    BY <1>5, <2>1, <2>2 DEF Peek, BQ!Look
  <2> QED BY <2>1, <2>3 DEF BQ!Next
<1>6. ASSUME NEW n \in 0..MaxChunk, Read(n) PROVE BQ!Next
  <2>1. /\ Readable(q, n) \in 0..Len(Content)
        /\ Front(n) = SubSeq(Content, 1, Readable(q, n))
    BY FrontIsPrefix, QBufMachineAssumption
  <2>2. Readable(q, n) \in Nat /\ Readable(q, Readable(q, n)) = Readable(q, n)
    BY <1>0, ReadableTwice, QBufMachineAssumption DEF Readable
  <2>3. Content' = SubSeq(Content, Readable(q, n) + 1, Len(Content))
    <3>1. q' = OffsetOutHead(q, Readable(q, n)) /\ raw' = raw
      BY <1>6 DEF Read
    <3> QED BY <2>2, <3>1, AdvanceContent
  <2>4. BQ!Take(Readable(q, n))
    BY <1>6, <2>1, <2>3 DEF Read, BQ!Take
  <2> QED BY <2>1, <2>4 DEF BQ!Next
<1>7. ASSUME NEW n \in 0..MaxChunk, Consume(n) PROVE BQ!Next
  <2>1. n \in Nat /\ Readable(q, n) \in 0..Len(Content)
    BY FrontIsPrefix, QBufMachineAssumption
  <2>2. Content' = SubSeq(Content, Readable(q, n) + 1, Len(Content))
    BY <1>7, <2>1, AdvanceContent DEF Consume
  <2>3. BQ!Drop(Readable(q, n))
    BY <1>7, <2>2 DEF Consume, BQ!Drop
  <2> QED BY <2>1, <2>3 DEF BQ!Next
<1>8. ASSUME NEW policy \in SUBSET Policy, Tidy(policy) PROVE UNCHANGED BQ!vars
  <2>1. Content' = Content
    BY <1>8, TidyEffect, SameContent
  <2> QED BY <1>8, <2>1 DEF Tidy, BQ!vars
<1>9. CASE Grow
  <2>1. /\ q'.in = q.in /\ q'.out = q.out
        /\ \A i \in 1..q.size : raw'[i] = raw[i]
    BY <1>9, GrowEffect
  <2>2. \A i \in 1..Used(q) : q.out + i \in 1..q.size
    BY <1>0 DEF Used, Buffer
  <2>3. Content' = Content
    BY <2>1, <2>2, SameContent DEF Used
  <2>4. UNCHANGED BQ!vars
    BY <1>9, <2>3 DEF Grow, BQ!vars
  <2> QED BY <2>4
<1>10. CASE Pressure
  <2>1. Content' = Content
    BY <1>10, SameContent DEF Pressure
  <2>2. BQ!Pressure
    BY <1>10, <2>1 DEF Pressure, BQ!Pressure
  <2> QED BY <2>2 DEF BQ!Next
<1>11. CASE UNCHANGED vars
  <2>1. Content' = Content
    BY <1>11, SameContent DEF vars
  <2> QED BY <1>11, <2>1 DEF vars, BQ!vars
<1> QED BY <1>1, <1>2, <1>3, <1>4, <1>5, <1>6, <1>7, <1>8, <1>9, <1>10, <1>11
        DEF Next

(* Every behaviour of the buffer, collections and reallocations and memory *)
(* failures included, is a behaviour of the byte queue.                    *)
THEOREM Refinement == Spec => ImplementsByteQueue
<1>1. Init => BQ!Init
  BY InitRefines
<1>2. IInv /\ IInv' /\ [Next]_vars => [BQ!Next]_BQ!vars
  BY StepRefines
<1> QED BY <1>1, <1>2, Invariance, PTL DEF Spec, ImplementsByteQueue, BQ!Spec

=============================================================================
