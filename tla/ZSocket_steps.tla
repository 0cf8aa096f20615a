------------------------- MODULE ZSocket_steps ------------------------------
(***************************************************************************)
(* The event loop of zsocket.c, for any number of sockets, descriptors,    *)
(* ports and buffer sizes, whatever goes wrong: what each step does.       *)
(*                                                                         *)
(*   The pieces: the operations on the list and on the sets of descriptors,*)
(*   and each way in which a step changes a socket, all of which keep the  *)
(*   invariant DataInv of the data.                                        *)
(*   The steps: with ControlInv on the cursors of the loops and RoomInv on *)
(*   the read buffers it makes IInv, which every call of the interface and *)
(*   every point of zsocket_poll and zsocket_do_close keep (EveryStep).    *)
(*   The kinds of steps: what the invariants of ZSocket_proofs need to know*)
(*   of a step is whether it opens, closes or releases a socket, and where *)
(*   the loops go on; every step is of one of eleven kinds (Kinds).        *)
(***************************************************************************)
EXTENDS ZSocket, QBuf_lemmas, SequenceTheorems, FiniteSetTheorems, TLAPS

-----------------------------------------------------------------------------
(* The list.                                                               *)

LEMMA FirstListed ==
  ASSUME NEW list \in Seq(Sock)
  PROVE  First(list) \in ToSet(list) \cup {NoSock}
<1>1. CASE list = <<>>
  BY <1>1 DEF First
<1>2. CASE list # <<>>
  <2>1. Len(list) \in Nat /\ Len(list) > 0 /\ DOMAIN list = 1..Len(list) /\ Head(list) = list[1]
    BY <1>2
  <2>2. 1 \in DOMAIN list
    BY <2>1
  <2> QED BY <1>2, <2>1, <2>2 DEF First, ToSet
<1> QED BY <1>1, <1>2

(* Index finds a listed socket at its place.                               *)
LEMMA IndexListed ==
  ASSUME NEW s \in Listed
  PROVE  Index(s) \in DOMAIN socks /\ socks[Index(s)] = s
BY DEF Listed, ToSet, Index

(* The socket after a listed one is another listed one, or none: the loops *)
(* over the list of zsocket_poll and zsocket_do_close never come back to   *)
(* the socket they are at.                                                 *)
LEMMA AfterListed ==
  ASSUME socks \in Seq(Sock), IsInjective(socks), NEW s \in Listed
  PROVE  After(s) \in (Listed \ {s}) \cup {NoSock}
<1> DEFINE i == Index(s)
<1>1. i \in DOMAIN socks /\ socks[i] = s
  BY IndexListed
<1>2. DOMAIN socks = 1..Len(socks) /\ Len(socks) \in Nat
  OBVIOUS
<1>3. CASE i = Len(socks)
  BY <1>3 DEF After
<1>4. CASE i # Len(socks)
  <2>1. i + 1 \in DOMAIN socks /\ i + 1 # i
    BY <1>1, <1>2, <1>4
  <2>2. socks[i + 1] # s
    BY <1>1, <2>1 DEF IsInjective
  <2>3. After(s) = socks[i + 1]
    BY <1>4 DEF After
  <2> QED BY <2>1, <2>2, <2>3 DEF Listed, ToSet
<1> QED BY <1>3, <1>4

(* list_add                                                                *)
LEMMA AddEffect ==
  ASSUME NEW list \in Seq(Sock), IsInjective(list), NEW s \in Sock, s \notin ToSet(list)
  PROVE  /\ <<s>> \o list \in Seq(Sock)
         /\ IsInjective(<<s>> \o list)
         /\ ToSet(<<s>> \o list) = ToSet(list) \cup {s}
<1> DEFINE new == <<s>> \o list
<1>1. <<s>> \in Seq(Sock) /\ Len(<<s>>) = 1 /\ <<s>>[1] = s
  OBVIOUS
<1>2. /\ new \in Seq(Sock) /\ Len(new) = Len(list) + 1
      /\ new[1] = s
      /\ \A i \in 1..Len(list) : new[i + 1] = list[i]
  BY <1>1, ConcatProperties
<1>3. Len(list) \in Nat /\ DOMAIN list = 1..Len(list) /\ DOMAIN new = 1..(Len(list) + 1)
  BY <1>2
<1>4. \A i \in DOMAIN new : i = 1 \/ (i - 1 \in DOMAIN list /\ new[i] = list[i - 1])
  <2> TAKE i \in DOMAIN new
  <2>1. CASE i # 1
    <3>1. i - 1 \in 1..Len(list) /\ (i - 1) + 1 = i
      BY <1>3, <2>1
    <3> QED BY <1>2, <1>3, <3>1
  <2> QED BY <2>1
<1>5. \A i \in DOMAIN list : i + 1 \in DOMAIN new /\ new[i + 1] = list[i]
  BY <1>2, <1>3
<1>6. 1 \in DOMAIN new
  BY <1>3
<1> HIDE DEF new
<1>7. \A i \in DOMAIN list : list[i] # s
  BY DEF ToSet
<1>8. IsInjective(new)
  <2> SUFFICES ASSUME NEW i \in DOMAIN new, NEW j \in DOMAIN new, new[i] = new[j]
               PROVE  i = j
    BY DEF IsInjective
  <2>1. CASE i = 1 /\ j # 1
    BY <1>2, <1>4, <1>7, <2>1
  <2>2. CASE i # 1 /\ j = 1
    BY <1>2, <1>4, <1>7, <2>2
  <2>3. CASE i # 1 /\ j # 1
    <3>1. list[i - 1] = list[j - 1] /\ i - 1 \in DOMAIN list /\ j - 1 \in DOMAIN list
      BY <1>4, <2>3
    <3>2. i - 1 = j - 1
      BY <3>1 DEF IsInjective
    <3> QED BY <1>3, <3>2
  <2> QED BY <2>1, <2>2, <2>3
<1>9. ToSet(new) = ToSet(list) \cup {s}
  <2>1. \A i \in DOMAIN new : new[i] \in ToSet(list) \cup {s}
    BY <1>2, <1>4 DEF ToSet
  <2>2. \A i \in DOMAIN list : list[i] \in ToSet(new)
    BY <1>5 DEF ToSet
  <2>3. s \in ToSet(new)
    BY <1>2, <1>6 DEF ToSet
  <2> QED BY <2>1, <2>2, <2>3 DEF ToSet
<1> QED BY <1>2, <1>8, <1>9 DEF new

(* list_del                                                                *)
LEMMA WithoutEffect ==
  ASSUME socks \in Seq(Sock), IsInjective(socks), NEW s \in Listed
  PROVE  /\ Without(s) \in Seq(Sock)
         /\ IsInjective(Without(s))
         /\ ToSet(Without(s)) = Listed \ {s}
<1> DEFINE i == Index(s)
           n == Len(socks)
           new == Without(s)
<1>1. /\ i \in 1..n /\ socks[i] = s /\ n \in Nat /\ DOMAIN socks = 1..n
  BY IndexListed
<1>2. new = SubSeq(socks, 1, i - 1) \o SubSeq(socks, i + 1, n)
  BY DEF Without, RemoveAt
<1>3. /\ SubSeq(socks, 1, i - 1) \in Seq(Sock)
      /\ Len(SubSeq(socks, 1, i - 1)) = i - 1
      /\ \A j \in 1..(i - 1) : SubSeq(socks, 1, i - 1)[j] = socks[j]
  <2>1. \A j \in 1..(i - 1) : socks[j] \in Sock
    BY <1>1
  <2>2. i - 1 \in Nat
    BY <1>1
  <2>3. CASE 1 <= i - 1
    <3>1. \A j \in 1..(i - 1) : j \in 1..n
      BY <1>1
    <3> QED BY <1>1, <2>1, <2>2, <2>3, <3>1, SubSeqProperties
  <2>4. CASE ~(1 <= i - 1)
    BY <1>1, <2>2, <2>4, SubSeqProperties
  <2> QED BY <2>3, <2>4
<1>4. /\ SubSeq(socks, i + 1, n) \in Seq(Sock)
      /\ Len(SubSeq(socks, i + 1, n)) = n - i
      /\ \A j \in 1..(n - i) : SubSeq(socks, i + 1, n)[j] = socks[i + j]
  <2>1. \A j \in (i + 1)..n : socks[j] \in Sock
    BY <1>1
  <2>2. /\ SubSeq(socks, i + 1, n) \in Seq(Sock)
        /\ Len(SubSeq(socks, i + 1, n)) = IF i + 1 <= n THEN n - (i + 1) + 1 ELSE 0
        /\ \A j \in 1..(n - (i + 1) + 1) : SubSeq(socks, i + 1, n)[j] = socks[(i + 1) + j - 1]
    BY <1>1, <2>1, SubSeqProperties
  <2> QED BY <1>1, <2>2
<1>5. /\ new \in Seq(Sock) /\ DOMAIN new = 1..(n - 1)
      /\ \A j \in 1..(i - 1) : new[j] = socks[j]
      /\ \A j \in i..(n - 1) : new[j] = socks[j + 1]
  <2> DEFINE front == SubSeq(socks, 1, i - 1)
             back == SubSeq(socks, i + 1, n)
  <2>1. front \in Seq(Sock) /\ Len(front) = i - 1 /\ back \in Seq(Sock) /\ Len(back) = n - i
    BY <1>3, <1>4
  <2>2. /\ new \in Seq(Sock) /\ Len(new) = Len(front) + Len(back)
        /\ \A j \in 1..Len(front) : new[j] = front[j]
        /\ \A j \in 1..Len(back) : new[Len(front) + j] = back[j]
    <3>1. new = front \o back
      BY <1>2
    <3> HIDE DEF front, back, new, i, n
    <3>2. /\ new \in Seq(Sock) /\ Len(new) = Len(front) + Len(back)
          /\ \A j \in 1..(Len(front) + Len(back)) :
               new[j] = IF j <= Len(front) THEN front[j] ELSE back[j - Len(front)]
      BY <2>1, <3>1, ConcatProperties
    <3>3. Len(front) \in Nat /\ Len(back) \in Nat
      BY <2>1, LenProperties
    <3>4. \A j \in 1..Len(front) : new[j] = front[j]
      BY <3>2, <3>3
    <3>5. \A j \in 1..Len(back) : new[Len(front) + j] = back[j]
      <4> TAKE j \in 1..Len(back)
      <4>1. /\ Len(front) + j \in 1..(Len(front) + Len(back))
            /\ ~(Len(front) + j <= Len(front)) /\ (Len(front) + j) - Len(front) = j
        BY <3>3
      <4> QED BY <3>2, <4>1
    <3> QED BY <3>2, <3>4, <3>5
  <2>3. \A j \in i..(n - 1) : j - i + 1 \in 1..(n - i) /\ (i - 1) + (j - i + 1) = j
                               /\ i + (j - i + 1) = j + 1
    BY <1>1
  <2>4. \A j \in i..(n - 1) : new[j] = back[j - i + 1]
    <3> HIDE DEF front, back, new
    <3> TAKE j \in i..(n - 1)
    <3>1. new[Len(front) + (j - i + 1)] = back[j - i + 1]
      BY <2>1, <2>2, <2>3
    <3> QED BY <2>1, <2>3, <3>1
  <2>5. \A j \in i..(n - 1) : new[j] = socks[j + 1]
    <3> TAKE j \in i..(n - 1)
    <3>1. back[j - i + 1] = socks[i + (j - i + 1)]
      BY <1>4, <2>3
    <3> QED BY <2>3, <2>4, <3>1
  <2> QED BY <1>1, <1>3, <2>1, <2>2, <2>5
<1> HIDE DEF new
<1> DEFINE old(j) == IF j < i THEN j ELSE j + 1
<1>6. \A j \in DOMAIN new : old(j) \in (1..n) \ {i} /\ new[j] = socks[old(j)]
  BY <1>1, <1>5
<1>7. \A j, k \in DOMAIN new : old(j) = old(k) => j = k
  BY <1>1, <1>5
<1>8. \A k \in (1..n) \ {i} : \E j \in DOMAIN new : old(j) = k
  <2> TAKE k \in (1..n) \ {i}
  <2>1. CASE k < i
    BY <1>1, <1>5, <2>1
  <2>2. CASE k > i
    <3>1. k - 1 \in DOMAIN new /\ old(k - 1) = k
      BY <1>1, <1>5, <2>2
    <3> QED BY <3>1
  <2> QED BY <1>1, <2>1, <2>2
<1> HIDE DEF old, i, n
<1>9. IsInjective(new)
  BY <1>1, <1>6, <1>7 DEF IsInjective
<1>10. ToSet(new) = Listed \ {s}
  <2>1. \A j \in DOMAIN new : new[j] \in Listed \ {s}
    BY <1>1, <1>6 DEF Listed, ToSet, IsInjective
  <2>2. \A k \in (1..n) \ {i} : socks[k] \in ToSet(new)
    BY <1>6, <1>8 DEF ToSet
  <2>3. \A x \in Listed \ {s} : \E k \in (1..n) \ {i} : socks[k] = x
    BY <1>1 DEF Listed, ToSet
  <2> QED BY <2>1, <2>2, <2>3 DEF ToSet
<1> QED BY <1>5, <1>9, <1>10 DEF new

-----------------------------------------------------------------------------
(* The data invariant: it speaks of the sockets, the list and the watched  *)
(* descriptors, and holds at every point of the loop.                      *)

OpenSet == {s \in Sock : IsOpen(s)}

(* A socket that has not been opened is as zsocket_init leaves it.         *)
NoneIsFresh == \A s \in Sock : sk[s].type = "none" => sk[s] = Fresh

(* The invariant of the data: the types, a list without repetition whose   *)
(* connections are allocated, the watched descriptors, the bounds of       *)
(* select(), the buffers, and untouched sockets.                           *)
DataInv ==
  /\ sk \in [Sock -> Socket]
  /\ heap \subseteq Heap
  /\ socks \in Seq(Sock) /\ IsInjective(socks)
  /\ watch \in Watch
  /\ Listed \cap Heap \subseteq heap
  /\ WatchedAreUsable /\ NfdsCovers /\ BuffersOwned /\ NoneIsFresh

(* What zsocket_init leaves has its type.                                  *)
LEMMA FreshType == Fresh \in Socket
BY DEF Fresh, Socket, Type, BufferOrNone

(* A socket is its eight fields.                                           *)
LEMMA SocketType ==
  ASSUME NEW r
  PROVE  r \in Socket <=>
           /\ r = [fd |-> r.fd, type |-> r.type, state |-> r.state, tick |-> r.tick,
                   port |-> r.port, rbuf |-> r.rbuf, wbuf |-> r.wbuf, close_cb |-> r.close_cb]
           /\ r.fd \in Fd \cup {NoFd} /\ r.type \in Type /\ r.state \subseteq Flag
           /\ r.tick \in {"zero", "fresh", "expired"} /\ r.port \in Port \cup {NoPort, Assigned}
           /\ r.rbuf \in BufferOrNone /\ r.wbuf \in BufferOrNone /\ r.close_cb \in BOOLEAN
BY DEF Socket

(* An open socket has a descriptor and a type.                             *)
LEMMA OpenFd ==
  ASSUME DataInv, NEW s \in Sock, IsOpen(s)
  PROVE  sk[s] \in Socket /\ sk[s].fd \in Fd /\ sk[s].fd \in Nat /\ sk[s].type # "none"
<1>1. sk[s] \in Socket
  BY DEF DataInv
<1>2. sk[s].fd \in Fd
  BY <1>1, SocketType DEF IsOpen
<1>3. sk[s].type # "none"
  BY DEF DataInv, NoneIsFresh, IsOpen, Fresh
<1> QED BY <1>1, <1>2, <1>3, ZSocketAssumption

(* NoBuf is no buffer.                                                     *)
LEMMA NoBufType == NoBuf \notin Buffer
BY DEF NoBuf, Buffer

-----------------------------------------------------------------------------
(* The watched descriptors: each change keeps nfds above them.             *)

Covers(w) == /\ \A f \in w.read : f < w.nread
             /\ \A f \in w.write : f < w.nwrite

(* The raised bound is above the old descriptors and the new one.          *)
LEMMA RaisedBound ==
  ASSUME NEW n \in Nat, NEW f \in Nat, NEW S \in SUBSET Nat, \A e \in S : e < n
  PROVE  Raised(n, f) \in Nat /\ \A e \in S \cup {f} : e < Raised(n, f)
BY DEF Raised

(* The two fields of one of the sets change together.                      *)
LEMMA ReadFields ==
  ASSUME NEW w \in Watch, NEW x, NEW y
  PROVE  [w EXCEPT !.read = x, !.nread = y]
           = [read |-> x, nread |-> y, write |-> w.write, nwrite |-> w.nwrite]
<1> DEFINE v == [w EXCEPT !.read = x]
<1>1. w = [read |-> w.read, nread |-> w.nread, write |-> w.write, nwrite |-> w.nwrite]
  BY DEF Watch
<1>2. v = [read |-> x, nread |-> w.nread, write |-> w.write, nwrite |-> w.nwrite]
  BY <1>1
<1>3. [v EXCEPT !.nread = y]
        = [read |-> x, nread |-> y, write |-> w.write, nwrite |-> w.nwrite]
  <2> HIDE DEF v
  <2> QED BY <1>2
<1> QED BY <1>3

(* The same of the set watched for writing.                                *)
LEMMA WriteFields ==
  ASSUME NEW w \in Watch, NEW x, NEW y
  PROVE  [w EXCEPT !.write = x, !.nwrite = y]
           = [read |-> w.read, nread |-> w.nread, write |-> x, nwrite |-> y]
<1> DEFINE v == [w EXCEPT !.write = x]
<1>1. w = [read |-> w.read, nread |-> w.nread, write |-> w.write, nwrite |-> w.nwrite]
  BY DEF Watch
<1>2. v = [read |-> w.read, nread |-> w.nread, write |-> x, nwrite |-> w.nwrite]
  BY <1>1
<1>3. [v EXCEPT !.nwrite = y]
        = [read |-> w.read, nread |-> w.nread, write |-> x, nwrite |-> y]
  <2> HIDE DEF v
  <2> QED BY <1>2
<1> QED BY <1>3

(* zsocket_read_start adds one descriptor to the read set and keeps the    *)
(* bound above it.                                                         *)
LEMMA WatchReadEffect ==
  ASSUME watch \in Watch, NfdsCovers, NEW f \in Fd
  PROVE  /\ WatchRead(f) \in Watch /\ Covers(WatchRead(f))
         /\ WatchRead(f).read = watch.read \cup {f} /\ WatchRead(f).write = watch.write
<1>1. /\ watch = [read |-> watch.read, nread |-> watch.nread,
                  write |-> watch.write, nwrite |-> watch.nwrite]
      /\ watch.read \subseteq Fd /\ watch.write \subseteq Fd
      /\ watch.nread \in Nat /\ watch.nwrite \in Nat
  BY DEF Watch
<1>2. f \in Nat /\ Fd \subseteq Nat
  BY ZSocketAssumption
<1>3. WatchRead(f) = [read |-> watch.read \cup {f}, nread |-> Raised(watch.nread, f),
                      write |-> watch.write, nwrite |-> watch.nwrite]
  BY ReadFields DEF WatchRead
<1>4. /\ Raised(watch.nread, f) \in Nat
      /\ \A e \in watch.read \cup {f} : e < Raised(watch.nread, f)
  BY <1>1, <1>2, RaisedBound DEF NfdsCovers
<1> QED BY <1>1, <1>3, <1>4 DEF Watch, Covers, NfdsCovers

(* The first zsocket_write does so for the write set.                      *)
LEMMA WatchWriteEffect ==
  ASSUME watch \in Watch, NfdsCovers, NEW f \in Fd
  PROVE  /\ WatchWrite(f) \in Watch /\ Covers(WatchWrite(f))
         /\ WatchWrite(f).write = watch.write \cup {f} /\ WatchWrite(f).read = watch.read
<1>1. /\ watch = [read |-> watch.read, nread |-> watch.nread,
                  write |-> watch.write, nwrite |-> watch.nwrite]
      /\ watch.read \subseteq Fd /\ watch.write \subseteq Fd
      /\ watch.nread \in Nat /\ watch.nwrite \in Nat
  BY DEF Watch
<1>2. f \in Nat /\ Fd \subseteq Nat
  BY ZSocketAssumption
<1>3. WatchWrite(f) = [read |-> watch.read, nread |-> watch.nread,
                       write |-> watch.write \cup {f}, nwrite |-> Raised(watch.nwrite, f)]
  BY WriteFields DEF WatchWrite
<1>4. /\ Raised(watch.nwrite, f) \in Nat
      /\ \A e \in watch.write \cup {f} : e < Raised(watch.nwrite, f)
  BY <1>1, <1>2, RaisedBound DEF NfdsCovers
<1> QED BY <1>1, <1>3, <1>4 DEF Watch, Covers, NfdsCovers

(* The bound is lowered when the descriptor just below it goes.            *)
LEMMA LoweredBound ==
  ASSUME NEW n \in Nat, NEW f \in Nat, NEW S \in SUBSET Nat, \A e \in S : e < n
  PROVE  Lowered(n, f) \in Nat /\ \A e \in S \ {f} : e < Lowered(n, f)
BY DEF Lowered

(* zsocket_read_stop takes one descriptor out of the read set; lowering    *)
(* the bound by one keeps it above the rest.                               *)
LEMMA UnwatchReadEffect ==
  ASSUME watch \in Watch, NfdsCovers, NEW f \in Fd
  PROVE  /\ UnwatchRead(f) \in Watch /\ Covers(UnwatchRead(f))
         /\ UnwatchRead(f).read = watch.read \ {f} /\ UnwatchRead(f).write = watch.write
<1>1. /\ watch = [read |-> watch.read, nread |-> watch.nread,
                  write |-> watch.write, nwrite |-> watch.nwrite]
      /\ watch.read \subseteq Fd /\ watch.write \subseteq Fd
      /\ watch.nread \in Nat /\ watch.nwrite \in Nat
  BY DEF Watch
<1>2. f \in Nat /\ Fd \subseteq Nat
  BY ZSocketAssumption
<1>3. UnwatchRead(f) = [read |-> watch.read \ {f}, nread |-> Lowered(watch.nread, f),
                        write |-> watch.write, nwrite |-> watch.nwrite]
  BY ReadFields DEF UnwatchRead
<1>4. Lowered(watch.nread, f) \in Nat
      /\ \A e \in watch.read \ {f} : e < Lowered(watch.nread, f)
  BY <1>1, <1>2, LoweredBound DEF NfdsCovers
<1> QED BY <1>1, <1>3, <1>4 DEF Watch, Covers, NfdsCovers

(* zsocket_close takes the descriptor out of both sets.                    *)
LEMMA UnwatchEffect ==
  ASSUME watch \in Watch, NfdsCovers, NEW f \in Fd
  PROVE  /\ Unwatch(f) \in Watch /\ Covers(Unwatch(f))
         /\ Unwatch(f).read = watch.read \ {f} /\ Unwatch(f).write = watch.write \ {f}
<1>1. /\ watch.read \subseteq Fd /\ watch.write \subseteq Fd
      /\ watch.nread \in Nat /\ watch.nwrite \in Nat
  BY DEF Watch
<1>2. f \in Nat /\ Fd \subseteq Nat
  BY ZSocketAssumption
<1>3. /\ Lowered(watch.nread, f) \in Nat
      /\ \A e \in watch.read \ {f} : e < Lowered(watch.nread, f)
  BY <1>1, <1>2, LoweredBound DEF NfdsCovers
<1>4. /\ Lowered(watch.nwrite, f) \in Nat
      /\ \A e \in watch.write \ {f} : e < Lowered(watch.nwrite, f)
  BY <1>1, <1>2, LoweredBound DEF NfdsCovers
<1> QED BY <1>1, <1>3, <1>4 DEF Unwatch, Watch, Covers

-----------------------------------------------------------------------------
(* The ways in which a step changes the data.                              *)

Watched == watch.read \cup watch.write

(* What a step that opens and closes no descriptor leaves as it was, and   *)
(* the flag that it never takes back.                                      *)
SameOpen == OpenSet' = OpenSet /\ Listed' = Listed /\ \A s \in Sock : Eof(s) => Eof(s)'

(* A step that moves nothing keeps the data invariant.                     *)
LEMMA DataSame ==
  ASSUME DataInv, UNCHANGED <<sk, heap, socks, watch>>
  PROVE  DataInv' /\ SameOpen
BY DEF DataInv, OpenSet, SameOpen, Listed, IsOpen, Eof, NoneIsFresh, WatchedAreUsable,
       NfdsCovers, BuffersOwned

(* One open socket gets new fields; it keeps its descriptor and its type.  *)
LEMMA DataUpdate ==
  ASSUME DataInv, NEW s \in Sock, IsOpen(s),
         NEW r \in Socket, sk' = [sk EXCEPT ![s] = r],
         r.fd = sk[s].fd, r.type = sk[s].type, Eof(s) => "EOF" \in r.state,
         "WRITE_ENABLE" \in r.state => r.wbuf # NoBuf,
         heap' = heap, socks' = socks,
         watch' \in Watch, Covers(watch'),
         \A f \in Watched' \ {r.fd} : f \in Watched,
         "EOF" \in r.state => r.fd \notin Watched'
  PROVE  DataInv' /\ SameOpen
<1>1. /\ sk' \in [Sock -> Socket] /\ sk'[s] = r
      /\ \A t \in Sock \ {s} : sk'[t] = sk[t]
  BY DEF DataInv
<1>2. /\ r.fd \in Fd /\ r.fd # NoFd /\ r.type # "none"
      /\ \A t \in Sock : sk'[t].fd = sk[t].fd
  BY <1>1, OpenFd DEF IsOpen
<1>3. SameOpen
  BY <1>1, <1>2 DEF SameOpen, OpenSet, IsOpen, Listed, Eof
<1>4. WatchedAreUsable'
  <2>1. \A t, u \in Sock : IsOpen(t)' /\ sk'[t].fd = sk'[u].fd => t = u
    BY <1>2 DEF DataInv, WatchedAreUsable, IsOpen
  <2>2. ASSUME NEW f \in Watched'
        PROVE  \E t \in Sock : sk'[t].fd = f /\ ~Eof(t)'
    <3>1. CASE f = r.fd
      BY <1>1, <2>2, <3>1 DEF Eof
    <3>2. CASE f # r.fd
      <4>1. f \in Watched
        BY <2>2, <3>2
      <4>2. PICK t \in Sock : sk[t].fd = f /\ ~Eof(t)
        BY <4>1 DEF DataInv, WatchedAreUsable, Watched
      <4>3. t # s
        BY <3>2, <4>2
      <4> QED BY <1>1, <4>2, <4>3 DEF Eof
    <3> QED BY <3>1, <3>2
  <2> QED BY <2>1, <2>2 DEF WatchedAreUsable, Watched
<1>5. BuffersOwned'
  <2> SUFFICES ASSUME NEW t \in Sock
               PROVE  /\ "WRITE_ENABLE" \in sk'[t].state /\ IsOpen(t)' => sk'[t].wbuf # NoBuf
                      /\ ~IsOpen(t)' => sk'[t].rbuf = NoBuf /\ sk'[t].wbuf = NoBuf
    BY DEF BuffersOwned
  <2>1. CASE t = s
    BY <1>1, <1>2, <2>1 DEF IsOpen
  <2>2. CASE t # s
    BY <1>1, <2>2 DEF DataInv, BuffersOwned, IsOpen
  <2> QED BY <2>1, <2>2
<1>6. NoneIsFresh'
  <2> SUFFICES ASSUME NEW t \in Sock, sk'[t].type = "none"
               PROVE  sk'[t] = Fresh
    BY DEF NoneIsFresh
  <2>1. t # s
    BY <1>1, <1>2
  <2> QED BY <1>1, <2>1 DEF DataInv, NoneIsFresh
<1>7. NfdsCovers'
  BY DEF NfdsCovers, Covers
<1> QED BY <1>1, <1>3, <1>4, <1>5, <1>6, <1>7 DEF DataInv, Listed

(* zsocket_close                                                           *)
LEMMA DataClose ==
  ASSUME DataInv, NEW s \in Sock, IsOpen(s),
         NEW r \in Socket, r.fd = sk[s].fd, r.type = sk[s].type,
         "WRITE_ENABLE" \in r.state => r.wbuf # NoBuf,
         NEW cb \in BOOLEAN, MarkEof(s, r, cb), heap' = heap, socks' = socks
  PROVE  DataInv' /\ SameOpen /\ Eof(s)'
<1> DEFINE q == [r EXCEPT !.state = @ \cup {"EOF"}, !.close_cb = cb]
<1>1. q = [fd |-> r.fd, type |-> r.type, state |-> r.state \cup {"EOF"}, tick |-> r.tick,
           port |-> r.port, rbuf |-> r.rbuf, wbuf |-> r.wbuf, close_cb |-> cb]
  <2> DEFINE p == [r EXCEPT !.state = @ \cup {"EOF"}]
  <2>1. p = [fd |-> r.fd, type |-> r.type, state |-> r.state \cup {"EOF"}, tick |-> r.tick,
             port |-> r.port, rbuf |-> r.rbuf, wbuf |-> r.wbuf, close_cb |-> r.close_cb]
    BY SocketType
  <2>2. q = [p EXCEPT !.close_cb = cb]
    OBVIOUS
  <2> HIDE DEF p, q
  <2> QED BY <2>1, <2>2
<1>2. sk' = [sk EXCEPT ![s] = q] /\ watch' = Unwatch(r.fd)
  BY DEF MarkEof
<1> HIDE DEF q
<1>3. q \in Socket
  BY <1>1, SocketType DEF Flag
<1>4. r.fd \in Fd
  BY OpenFd
<1>5. /\ watch' \in Watch /\ Covers(watch')
      /\ watch'.read = watch.read \ {r.fd} /\ watch'.write = watch.write \ {r.fd}
  BY <1>2, <1>4, UnwatchEffect DEF DataInv
<1>6. /\ q.fd = sk[s].fd /\ q.type = sk[s].type /\ "EOF" \in q.state
      /\ "WRITE_ENABLE" \in q.state => q.wbuf # NoBuf
  BY <1>1
<1>7. /\ \A f \in Watched' \ {q.fd} : f \in Watched
      /\ q.fd \notin Watched'
  BY <1>5, <1>6 DEF Watched
<1>8. DataInv' /\ SameOpen
  BY <1>2, <1>3, <1>5, <1>6, <1>7, DataUpdate
<1>9. sk'[s] = q
  BY <1>2 DEF DataInv
<1> QED BY <1>6, <1>8, <1>9 DEF Eof

(* zsocket_connect, zsocket_listen and zsocket_accept; the descriptor is   *)
(* one that no socket has.                                                 *)
LEMMA DataOpen ==
  ASSUME DataInv, NEW s \in Sock, s \notin Listed, NEW f \in Fd,
         NEW t \in Type \ {"none"}, NEW clock \in {"zero", "fresh", "expired"},
         NEW p \in Port \cup {NoPort, Assigned}, NEW flags \in SUBSET (Flag \ {"EOF", "WRITE_ENABLE"}),
         Open(s, f, t, clock, p, flags),
         heap \subseteq heap', heap' \subseteq Heap, s \in User \cup heap',
         watch' \in Watch, Covers(watch'), Watched' \subseteq Watched \cup {f}
  PROVE  /\ DataInv' /\ OpenSet' = OpenSet \cup {s} /\ Listed' = Listed \cup {s}
         /\ s \notin OpenSet /\ \A u \in Sock : Eof(u) => Eof(u)'
         /\ sk'[s].rbuf = NoBuf /\ \A u \in Sock \ {s} : sk'[u] = sk[u]
<1> DEFINE r == [Fresh EXCEPT !.fd = f, !.type = t, !.tick = clock, !.port = p, !.state = flags]
<1>1. /\ r = [fd |-> f, type |-> t, state |-> flags, tick |-> clock, port |-> p,
            rbuf |-> Fresh.rbuf, wbuf |-> Fresh.wbuf, close_cb |-> Fresh.close_cb]
      /\ Fresh.rbuf = NoBuf /\ Fresh.wbuf = NoBuf /\ Fresh.close_cb \in BOOLEAN
  <2> DEFINE r1 == [Fresh EXCEPT !.fd = f]
             r2 == [r1 EXCEPT !.type = t]
             r3 == [r2 EXCEPT !.tick = clock]
             r4 == [r3 EXCEPT !.port = p]
  <2>1. r1 = [fd |-> f, type |-> Fresh.type, state |-> Fresh.state, tick |-> Fresh.tick, port |-> Fresh.port,
             rbuf |-> Fresh.rbuf, wbuf |-> Fresh.wbuf, close_cb |-> Fresh.close_cb]
    BY FreshType, SocketType
  <2>2. r2 = [fd |-> f, type |-> t, state |-> Fresh.state, tick |-> Fresh.tick, port |-> Fresh.port,
             rbuf |-> Fresh.rbuf, wbuf |-> Fresh.wbuf, close_cb |-> Fresh.close_cb]
    <3> HIDE DEF r1
    <3> QED BY <2>1
  <2>3. r3 = [fd |-> f, type |-> t, state |-> Fresh.state, tick |-> clock, port |-> Fresh.port,
             rbuf |-> Fresh.rbuf, wbuf |-> Fresh.wbuf, close_cb |-> Fresh.close_cb]
    <3> HIDE DEF r2
    <3> QED BY <2>2
  <2>4. r4 = [fd |-> f, type |-> t, state |-> Fresh.state, tick |-> clock, port |-> p,
             rbuf |-> Fresh.rbuf, wbuf |-> Fresh.wbuf, close_cb |-> Fresh.close_cb]
    <3> HIDE DEF r3
    <3> QED BY <2>3
  <2>5. r = [r4 EXCEPT !.state = flags]
    OBVIOUS
  <2>6. Fresh.rbuf = NoBuf /\ Fresh.wbuf = NoBuf /\ Fresh.close_cb \in BOOLEAN
    BY DEF Fresh
  <2> HIDE DEF r, r4
  <2> QED BY <2>4, <2>5, <2>6
<1>2. /\ sk[s].type = "none" /\ f \notin OpenFds
      /\ sk' = [sk EXCEPT ![s] = r] /\ socks' = <<s>> \o socks
  BY DEF Open, FreeFds
<1> HIDE DEF r
<1>3. r \in Socket
  BY <1>1, SocketType DEF BufferOrNone
<1>4. /\ sk' \in [Sock -> Socket] /\ sk'[s] = r
      /\ \A u \in Sock \ {s} : sk'[u] = sk[u]
  BY <1>2, <1>3 DEF DataInv
<1>5. sk[s] = Fresh /\ sk[s].fd = NoFd /\ ~Eof(s)
  BY <1>2 DEF DataInv, NoneIsFresh, Fresh, Eof
<1>6. r.fd = f /\ f # NoFd
  BY <1>1, ZSocketAssumption DEF NoFd
<1>7. OpenSet' = OpenSet \cup {s} /\ s \notin OpenSet
  BY <1>4, <1>5, <1>6 DEF OpenSet, IsOpen
<1>8. /\ socks' \in Seq(Sock) /\ IsInjective(socks') /\ Listed' = Listed \cup {s}
  BY <1>2, AddEffect DEF DataInv, Listed
<1>9. Listed' \cap Heap \subseteq heap'
  BY <1>8, ZSocketAssumption DEF DataInv
<1>10. WatchedAreUsable'
  <2>1. \A u \in Sock : IsOpen(u) => sk[u].fd # f
    BY <1>2 DEF OpenFds
  <2>2. \A u, v \in Sock : IsOpen(u)' /\ sk'[u].fd = sk'[v].fd => u = v
    BY <1>4, <1>5, <1>6, <2>1 DEF DataInv, WatchedAreUsable, IsOpen
  <2>3. ASSUME NEW e \in Watched'
        PROVE  \E u \in Sock : sk'[u].fd = e /\ ~Eof(u)'
    <3>1. CASE e = f
      <4>1. "EOF" \notin sk'[s].state
        BY <1>1, <1>4
      <4> QED BY <1>4, <1>6, <3>1, <4>1 DEF Eof
    <3>2. CASE e # f
      <4>1. PICK u \in Sock : sk[u].fd = e /\ ~Eof(u)
        BY <2>3, <3>2 DEF DataInv, WatchedAreUsable, Watched
      <4>2. e \in Fd
        BY <2>3 DEF Watched, Watch
      <4>3. u # s
        BY <1>5, <4>1, <4>2, ZSocketAssumption DEF NoFd
      <4> QED BY <1>4, <4>1, <4>3 DEF Eof
    <3> QED BY <3>1, <3>2
  <2> QED BY <2>2, <2>3 DEF WatchedAreUsable, Watched
<1>11. BuffersOwned'
  <2> SUFFICES ASSUME NEW u \in Sock
               PROVE  /\ "WRITE_ENABLE" \in sk'[u].state /\ IsOpen(u)' => sk'[u].wbuf # NoBuf
                      /\ ~IsOpen(u)' => sk'[u].rbuf = NoBuf /\ sk'[u].wbuf = NoBuf
    BY DEF BuffersOwned
  <2>1. CASE u = s
    BY <1>1, <1>4, <1>6, <2>1 DEF IsOpen
  <2>2. CASE u # s
    BY <1>4, <2>2 DEF DataInv, BuffersOwned, IsOpen
  <2> QED BY <2>1, <2>2
<1>12. NoneIsFresh'
  <2> SUFFICES ASSUME NEW u \in Sock, sk'[u].type = "none"
               PROVE  sk'[u] = Fresh
    BY DEF NoneIsFresh
  <2>1. u # s
    BY <1>1, <1>4
  <2> QED BY <1>4, <2>1 DEF DataInv, NoneIsFresh
<1>13. NfdsCovers'
  BY DEF NfdsCovers, Covers
<1>14. /\ sk'[s].rbuf = NoBuf
       /\ \A u \in Sock : Eof(u) => Eof(u)'
  BY <1>1, <1>4, <1>5 DEF Eof
<1> QED BY <1>4, <1>7, <1>8, <1>9, <1>10, <1>11, <1>12, <1>13, <1>14 DEF DataInv

(* A socket off the list is released or initialised anew: it has no        *)
(* descriptor afterwards, and no watched one before.                       *)
LEMMA DataReset ==
  ASSUME DataInv, NEW s \in Sock, s \notin Listed, IsOpen(s) => Eof(s),
         NEW r \in {Fresh, Released(sk[s])}, sk[s].type # "none",
         sk' = [sk EXCEPT ![s] = r],
         heap' \subseteq heap, heap \subseteq heap' \cup {s}, socks' = socks, watch' = watch
  PROVE  /\ DataInv' /\ OpenSet' = OpenSet \ {s} /\ Listed' = Listed
         /\ \A u \in Sock : Eof(u) => Eof(u)' \/ sk'[u] = Fresh
         /\ sk'[s].rbuf = NoBuf /\ \A u \in Sock \ {s} : sk'[u] = sk[u]
<1>0. sk[s] \in Socket
  BY DEF DataInv
<1>1. /\ r \in Socket /\ r.fd = NoFd /\ r.rbuf = NoBuf /\ r.wbuf = NoBuf
      /\ "EOF" \in r.state \/ r = Fresh
      /\ r.type = "none" => r = Fresh
  <2>1. CASE r = Fresh
    BY <2>1, FreshType DEF Fresh
  <2>2. CASE r = Released(sk[s])
    <3> DEFINE t == sk[s].type
               r1 == [Fresh EXCEPT !.type = t]
    <3>1. r1 = [fd |-> Fresh.fd, type |-> t, state |-> Fresh.state, tick |-> Fresh.tick, port |-> Fresh.port,
                rbuf |-> Fresh.rbuf, wbuf |-> Fresh.wbuf, close_cb |-> Fresh.close_cb]
      BY FreshType, SocketType
    <3>2. r = [r1 EXCEPT !.state = {"EOF"}]
      BY <2>2 DEF Released
    <3>3. r = [fd |-> Fresh.fd, type |-> t, state |-> {"EOF"}, tick |-> Fresh.tick, port |-> Fresh.port,
               rbuf |-> Fresh.rbuf, wbuf |-> Fresh.wbuf, close_cb |-> Fresh.close_cb]
      <4> HIDE DEF r1
      <4> QED BY <3>1, <3>2
    <3>4. t \in Type /\ t # "none"
      BY <1>0, SocketType
    <3>5. r \in Socket
      <4> HIDE DEF t
      <4> QED BY <3>3, <3>4, FreshType, SocketType DEF Flag
    <3>6. /\ r.fd = Fresh.fd /\ r.rbuf = Fresh.rbuf /\ r.wbuf = Fresh.wbuf
          /\ "EOF" \in r.state /\ r.type = t
      BY <3>3
    <3>7. Fresh.fd = NoFd /\ Fresh.rbuf = NoBuf /\ Fresh.wbuf = NoBuf
      BY DEF Fresh
    <3> QED BY <3>4, <3>5, <3>6, <3>7
  <2> QED BY <2>1, <2>2
<1>2. /\ sk' \in [Sock -> Socket] /\ sk'[s] = r
      /\ \A u \in Sock \ {s} : sk'[u] = sk[u]
  BY <1>1 DEF DataInv
<1>3. OpenSet' = OpenSet \ {s} /\ Listed' = Listed
  BY <1>1, <1>2 DEF OpenSet, IsOpen, Listed
<1>4. WatchedAreUsable'
  <2>1. \A u, v \in Sock : IsOpen(u)' /\ sk'[u].fd = sk'[v].fd => u = v
    BY <1>1, <1>2 DEF DataInv, WatchedAreUsable, IsOpen
  <2>2. ASSUME NEW e \in Watched
        PROVE  \E u \in Sock : sk'[u].fd = e /\ ~Eof(u)'
    <3>1. PICK u \in Sock : sk[u].fd = e /\ ~Eof(u)
      BY <2>2 DEF DataInv, WatchedAreUsable, Watched
    <3>2. e # NoFd
      BY <2>2, ZSocketAssumption DEF DataInv, Watched, Watch, NoFd
    <3>3. u # s
      BY <3>1, <3>2 DEF IsOpen
    <3> QED BY <1>2, <3>1, <3>3 DEF Eof
  <2>3. Watched' = Watched
    BY DEF Watched
  <2> QED BY <2>1, <2>2, <2>3 DEF WatchedAreUsable, Watched
<1>5. BuffersOwned'
  BY <1>1, <1>2 DEF DataInv, BuffersOwned, IsOpen
<1>6. NoneIsFresh'
  BY <1>1, <1>2 DEF DataInv, NoneIsFresh
<1>7. Listed' \cap Heap \subseteq heap' /\ heap' \subseteq Heap
  BY <1>3 DEF DataInv
<1>8. \A u \in Sock : Eof(u) => Eof(u)' \/ sk'[u] = Fresh
  BY <1>1, <1>2 DEF Eof
<1>9. NfdsCovers'
  BY DEF DataInv, NfdsCovers
<1> QED BY <1>1, <1>2, <1>3, <1>4, <1>5, <1>6, <1>7, <1>8, <1>9 DEF DataInv

(* A socket is taken off the list.                                         *)
LEMMA DataDelete ==
  ASSUME DataInv, NEW s \in Listed, socks' = Without(s), UNCHANGED <<sk, heap, watch>>
  PROVE  /\ DataInv' /\ OpenSet' = OpenSet /\ Listed' = Listed \ {s}
         /\ \A u \in Sock : Eof(u) => Eof(u)'
<1>1. socks' \in Seq(Sock) /\ IsInjective(socks') /\ Listed' = Listed \ {s}
  BY WithoutEffect DEF DataInv, Listed
<1>2. /\ OpenSet' = OpenSet /\ \A u \in Sock : Eof(u) => Eof(u)'
      /\ WatchedAreUsable' /\ NfdsCovers' /\ BuffersOwned' /\ NoneIsFresh'
  BY DEF DataInv, OpenSet, IsOpen, Eof, WatchedAreUsable, NfdsCovers, BuffersOwned, NoneIsFresh
<1> QED BY <1>1, <1>2 DEF DataInv

(* Time passes for open sockets.                                           *)
LEMMA DataTick ==
  ASSUME DataInv, NEW late, late \subseteq OpenSet,
         sk' = [s \in Sock |-> IF s \in late THEN [sk[s] EXCEPT !.tick = "expired"] ELSE sk[s]],
         UNCHANGED <<heap, socks, watch>>
  PROVE  /\ DataInv' /\ SameOpen /\ \A s \in Sock : sk'[s].rbuf = sk[s].rbuf
<1>1. ASSUME NEW s \in Sock
      PROVE  /\ sk'[s] \in Socket
             /\ sk'[s].fd = sk[s].fd /\ sk'[s].type = sk[s].type
             /\ sk'[s].rbuf = sk[s].rbuf /\ sk'[s].wbuf = sk[s].wbuf
             /\ s \in late => sk[s].type # "none"
  <2>1. sk[s] \in Socket
    BY DEF DataInv
  <2>2. CASE s \in late
    <3>1. sk'[s] = [fd |-> sk[s].fd, type |-> sk[s].type, state |-> sk[s].state,
                    tick |-> "expired", port |-> sk[s].port, rbuf |-> sk[s].rbuf,
                    wbuf |-> sk[s].wbuf, close_cb |-> sk[s].close_cb]
      BY <2>1, <2>2, SocketType
    <3>2. sk[s].type # "none"
      BY <2>2, OpenFd DEF OpenSet
    <3> QED BY <2>1, <3>1, <3>2, SocketType
  <2>3. CASE s \notin late
    BY <2>1, <2>3
  <2> QED BY <2>2, <2>3
<1>2. ASSUME NEW s \in Sock
      PROVE  sk'[s].state = sk[s].state
  <2>1. CASE s \in late
    <3>1. sk[s] \in Socket
      BY DEF DataInv
    <3> QED BY <2>1, <3>1, SocketType
  <2> QED BY <2>1
<1>3. sk' \in [Sock -> Socket]
  BY <1>1
<1>4. NoneIsFresh'
  BY <1>1 DEF DataInv, NoneIsFresh
<1>5. SameOpen
  BY <1>1, <1>2 DEF SameOpen, OpenSet, IsOpen, Listed, Eof
<1>6. WatchedAreUsable' /\ BuffersOwned' /\ NfdsCovers'
  BY <1>1, <1>2 DEF DataInv, WatchedAreUsable, BuffersOwned, NfdsCovers, IsOpen, Eof
<1> QED BY <1>1, <1>3, <1>4, <1>5, <1>6 DEF DataInv, Listed

-----------------------------------------------------------------------------
(* One field of a socket changes.                                          *)

LEMMA NewState ==
  ASSUME NEW r \in Socket, NEW x \in SUBSET Flag
  PROVE  LET q == [r EXCEPT !.state = x]
         IN  /\ q \in Socket /\ q.state = x /\ q.fd = r.fd /\ q.type = r.type
             /\ q.rbuf = r.rbuf /\ q.wbuf = r.wbuf
             /\ q.tick = r.tick /\ q.port = r.port
<1>1. [r EXCEPT !.state = x]
        = [fd |-> r.fd, type |-> r.type, state |-> x, tick |-> r.tick, port |-> r.port,
           rbuf |-> r.rbuf, wbuf |-> r.wbuf, close_cb |-> r.close_cb]
  BY SocketType
<1> QED BY <1>1, SocketType

(* The same of the tick.                                                   *)
LEMMA NewTick ==
  ASSUME NEW r \in Socket, NEW x \in {"zero", "fresh", "expired"}
  PROVE  LET q == [r EXCEPT !.tick = x]
         IN  /\ q \in Socket /\ q.state = r.state /\ q.fd = r.fd /\ q.type = r.type
             /\ q.rbuf = r.rbuf /\ q.wbuf = r.wbuf
             /\ q.tick = x /\ q.port = r.port
<1>1. [r EXCEPT !.tick = x]
        = [fd |-> r.fd, type |-> r.type, state |-> r.state, tick |-> x, port |-> r.port,
           rbuf |-> r.rbuf, wbuf |-> r.wbuf, close_cb |-> r.close_cb]
  BY SocketType
<1> QED BY <1>1, SocketType

(* The same of the read buffer.                                            *)
LEMMA NewRbuf ==
  ASSUME NEW r \in Socket, NEW x \in BufferOrNone
  PROVE  LET q == [r EXCEPT !.rbuf = x]
         IN  /\ q \in Socket /\ q.state = r.state /\ q.fd = r.fd /\ q.type = r.type
             /\ q.rbuf = x /\ q.wbuf = r.wbuf
             /\ q.tick = r.tick /\ q.port = r.port
<1>1. [r EXCEPT !.rbuf = x]
        = [fd |-> r.fd, type |-> r.type, state |-> r.state, tick |-> r.tick, port |-> r.port,
           rbuf |-> x, wbuf |-> r.wbuf, close_cb |-> r.close_cb]
  BY SocketType
<1> QED BY <1>1, SocketType

(* The same of the write buffer.                                           *)
LEMMA NewWbuf ==
  ASSUME NEW r \in Socket, NEW x \in BufferOrNone
  PROVE  LET q == [r EXCEPT !.wbuf = x]
         IN  /\ q \in Socket /\ q.state = r.state /\ q.fd = r.fd /\ q.type = r.type
             /\ q.rbuf = r.rbuf /\ q.wbuf = x
             /\ q.tick = r.tick /\ q.port = r.port
<1>1. [r EXCEPT !.wbuf = x]
        = [fd |-> r.fd, type |-> r.type, state |-> r.state, tick |-> r.tick, port |-> r.port,
           rbuf |-> r.rbuf, wbuf |-> x, close_cb |-> r.close_cb]
  BY SocketType
<1> QED BY <1>1, SocketType

(* A socket whose state is masked to one flag.                             *)
LEMMA MaskedSocket ==
  ASSUME DataInv, NEW s \in Sock, NEW flag \in Flag \ {"WRITE_ENABLE"}
  PROVE  LET r == Masked(s, flag)
         IN  /\ r \in Socket /\ r.fd = sk[s].fd /\ r.type = sk[s].type
             /\ "WRITE_ENABLE" \notin r.state
             /\ r.rbuf = sk[s].rbuf /\ r.wbuf = sk[s].wbuf
             /\ r.tick = sk[s].tick /\ r.port = sk[s].port
<1>1. sk[s] \in Socket /\ sk[s].state \cap {flag} \in SUBSET Flag
  BY SocketType DEF DataInv
<1>2. Masked(s, flag) = [sk[s] EXCEPT !.state = sk[s].state \cap {flag}]
  BY DEF Masked
<1> QED BY <1>1, <1>2, NewState

(* What reading and writing make of the buffers.                           *)
LEMMA EnqueuedType ==
  ASSUME NEW b \in Buffer, NEW n \in Nat, NEW c \in Enqueued(b, n)
  PROVE  c \in Buffer
<1>1. PICK ok \in BOOLEAN : c = Written(b, n, ok)
  BY DEF Enqueued, Grows
<1>2. OffsetInHead(Roomy(b, n, ok), Writable(b, n, ok)) \in Buffer
  BY RoomyType, OffsetInType
<1> QED BY <1>1, <1>2 DEF Written

(* What is left of the read buffer after the callback is a buffer, and one *)
(* that had to be doubled has room.                                        *)
LEMMA AfterReadType ==
  ASSUME NEW b \in BufferOrNone, NEW n \in Nat
  PROVE  /\ AfterRead(b, n) \in BufferOrNone
         /\ Realloc(AfterRead(b, n), AfterRead(b, n).size * 2, TRUE) \in BufferOrNone
         /\ Spare(AfterRead(b, n)) = 0
              => \/ Realloc(AfterRead(b, n), AfterRead(b, n).size * 2, TRUE) = NoBuf
                 \/ Spare(Realloc(AfterRead(b, n), AfterRead(b, n).size * 2, TRUE)) > 0
<1>1. CASE b \in Buffer
  <2> DEFINE c == AfterRead(b, n)
             d == Realloc(c, c.size * 2, TRUE)
  <2>1. c \in Buffer
    BY <1>1, OffsetOutType, CollectType DEF AfterRead
  <2> HIDE DEF c
  <2>2. c.size \in Nat \ {0} /\ c.size * 2 \in Nat /\ c.size * 2 >= c.size /\ c.in \in Nat
    BY <2>1 DEF Buffer
  <2>3. d \in Buffer /\ d.in = c.in
    BY <2>1, <2>2, ReallocType
  <2>4. d.size = c.size * 2
    BY <2>1, <2>2 DEF Realloc, Buffer
  <2>5. Spare(c) = 0 => Spare(d) > 0
    <3> HIDE DEF d
    <3> QED BY <2>2, <2>3, <2>4 DEF Spare
  <2> QED BY <2>1, <2>3, <2>5 DEF BufferOrNone, c
<1>2. CASE b = NoBuf
  <2>1. AfterRead(b, n) = NoBuf
    <3>1. Used(b) = 0
      BY <1>2 DEF Used, NoBuf
    <3>2. Readable(b, n) = 0
      BY <3>1 DEF Readable
    <3> QED BY <1>2, <3>2 DEF AfterRead
  <2>2. NoBuf = [size |-> NoBuf.size, in |-> NoBuf.in, out |-> NoBuf.out] /\ NoBuf.size = 0
    BY DEF NoBuf
  <2>3. Realloc(NoBuf, NoBuf.size * 2, TRUE) = [size |-> NoBuf.size * 2, in |-> NoBuf.in,
                                               out |-> NoBuf.out]
    BY <2>2 DEF Realloc
  <2>4. NoBuf.size * 2 = NoBuf.size
    BY DEF NoBuf
  <2>5. Realloc(NoBuf, NoBuf.size * 2, TRUE) = NoBuf
    BY <2>2, <2>3, <2>4
  <2> QED BY <2>1, <2>5 DEF BufferOrNone
<1> QED BY <1>1, <1>2 DEF BufferOrNone

(* Counting a socket in or out keeps the counters.                         *)
LEMMA StatusType ==
  ASSUME status \in [Counter -> Int], NEW t \in Type \ {"none"}
  PROVE  Counted(t) \in [Counter -> Int] /\ Uncounted(t) \in [Counter -> Int]
BY DEF Counted, Uncounted, Counter, Type

-----------------------------------------------------------------------------

(* The points at which zsocket_loop has set in_looping.                    *)
Looping == {"recv", "conn_cb", "read_cb", "send", "next", "sweep"}

(* The invariant of the control: where the cursors of the list loops may   *)
(* be at each point of the program.                                        *)
ControlInv ==
  /\ status \in [Counter -> Int] /\ in_looping \in BOOLEAN
  /\ sel \in Selected /\ notified \subseteq Sock
  /\ pc \in Place /\ {cursor, nxt, peer} \subseteq Sock \cup {NoSock}
  /\ pc # "halt" => Listed = OpenSet \ Releasing
  /\ TraversalSafe
  /\ pc \in {"reap", "cascade", "release"} => cursor \in OpenSet /\ Eof(cursor)
  /\ pc \in Looping => in_looping

(* A read buffer is full only while read_cb has not yet returned.          *)
RoomInv ==
  pc # "halt" =>
    \A s \in Sock : ~Eof(s) /\ sk[s].rbuf # NoBuf /\ ~(pc = "read_cb" /\ s = cursor)
                      => Spare(sk[s].rbuf) > 0

(* The inductive invariant.                                                *)
IInv == DataInv /\ ControlInv /\ RoomInv

(* What EofIsFinal says of a step.                                         *)
EofKept == \A s \in Sock : Eof(s) => Eof(s)' \/ sk'[s] = Fresh

-----------------------------------------------------------------------------
(* How a step changes the point of the program.                            *)

(* It stays where it is.                                                   *)
LEMMA Stays ==
  ASSUME IInv, SameOpen, UNCHANGED <<pc, cursor, nxt, peer>>,
         in_looping' \in BOOLEAN, in_looping => in_looping',
         status' \in [Counter -> Int], sel' \in Selected, notified' \subseteq Sock
  PROVE  ControlInv'
<1>1. Releasing' = Releasing
  BY DEF Releasing
<1>2. pc' # "halt" => Listed' = OpenSet' \ Releasing'
  BY <1>1 DEF IInv, ControlInv, SameOpen
<1>3. TraversalSafe'
  BY DEF IInv, ControlInv, SameOpen, TraversalSafe
<1>4. pc' \in {"reap", "cascade", "release"} => cursor' \in OpenSet' /\ Eof(cursor)'
  <2> SUFFICES ASSUME pc \in {"reap", "cascade", "release"}
               PROVE  cursor \in OpenSet' /\ Eof(cursor)'
    BY DEF Eof
  <2>1. cursor \in OpenSet /\ Eof(cursor)
    BY DEF IInv, ControlInv
  <2>2. cursor \in Sock
    BY <2>1 DEF OpenSet
  <2> QED BY <2>1, <2>2 DEF SameOpen
<1>5. pc' \in Looping => in_looping'
  BY DEF IInv, ControlInv
<1>6. pc' \in Place /\ {cursor', nxt', peer'} \subseteq Sock \cup {NoSock}
  BY DEF IInv, ControlInv
<1> QED BY <1>2, <1>3, <1>4, <1>5, <1>6 DEF ControlInv

(* It moves on, to a point that is not inside __zsocket_close.             *)
LEMMA Moves ==
  ASSUME IInv, SameOpen, pc \notin {"halt", "cascade", "release"},
         pc' \in Place \ {"halt", "cascade", "release"},
         pc' \in {"conn_cb", "read_cb", "send", "next"} => cursor' \in Listed,
         pc' \in {"recv", "sweep"} => cursor' \in Listed \cup {NoSock},
         pc' = "reap" => cursor' \in Listed /\ Eof(cursor)',
         {cursor', nxt', peer'} \subseteq Sock \cup {NoSock},
         in_looping' \in BOOLEAN, pc' \in Looping => in_looping',
         status' \in [Counter -> Int], sel' \in Selected, notified' \subseteq Sock
  PROVE  ControlInv'
<1>1. Releasing = {} /\ Releasing' = {}
  BY DEF Releasing
<1>2. Listed = OpenSet /\ Listed' = OpenSet' /\ OpenSet' = OpenSet
  BY <1>1 DEF IInv, ControlInv, SameOpen
<1>3. TraversalSafe'
  BY <1>2 DEF SameOpen, TraversalSafe
<1>4. pc' \in {"reap", "cascade", "release"} => cursor' \in OpenSet' /\ Eof(cursor)'
  BY <1>2
<1>5. pc' # "halt" => Listed' = OpenSet' \ Releasing'
  BY <1>1, <1>2
<1>6. pc' \in Place
  OBVIOUS
<1> QED BY <1>3, <1>4, <1>5, <1>6 DEF ControlInv

(* An assertion fails.                                                     *)
LEMMA Halts ==
  ASSUME IInv, NEW line, Abort(line)
  PROVE  IInv' /\ EofKept
<1>1. DataInv' /\ SameOpen
  BY DataSame DEF IInv, Abort
<1>2. ControlInv'
  BY <1>1 DEF IInv, ControlInv, Abort, TraversalSafe, Place, Looping
<1>3. RoomInv'
  BY DEF RoomInv, Abort
<1> QED BY <1>1, <1>2, <1>3 DEF IInv, EofKept, SameOpen

(* The read buffers stay as they are or are deleted.                       *)
LEMMA RoomKept ==
  ASSUME IInv, pc # "halt",
         \A s \in Sock : (Eof(s) => Eof(s)') \/ sk'[s].rbuf = NoBuf,
         \A s \in Sock : sk'[s].rbuf \in {sk[s].rbuf, NoBuf},
         pc = "read_cb" => pc' = "read_cb" /\ cursor' = cursor
  PROVE  RoomInv'
BY DEF IInv, RoomInv

(* A step of the loop that changes no data.                                *)
LEMMA DataStep ==
  ASSUME IInv, UNCHANGED data
  PROVE  /\ DataInv' /\ SameOpen /\ EofKept
         /\ status' \in [Counter -> Int] /\ in_looping' \in BOOLEAN /\ notified' \subseteq Sock
         /\ in_looping' = in_looping
         /\ pc \notin {"halt", "read_cb"} => RoomInv'
<1>1. UNCHANGED <<sk, heap, socks, watch, status, in_looping, notified>>
  BY DEF data
<1>2. DataInv' /\ SameOpen
  BY <1>1, DataSame DEF IInv
<1>3. pc \notin {"halt", "read_cb"} => RoomInv'
  <2>1. \A s \in Sock : Eof(s) => Eof(s)'
    BY <1>2 DEF SameOpen
  <2> QED BY <1>1, <2>1, RoomKept
<1> QED BY <1>1, <1>2, <1>3 DEF IInv, ControlInv, EofKept, SameOpen

(* Where the application runs, the list holds the open sockets.            *)
LEMMA AppSees ==
  ASSUME IInv, InApp
  PROVE  Listed = OpenSet /\ Releasing = {} /\ pc \in Place /\ pc # "halt"
BY DEF IInv, ControlInv, InApp, Releasing

(* What the application may rely on of a socket it passes to the           *)
(* interface.                                                              *)
LEMMA UsableSocket ==
  ASSUME IInv, InApp, NEW s \in Sock, Usable(s)
  PROVE  /\ s \in Listed /\ IsOpen(s) /\ ~Eof(s)
         /\ sk[s] \in Socket /\ sk[s].fd \in Fd /\ sk[s].state \subseteq Flag
         /\ sk[s].rbuf \in BufferOrNone /\ sk[s].wbuf \in BufferOrNone
         /\ sk[s].type \in Type \ {"none"}
         /\ "WRITE_ENABLE" \in sk[s].state => sk[s].wbuf # NoBuf
<1>1. IsOpen(s) /\ ~Eof(s)
  BY DEF Usable
<1>2. s \in Listed
  BY <1>1, AppSees DEF OpenSet
<1>3. sk[s] \in Socket /\ sk[s].fd \in Fd /\ sk[s].type # "none"
  BY <1>1, OpenFd DEF IInv
<1> QED BY <1>1, <1>2, <1>3, SocketType DEF IInv, DataInv, BuffersOwned

(* A call that changes one usable socket, without closing it, and what is  *)
(* watched of it.                                                          *)
LEMMA CallUpdates ==
  ASSUME IInv, InApp, NEW s \in Sock, Usable(s),
         NEW r \in Socket, sk' = [sk EXCEPT ![s] = r],
         r.fd = sk[s].fd, r.type = sk[s].type, "EOF" \notin r.state, r.rbuf = sk[s].rbuf,
         "WRITE_ENABLE" \in r.state => r.wbuf # NoBuf,
         watch' \in Watch, Covers(watch'), Watched' \subseteq Watched \cup {sk[s].fd},
         UNCHANGED <<control, heap, socks, status, notified>>
  PROVE  IInv' /\ EofKept
<1>1. UNCHANGED <<in_looping, pc, cursor, nxt, peer, sel, fault>>
  BY DEF control
<1>2. DataInv' /\ SameOpen
  <2>1. IsOpen(s) /\ ~Eof(s)
    BY UsableSocket
  <2>2. \A f \in Watched' \ {r.fd} : f \in Watched
    OBVIOUS
  <2> QED BY <2>1, <2>2, DataUpdate DEF IInv
<1>3. ControlInv'
  BY <1>1, <1>2, Stays DEF IInv, ControlInv
<1>4. RoomInv'
  <2>1. \A t \in Sock : sk'[t].rbuf = sk[t].rbuf
    BY DEF IInv, DataInv
  <2>2. \A t \in Sock : Eof(t) => Eof(t)'
    BY <1>2 DEF SameOpen
  <2> QED BY <1>1, <2>1, <2>2, AppSees, RoomKept
<1> QED BY <1>2, <1>3, <1>4 DEF IInv, EofKept, SameOpen

(* A call that opens a socket.                                             *)
LEMMA CallOpens ==
  ASSUME IInv, InApp, NEW s \in Sock, NEW f \in Fd,
         NEW t \in Type \ {"none"}, NEW clock \in {"zero", "fresh", "expired"},
         NEW p \in Port \cup {NoPort, Assigned}, NEW flags \in SUBSET {"READ_ENABLE"},
         Open(s, f, t, clock, p, flags),
         heap \subseteq heap', heap' \subseteq Heap, s \in User \cup heap',
         watch' \in Watch, Covers(watch'), Watched' \subseteq Watched \cup {f}
  PROVE  IInv' /\ EofKept
<1>1. UNCHANGED <<in_looping, pc, cursor, nxt, peer, sel, fault, notified>>
  BY DEF Open, control
<1>2. s \notin Listed
  <2>1. sk[s].type = "none"
    BY DEF Open
  <2>2. ~IsOpen(s)
    BY <2>1, OpenFd DEF IInv
  <2> QED BY <2>2, AppSees DEF OpenSet
<1>3. flags \in SUBSET (Flag \ {"EOF", "WRITE_ENABLE"})
  BY DEF Flag
<1>4. /\ DataInv' /\ OpenSet' = OpenSet \cup {s} /\ Listed' = Listed \cup {s}
      /\ s \notin OpenSet /\ \A u \in Sock : Eof(u) => Eof(u)'
      /\ sk'[s].rbuf = NoBuf /\ \A u \in Sock \ {s} : sk'[u] = sk[u]
  BY <1>2, <1>3, DataOpen DEF IInv
<1>5. ControlInv'
  <2>1. Listed = OpenSet /\ Releasing = {} /\ Releasing' = {} /\ pc' = pc
        /\ pc \in {"app", "conn_cb", "read_cb"}
    BY <1>1, AppSees DEF InApp, Releasing
  <2>2. TraversalSafe'
    BY <1>1, <1>4, <2>1 DEF IInv, ControlInv, TraversalSafe
  <2>3. status' \in [Counter -> Int]
    BY StatusType DEF IInv, ControlInv, Open
  <2>4. pc' \in Looping => in_looping'
    BY <1>1 DEF IInv, ControlInv
  <2>5. pc' # "halt" => Listed' = OpenSet' \ Releasing'
    BY <1>4, <2>1
  <2>6. /\ pc' \in Place /\ {cursor', nxt', peer'} \subseteq Sock \cup {NoSock}
        /\ in_looping' \in BOOLEAN /\ sel' \in Selected /\ notified' \subseteq Sock
    BY <1>1 DEF IInv, ControlInv
  <2>7. ~(pc' \in {"reap", "cascade", "release"})
    BY <2>1
  <2> QED BY <2>2, <2>3, <2>4, <2>5, <2>6, <2>7 DEF ControlInv
<1>6. RoomInv'
  <2>1. \A u \in Sock : sk'[u].rbuf \in {sk[u].rbuf, NoBuf}
    BY <1>4
  <2> QED BY <1>1, <1>4, <2>1, AppSees, RoomKept
<1> QED BY <1>4, <1>5, <1>6 DEF IInv, EofKept

-----------------------------------------------------------------------------
(* The interface.                                                          *)

LEMMA ReinitStep ==
  ASSUME IInv, NEW s \in User, Reinit(s)
  PROVE  IInv' /\ EofKept
<1>1. s \in Sock /\ InApp /\ ~IsOpen(s) /\ s \notin Listed
  BY DEF Sock, Reinit
<1>2. /\ UNCHANGED <<in_looping, pc, cursor, nxt, peer, sel, fault, heap, socks, watch, status>>
      /\ sk' = [sk EXCEPT ![s] = Fresh] /\ sk[s].type # "none" /\ notified' = notified \ {s}
  BY DEF Reinit, control
<1>3. /\ DataInv' /\ OpenSet' = OpenSet \ {s} /\ Listed' = Listed
      /\ \A u \in Sock : Eof(u) => Eof(u)' \/ sk'[u] = Fresh
      /\ sk'[s].rbuf = NoBuf /\ \A u \in Sock \ {s} : sk'[u] = sk[u]
  BY <1>1, <1>2, DataReset DEF IInv
<1>4. /\ OpenSet' = OpenSet /\ Releasing' = Releasing /\ pc # "halt"
      /\ pc \notin {"reap", "cascade", "release"}
  BY <1>1, <1>2, <1>3 DEF OpenSet, Releasing, InApp
<1>5. ControlInv'
  <2>1. TraversalSafe' /\ (pc' # "halt" => Listed' = OpenSet' \ Releasing')
    BY <1>2, <1>3, <1>4 DEF IInv, ControlInv, TraversalSafe
  <2>2. pc' \in Looping => in_looping'
    BY <1>2 DEF IInv, ControlInv
  <2>3. /\ pc' \in Place /\ {cursor', nxt', peer'} \subseteq Sock \cup {NoSock}
        /\ in_looping' \in BOOLEAN /\ sel' \in Selected /\ notified' \subseteq Sock
        /\ status' \in [Counter -> Int]
    BY <1>2 DEF IInv, ControlInv
  <2>4. ~(pc' \in {"reap", "cascade", "release"})
    BY <1>2, <1>4
  <2> QED BY <2>1, <2>2, <2>3, <2>4 DEF ControlInv
<1>6. RoomInv'
  <2>1. \A u \in Sock : /\ (Eof(u) => Eof(u)') \/ sk'[u].rbuf = NoBuf
                        /\ sk'[u].rbuf \in {sk[u].rbuf, NoBuf}
    BY <1>3 DEF Eof
  <2> QED BY <1>2, <1>4, <2>1, RoomKept
<1> QED BY <1>3, <1>5, <1>6 DEF IInv, EofKept

(* zsocket_connect keeps the invariant.                                    *)
LEMMA ConnectStep ==
  ASSUME IInv, NEW s \in User, NEW f \in Fd, Connect(s, f)
  PROVE  IInv' /\ EofKept
<1>1. /\ InApp /\ s \in Sock /\ Open(s, f, "client", "fresh", Assigned, {})
      /\ heap' = heap /\ watch' = watch
  BY DEF Connect, Sock
<1>2. /\ heap \subseteq Heap /\ watch' \in Watch /\ Covers(watch') /\ Watched' = Watched
      /\ "client" \in Type \ {"none"}
  BY <1>1 DEF IInv, DataInv, NfdsCovers, Covers, Watched, Type
<1> QED BY <1>1, <1>2, CallOpens

(* zsocket_listen keeps it.                                                *)
LEMMA ListenOnStep ==
  ASSUME IInv, NEW s \in User, NEW f \in Fd, NEW p \in Port, ListenOn(s, f, p)
  PROVE  IInv' /\ EofKept
<1>1. /\ InApp /\ s \in Sock /\ Open(s, f, "server", "zero", p, {"READ_ENABLE"})
      /\ heap' = heap /\ watch' = WatchRead(f)
  BY DEF ListenOn, Sock
<1>2. /\ watch' \in Watch /\ Covers(watch')
      /\ watch'.read = watch.read \cup {f} /\ watch'.write = watch.write
  BY <1>1, WatchReadEffect DEF IInv, DataInv
<1>3. Watched' \subseteq Watched \cup {f}
  BY <1>2 DEF Watched
<1>4. heap \subseteq Heap /\ "server" \in Type \ {"none"}
  BY DEF IInv, DataInv, Type
<1> QED BY <1>1, <1>2, <1>3, <1>4, CallOpens

(* zsocket_accept keeps it, with the allocation among the listed.          *)
LEMMA AcceptStep ==
  ASSUME IInv, NEW c \in Heap, NEW f \in Fd, Accept(c, f)
  PROVE  IInv' /\ EofKept
<1>1. /\ InApp /\ c \in Sock /\ Open(c, f, "connection", "fresh", LocalPort(sk[cursor].port), {})
      /\ heap' = heap \cup {c} /\ watch' = watch
  BY DEF Accept, InApp, Sock
<1>2. LocalPort(sk[cursor].port) \in Port \cup {NoPort, Assigned}
  <2>1. cursor \in Listed /\ Listed \subseteq Sock
    BY AppSees, <1>1 DEF Accept, IInv, ControlInv, TraversalSafe, OpenSet
  <2>2. sk[cursor] \in Socket
    BY <2>1 DEF IInv, DataInv
  <2> QED BY <2>2, SocketType DEF LocalPort
<1>3. /\ heap \cup {c} \subseteq Heap /\ watch' \in Watch /\ Covers(watch') /\ Watched' = Watched
      /\ "connection" \in Type \ {"none"}
  BY <1>1 DEF IInv, DataInv, NfdsCovers, Covers, Watched, Type
<1> QED BY <1>1, <1>2, <1>3, CallOpens

(* The failed assertion of zsocket_accept keeps it.                        *)
LEMMA AcceptFailsStep ==
  ASSUME IInv, AcceptFails
  PROVE  IInv' /\ EofKept
BY Halts DEF AcceptFails

(* zsocket_read_start keeps it.                                            *)
LEMMA ReadStartStep ==
  ASSUME IInv, NEW s \in Sock, ReadStart(s)
  PROVE  IInv' /\ EofKept
<1>1. CASE "READ_ENABLE" \in sk[s].state
  BY <1>1, Halts DEF ReadStart
<1>2. CASE "READ_ENABLE" \notin sk[s].state
  <2> DEFINE r == [sk[s] EXCEPT !.state = sk[s].state \cup {"READ_ENABLE"}]
  <2>1. /\ InApp /\ Usable(s) /\ watch' = WatchRead(sk[s].fd)
        /\ UNCHANGED <<control, heap, socks, status, notified>>
    BY <1>2 DEF ReadStart
  <2>2. sk' = [sk EXCEPT ![s] = r]
    BY <1>2 DEF ReadStart, IInv, DataInv
  <2>3. /\ sk[s] \in Socket /\ sk[s].fd \in Fd /\ ~Eof(s) /\ sk[s].state \subseteq Flag
        /\ "WRITE_ENABLE" \in sk[s].state => sk[s].wbuf # NoBuf
    BY <2>1, UsableSocket
  <2>4. sk[s].state \cup {"READ_ENABLE"} \in SUBSET Flag
    BY <2>3 DEF Flag
  <2>5. /\ r \in Socket /\ r.state = sk[s].state \cup {"READ_ENABLE"} /\ r.fd = sk[s].fd
        /\ r.type = sk[s].type /\ r.rbuf = sk[s].rbuf /\ r.wbuf = sk[s].wbuf
    BY <2>3, <2>4, NewState
  <2>6. /\ watch' \in Watch /\ Covers(watch')
        /\ watch'.read = watch.read \cup {sk[s].fd} /\ watch'.write = watch.write
    BY <2>1, <2>3, WatchReadEffect DEF IInv, DataInv
  <2>7. Watched' \subseteq Watched \cup {sk[s].fd}
    BY <2>6 DEF Watched
  <2> HIDE DEF r
  <2>8. "EOF" \notin r.state /\ ("WRITE_ENABLE" \in r.state => r.wbuf # NoBuf)
    BY <2>3, <2>5 DEF Eof
  <2> QED BY <2>1, <2>2, <2>5, <2>6, <2>7, <2>8, CallUpdates
<1> QED BY <1>1, <1>2

(* zsocket_read_stop keeps it.                                             *)
LEMMA ReadStopStep ==
  ASSUME IInv, NEW s \in Sock, ReadStop(s)
  PROVE  IInv' /\ EofKept
<1>1. CASE "READ_ENABLE" \notin sk[s].state
  BY <1>1, Halts DEF ReadStop
<1>2. CASE "READ_ENABLE" \in sk[s].state
  <2> DEFINE r == [sk[s] EXCEPT !.state = sk[s].state \ {"READ_ENABLE"}]
  <2>1. /\ InApp /\ Usable(s) /\ watch' = UnwatchRead(sk[s].fd)
        /\ UNCHANGED <<control, heap, socks, status, notified>>
    BY <1>2 DEF ReadStop
  <2>2. sk' = [sk EXCEPT ![s] = r]
    BY <1>2 DEF ReadStop, IInv, DataInv
  <2>3. /\ sk[s] \in Socket /\ sk[s].fd \in Fd /\ ~Eof(s) /\ sk[s].state \subseteq Flag
        /\ "WRITE_ENABLE" \in sk[s].state => sk[s].wbuf # NoBuf
    BY <2>1, UsableSocket
  <2>4. sk[s].state \ {"READ_ENABLE"} \in SUBSET Flag
    BY <2>3
  <2>5. /\ r \in Socket /\ r.state = sk[s].state \ {"READ_ENABLE"} /\ r.fd = sk[s].fd
        /\ r.type = sk[s].type /\ r.rbuf = sk[s].rbuf /\ r.wbuf = sk[s].wbuf
    BY <2>3, <2>4, NewState
  <2>6. /\ watch' \in Watch /\ Covers(watch')
        /\ watch'.read = watch.read \ {sk[s].fd} /\ watch'.write = watch.write
    BY <2>1, <2>3, UnwatchReadEffect DEF IInv, DataInv
  <2>7. Watched' \subseteq Watched \cup {sk[s].fd}
    BY <2>6 DEF Watched
  <2> HIDE DEF r
  <2>8. "EOF" \notin r.state /\ ("WRITE_ENABLE" \in r.state => r.wbuf # NoBuf)
    BY <2>3, <2>5 DEF Eof
  <2> QED BY <2>1, <2>2, <2>5, <2>6, <2>7, <2>8, CallUpdates
<1> QED BY <1>1, <1>2

(* The zsocket_write that allocates the buffer keeps it.                   *)
LEMMA FirstWriteStep ==
  ASSUME IInv, NEW s \in Sock, NEW n \in 1..MaxWrite, FirstWrite(s, n)
  PROVE  IInv' /\ EofKept
<1>1. CASE sk[s].wbuf # NoBuf
  BY <1>1, Halts DEF FirstWrite
<1>2. CASE sk[s].wbuf = NoBuf
  <2>1. /\ InApp /\ Usable(s) /\ watch' = WatchWrite(sk[s].fd)
        /\ UNCHANGED <<control, heap, socks, status, notified>>
    BY <1>2 DEF FirstWrite
  <2>2. PICK b \in Enqueued(New(BufSize), n) :
          sk' = [sk EXCEPT ![s].state = @ \cup {"WRITE_ENABLE"}, ![s].wbuf = b]
    BY <1>2 DEF FirstWrite
  <2> DEFINE q == [sk[s] EXCEPT !.state = sk[s].state \cup {"WRITE_ENABLE"}]
             r == [q EXCEPT !.wbuf = b]
  <2>3. sk' = [sk EXCEPT ![s] = r]
    BY <2>2 DEF IInv, DataInv
  <2>4. /\ sk[s] \in Socket /\ sk[s].fd \in Fd /\ ~Eof(s) /\ sk[s].state \subseteq Flag
    BY <2>1, UsableSocket
  <2>5. b \in Buffer /\ b \in BufferOrNone /\ b # NoBuf
    <3>1. n \in Nat /\ BufSize \in Nat
      BY ZSocketAssumption
    <3> QED BY <3>1, NewType, EnqueuedType, NoBufType DEF BufferOrNone
  <2>6. sk[s].state \cup {"WRITE_ENABLE"} \in SUBSET Flag
    BY <2>4 DEF Flag
  <2>7. /\ q \in Socket /\ q.state = sk[s].state \cup {"WRITE_ENABLE"} /\ q.fd = sk[s].fd
        /\ q.type = sk[s].type /\ q.rbuf = sk[s].rbuf
    BY <2>4, <2>6, NewState
  <2> HIDE DEF q
  <2>8. /\ r \in Socket /\ r.state = q.state /\ r.fd = q.fd /\ r.type = q.type
        /\ r.rbuf = q.rbuf /\ r.wbuf = b
    BY <2>5, <2>7, NewWbuf
  <2>9. /\ watch' \in Watch /\ Covers(watch')
        /\ watch'.write = watch.write \cup {sk[s].fd} /\ watch'.read = watch.read
    BY <2>1, <2>4, WatchWriteEffect DEF IInv, DataInv
  <2>10. Watched' \subseteq Watched \cup {sk[s].fd}
    BY <2>9 DEF Watched
  <2> HIDE DEF r
  <2>11. "EOF" \notin r.state /\ ("WRITE_ENABLE" \in r.state => r.wbuf # NoBuf)
    BY <2>4, <2>5, <2>7, <2>8 DEF Eof
  <2>12. /\ r.fd = sk[s].fd /\ r.type = sk[s].type /\ r.rbuf = sk[s].rbuf
    BY <2>7, <2>8
  <2> QED BY <2>1, <2>3, <2>8, <2>9, <2>10, <2>11, <2>12, CallUpdates
<1> QED BY <1>1, <1>2

(* The others keep it.                                                     *)
LEMMA NextWriteStep ==
  ASSUME IInv, NEW s \in Sock, NEW n \in 1..MaxWrite, NextWrite(s, n)
  PROVE  IInv' /\ EofKept
<1>1. /\ InApp /\ Usable(s) /\ "WRITE_ENABLE" \in sk[s].state
      /\ UNCHANGED <<control, heap, socks, watch, status, notified>>
  BY DEF NextWrite
<1>2. PICK b \in Enqueued(sk[s].wbuf, n) : sk' = [sk EXCEPT ![s].wbuf = b]
  BY DEF NextWrite
<1> DEFINE r == [sk[s] EXCEPT !.wbuf = b]
<1>3. sk' = [sk EXCEPT ![s] = r]
  BY <1>2 DEF IInv, DataInv
<1>4. /\ sk[s] \in Socket /\ sk[s].fd \in Fd /\ ~Eof(s) /\ sk[s].wbuf \in Buffer
  BY <1>1, UsableSocket DEF BufferOrNone
<1>5. b \in Buffer /\ b \in BufferOrNone /\ b # NoBuf
  <2>1. n \in Nat
    BY ZSocketAssumption
  <2> QED BY <1>4, <2>1, EnqueuedType, NoBufType DEF BufferOrNone
<1>6. /\ r \in Socket /\ r.state = sk[s].state /\ r.fd = sk[s].fd /\ r.type = sk[s].type
      /\ r.rbuf = sk[s].rbuf /\ r.wbuf = b
  BY <1>4, <1>5, NewWbuf
<1> HIDE DEF r
<1>7. "EOF" \notin r.state /\ ("WRITE_ENABLE" \in r.state => r.wbuf # NoBuf)
  BY <1>4, <1>5, <1>6 DEF Eof
<1>8. /\ watch' \in Watch /\ Covers(watch') /\ Watched' = Watched
  BY <1>1 DEF IInv, DataInv, NfdsCovers, Covers, Watched
<1>9. UNCHANGED <<control, heap, socks, status, notified>>
  BY <1>1
<1> QED BY <1>1, <1>3, <1>6, <1>7, <1>8, <1>9, CallUpdates

(* Storing 0 in tick keeps it.                                             *)
LEMMA DisableTimeoutStep ==
  ASSUME IInv, NEW s \in Heap, DisableTimeout(s)
  PROVE  IInv' /\ EofKept
<1>1. /\ InApp /\ Usable(s) /\ s \in Sock
      /\ UNCHANGED <<control, heap, socks, watch, status, notified>>
      /\ sk' = [sk EXCEPT ![s].tick = "zero"]
  BY DEF DisableTimeout, Sock
<1> DEFINE r == [sk[s] EXCEPT !.tick = "zero"]
<1>2. sk' = [sk EXCEPT ![s] = r]
  BY <1>1 DEF IInv, DataInv
<1>3. /\ sk[s] \in Socket /\ sk[s].fd \in Fd /\ ~Eof(s)
      /\ "WRITE_ENABLE" \in sk[s].state => sk[s].wbuf # NoBuf
  BY <1>1, UsableSocket
<1>4. /\ r \in Socket /\ r.state = sk[s].state /\ r.fd = sk[s].fd /\ r.type = sk[s].type
      /\ r.rbuf = sk[s].rbuf /\ r.wbuf = sk[s].wbuf
  BY <1>3, NewTick
<1> HIDE DEF r
<1>5. "EOF" \notin r.state /\ ("WRITE_ENABLE" \in r.state => r.wbuf # NoBuf)
  BY <1>3, <1>4 DEF Eof
<1>6. /\ watch' \in Watch /\ Covers(watch') /\ Watched' = Watched
  BY <1>1 DEF IInv, DataInv, NfdsCovers, Covers, Watched
<1>7. UNCHANGED <<control, heap, socks, status, notified>>
  BY <1>1
<1> QED BY <1>1, <1>2, <1>4, <1>5, <1>6, <1>7, CallUpdates

(* Inside the loop zsocket_close stays where it is, outside it goes on to  *)
(* take the socket off the list.                                           *)
LEMMA CloseStep ==
  ASSUME IInv, NEW s \in Sock, NEW cb \in CloseCb, Close(s, cb)
  PROVE  IInv' /\ EofKept
<1>1. /\ InApp /\ Usable(s) /\ MarkEof(s, sk[s], cb)
      /\ UNCHANGED <<heap, socks, in_looping, nxt, peer, sel, fault, notified>>
  BY DEF Close
<1>2. cb \in BOOLEAN
  BY ZSocketAssumption
<1>3. /\ s \in Listed /\ IsOpen(s) /\ sk[s] \in Socket /\ sk[s].type \in Type \ {"none"}
      /\ "WRITE_ENABLE" \in sk[s].state => sk[s].wbuf # NoBuf
  BY <1>1, UsableSocket
<1>4. DataInv' /\ SameOpen /\ Eof(s)'
  BY <1>1, <1>2, <1>3, DataClose DEF IInv
<1>5. status' \in [Counter -> Int]
  BY <1>1, <1>3, StatusType DEF MarkEof, IInv, ControlInv
<1>6. \A t \in Sock : sk'[t].rbuf = sk[t].rbuf
  <2> DEFINE q == [sk[s] EXCEPT !.state = @ \cup {"EOF"}]
             r == [q EXCEPT !.close_cb = cb]
  <2>1. sk' = [sk EXCEPT ![s] = r]
    BY <1>1 DEF MarkEof
  <2>2. q \in Socket /\ q.rbuf = sk[s].rbuf
    <3>1. sk[s].state \cup {"EOF"} \in SUBSET Flag
      BY <1>3, SocketType DEF Flag
    <3> QED BY <1>3, <3>1, NewState
  <2> HIDE DEF q
  <2>3. r.rbuf = q.rbuf
    BY <2>2, SocketType
  <2> HIDE DEF r
  <2> QED BY <2>1, <2>2, <2>3 DEF IInv, DataInv
<1>7. CASE in_looping
  <2>1. UNCHANGED <<pc, cursor>>
    BY <1>7 DEF Close
  <2>2. ControlInv'
    BY <1>1, <1>4, <1>5, <2>1, Stays DEF IInv, ControlInv
  <2>3. RoomInv'
    BY <1>1, <1>4, <1>6, <2>1, AppSees, RoomKept DEF SameOpen
  <2> QED BY <1>4, <2>2, <2>3 DEF IInv, EofKept, SameOpen
<1>8. CASE ~in_looping
  <2>1. pc' = "reap" /\ cursor' = s /\ pc = "app"
    BY <1>1, <1>8 DEF Close, IInv, ControlInv, Looping, InApp
  <2>2. Eof(cursor)'
    BY <1>4, <2>1 DEF Eof
  <2>3. ControlInv'
    <3>1. /\ pc' \in Place \ {"halt", "cascade", "release"} /\ pc' \notin Looping
          /\ {cursor', nxt', peer'} \subseteq Sock \cup {NoSock}
          /\ in_looping' \in BOOLEAN /\ sel' \in Selected /\ notified' \subseteq Sock
      BY <1>1, <2>1 DEF Place, Looping, IInv, ControlInv
    <3> QED BY <1>3, <1>4, <1>5, <2>1, <2>2, <3>1, Moves
  <2>4. RoomInv'
    BY <1>1, <1>4, <1>6, <2>1, AppSees, RoomKept DEF SameOpen
  <2> QED BY <1>4, <2>3, <2>4 DEF IInv, EofKept, SameOpen
<1> QED BY <1>7, <1>8

-----------------------------------------------------------------------------
(* zsocket_loop and zsocket_poll.                                          *)

LEMMA EnterLoopStep ==
  ASSUME IInv, NEW late, late \subseteq Silent, EnterLoop(late), sel' \in Selected,
         \/ UNCHANGED <<pc, cursor>>
         \/ pc' \in {"recv", "sweep"} /\ cursor' = First(socks)
  PROVE  IInv' /\ EofKept
<1>1. /\ pc = "app" /\ in_looping' = TRUE
      /\ sk' = [s \in Sock |-> IF s \in late THEN [sk[s] EXCEPT !.tick = "expired"] ELSE sk[s]]
      /\ UNCHANGED <<heap, socks, watch, status, nxt, peer, fault, notified>>
  BY DEF EnterLoop
<1>2. late \subseteq OpenSet
  BY DEF Silent, OpenSet, IInv, DataInv, Sock
<1>3. DataInv' /\ SameOpen /\ \A s \in Sock : sk'[s].rbuf = sk[s].rbuf
  BY <1>1, <1>2, DataTick DEF IInv
<1>4. RoomInv'
  BY <1>1, <1>3, RoomKept DEF SameOpen
<1>5. /\ status' \in [Counter -> Int] /\ notified' \subseteq Sock
      /\ in_looping' \in BOOLEAN /\ pc \notin {"halt", "cascade", "release"}
  BY <1>1 DEF IInv, ControlInv
<1>6. CASE UNCHANGED <<pc, cursor>>
  <2>1. ControlInv'
    BY <1>1, <1>3, <1>5, <1>6, Stays
  <2> QED BY <1>3, <1>4, <2>1 DEF IInv, EofKept, SameOpen
<1>7. CASE pc' \in {"recv", "sweep"} /\ cursor' = First(socks)
  <2>1. cursor' \in Listed \cup {NoSock} /\ Listed \subseteq Sock
    BY <1>7, FirstListed DEF Listed, IInv, DataInv, ToSet
  <2>2. /\ pc' \in Place \ {"halt", "cascade", "release"}
        /\ {cursor', nxt', peer'} \subseteq Sock \cup {NoSock}
    BY <1>1, <1>7, <2>1 DEF Place, IInv, ControlInv
  <2>3. ControlInv'
    BY <1>1, <1>3, <1>5, <1>7, <2>1, <2>2, Moves
  <2> QED BY <1>3, <1>4, <2>3 DEF IInv, EofKept, SameOpen
<1> QED BY <1>6, <1>7

(* select() reports descriptors.                                           *)
LEMMA SelectReadyStep ==
  ASSUME IInv, NEW R \in SUBSET Below(watch.read), NEW W \in SUBSET Below(watch.write),
         NEW late \in SUBSET Silent, SelectReady(R, W, late)
  PROVE  IInv' /\ EofKept
<1>1. R \subseteq Fd /\ W \subseteq Fd
  BY DEF Below, IInv, DataInv, Watch
<1>2. Cardinality(R) \in Nat /\ Cardinality(W) \in Nat
  BY <1>1, ZSocketAssumption, FS_Subset, FS_CardinalityType
<1>3. sel' \in Selected
  BY <1>1, <1>2 DEF SelectReady, Selected
<1> QED BY <1>3, EnterLoopStep DEF SelectReady

(* select() times out.                                                     *)
LEMMA SelectNothingStep ==
  ASSUME IInv, NEW late \in SUBSET Silent, SelectNothing(late)
  PROVE  IInv' /\ EofKept
BY EnterLoopStep DEF SelectNothing, IInv, ControlInv

(* select() fails.                                                         *)
LEMMA SelectFailsStep ==
  ASSUME IInv, SelectFails
  PROVE  IInv' /\ EofKept
<1>1. {} \subseteq Silent
  OBVIOUS
<1> QED BY <1>1, EnterLoopStep DEF SelectFails, IInv, ControlInv

(* The cursor of the list loops.                                           *)
LEMMA Cursor ==
  ASSUME IInv
  PROVE  /\ pc \in {"conn_cb", "read_cb", "send", "next", "reap"} => cursor \in Listed
         /\ pc \in {"recv", "sweep"} /\ cursor # NoSock => cursor \in Listed
         /\ Listed \subseteq Sock
         /\ pc \notin {"halt", "cascade", "release"} => Listed = OpenSet
         /\ First(socks) \in Listed \cup {NoSock}
         /\ \A s \in Listed : After(s) \in (Listed \ {s}) \cup {NoSock}
<1>1. socks \in Seq(Sock) /\ IsInjective(socks)
  BY DEF IInv, DataInv
<1>2. Listed \subseteq Sock /\ First(socks) \in Listed \cup {NoSock}
  BY <1>1, FirstListed DEF Listed, ToSet
<1>3. \A s \in Listed : After(s) \in (Listed \ {s}) \cup {NoSock}
  BY <1>1, AfterListed
<1> QED BY <1>2, <1>3 DEF IInv, ControlInv, TraversalSafe, Releasing

(* A step of the loop that leaves one socket and goes on to the next point.*)
LEMMA NextPoint ==
  ASSUME IInv, UNCHANGED data, UNCHANGED <<nxt, peer>>, sel' \in Selected,
         pc \in {"recv", "conn_cb", "send", "next"},
         pc' \in {"recv", "conn_cb", "send", "next", "sweep"},
         pc' \in {"conn_cb", "send", "next"} => cursor' \in Listed,
         pc' \in {"recv", "sweep"} => cursor' \in Listed \cup {NoSock}
  PROVE  IInv' /\ EofKept
<1>1. /\ DataInv' /\ SameOpen /\ EofKept /\ RoomInv'
      /\ status' \in [Counter -> Int] /\ in_looping' \in BOOLEAN /\ notified' \subseteq Sock
      /\ in_looping' = in_looping
  BY DataStep
<1>2. in_looping'
  BY <1>1 DEF IInv, ControlInv, Looping
<1>3. {cursor', nxt', peer'} \subseteq Sock \cup {NoSock}
  BY Cursor DEF IInv, ControlInv
<1>4. pc' \in Place \ {"halt", "cascade", "release"} /\ pc' # "reap"
  BY DEF Place
<1>5. ControlInv'
  BY <1>1, <1>2, <1>3, <1>4, Moves
<1> QED BY <1>1, <1>5 DEF IInv

(* The scan comes to the end of the list.                                  *)
LEMMA ScanEndsStep ==
  ASSUME IInv, ScanEnds
  PROVE  IInv' /\ EofKept
<1>1. UNCHANGED data /\ UNCHANGED <<nxt, peer, sel>> /\ sel \in Selected
  BY DEF ScanEnds, IInv, ControlInv
<1> QED BY <1>1, Cursor, NextPoint DEF ScanEnds

(* The socket at the cursor is not readable.                               *)
LEMMA NotReadableStep ==
  ASSUME IInv, NotReadable
  PROVE  IInv' /\ EofKept
<1>1. UNCHANGED data /\ UNCHANGED <<cursor, nxt, peer>> /\ sel' \in Selected
  BY DEF NotReadable, IInv, ControlInv, Selected
<1> QED BY <1>1, Cursor, NextPoint DEF NotReadable

(* An assertion of zsocket_handle_recv fails.                              *)
LEMMA RecvAbortsStep ==
  ASSUME IInv, RecvAborts
  PROVE  IInv' /\ EofKept
BY Halts DEF RecvAborts

(* An assertion of zsocket_handle_send fails.                              *)
LEMMA SendAbortsStep ==
  ASSUME IInv, SendAborts
  PROVE  IInv' /\ EofKept
BY Halts DEF SendAborts

(* What every path through zsocket_handle_recv and zsocket_handle_send has.*)
LEMMA RecvFacts ==
  ASSUME IInv, NEW next, Recv(next)
  PROVE  /\ pc = "recv" /\ cursor \in Listed /\ cursor \in Sock /\ IsOpen(cursor)
         /\ ~Eof(cursor) /\ pc' = next /\ sel' \in Selected /\ sk[cursor] \in Socket
         /\ UNCHANGED <<heap, socks, watch, status, in_looping, cursor, nxt, peer,
                        fault, notified>>
<1>1. pc = "recv" /\ cursor \in Listed /\ cursor \in Sock /\ IsOpen(cursor)
  BY Cursor DEF Recv, CanRecv, OpenSet
<1>2. sel' \in Selected
  <2> DEFINE q == [sel EXCEPT !.read = @ \ {sk[cursor].fd}]
  <2>1. q \in Selected
    BY DEF IInv, ControlInv, Selected
  <2>2. sel' = [q EXCEPT !.handled = TRUE]
    BY DEF Recv
  <2> HIDE DEF q
  <2> QED BY <2>1, <2>2 DEF Selected
<1> QED BY <1>1, <1>2 DEF Recv, IInv, DataInv

(* What every path through zsocket_handle_send starts from.                *)
LEMMA SendFacts ==
  ASSUME IInv, Send
  PROVE  /\ pc = "send" /\ cursor \in Listed /\ cursor \in Sock /\ IsOpen(cursor)
         /\ ~Eof(cursor) /\ pc' = "next" /\ sel' \in Selected
         /\ sk[cursor] \in Socket /\ sk[cursor].wbuf \in Buffer
         /\ UNCHANGED <<heap, socks, in_looping, cursor, nxt, peer, fault, notified>>
<1>1. pc = "send" /\ cursor \in Listed /\ cursor \in Sock /\ IsOpen(cursor)
  BY Cursor DEF Send, CanSend, OpenSet
<1>2. sel' \in Selected
  <2> DEFINE q == [sel EXCEPT !.write = @ \ {sk[cursor].fd}]
  <2>1. q \in Selected
    BY DEF IInv, ControlInv, Selected
  <2>2. sel' = [q EXCEPT !.handled = TRUE]
    BY DEF Send
  <2> HIDE DEF q
  <2> QED BY <2>1, <2>2 DEF Selected
<1>3. sk[cursor] \in Socket /\ sk[cursor].wbuf \in Buffer
  <2>1. sk[cursor] \in Socket /\ sk[cursor].wbuf # NoBuf
    BY <1>1 DEF Send, IInv, DataInv, BuffersOwned
  <2> QED BY <2>1, SocketType DEF BufferOrNone
<1> QED BY <1>1, <1>2, <1>3 DEF Send

(* A server is told of a connection.                                       *)
LEMMA RecvServerStep ==
  ASSUME IInv, RecvServer
  PROVE  IInv' /\ EofKept
<1>1. Recv("conn_cb") /\ sk' = sk
  BY DEF RecvServer
<1>2. /\ pc = "recv" /\ cursor \in Listed /\ pc' = "conn_cb" /\ sel' \in Selected
      /\ UNCHANGED data /\ UNCHANGED <<cursor, nxt, peer>>
  BY <1>1, RecvFacts DEF data
<1> QED BY <1>2, NextPoint

(* The read buffer cannot be allocated.                                    *)
LEMMA RecvNoBufferStep ==
  ASSUME IInv, RecvNoBuffer
  PROVE  IInv' /\ EofKept
<1>1. Recv("send") /\ sk' = sk
  BY DEF RecvNoBuffer
<1>2. /\ pc = "recv" /\ cursor \in Listed /\ pc' = "send" /\ sel' \in Selected
      /\ UNCHANGED data /\ UNCHANGED <<cursor, nxt, peer>>
  BY <1>1, RecvFacts DEF data
<1> QED BY <1>2, NextPoint

(* connection_cb returns.                                                  *)
LEMMA ConnCbReturnsStep ==
  ASSUME IInv, ConnCbReturns
  PROVE  IInv' /\ EofKept
<1>1. /\ pc = "conn_cb" /\ pc' = "send" /\ UNCHANGED data /\ UNCHANGED <<cursor, nxt, peer, sel>>
      /\ sel \in Selected
  BY DEF ConnCbReturns, IInv, ControlInv
<1> QED BY <1>1, Cursor, NextPoint

(* The socket at the cursor is not writable.                               *)
LEMMA NotWritableStep ==
  ASSUME IInv, NotWritable
  PROVE  IInv' /\ EofKept
<1>1. /\ pc = "send" /\ pc' = "next" /\ UNCHANGED data /\ UNCHANGED <<cursor, nxt, peer, sel>>
      /\ sel \in Selected
  BY DEF NotWritable, IInv, ControlInv
<1> QED BY <1>1, Cursor, NextPoint

(* There is nothing to send.                                               *)
LEMMA SendNothingStep ==
  ASSUME IInv, SendNothing
  PROVE  IInv' /\ EofKept
<1>1. Send /\ UNCHANGED <<sk, watch, status>>
  BY DEF SendNothing
<1>2. /\ pc = "send" /\ cursor \in Listed /\ pc' = "next" /\ sel' \in Selected
      /\ UNCHANGED data /\ UNCHANGED <<cursor, nxt, peer>>
  BY <1>1, SendFacts DEF data
<1> QED BY <1>2, NextPoint

(* The scan goes to the next socket, or ends early.                        *)
LEMMA NextSocketStep ==
  ASSUME IInv, NextSocket
  PROVE  IInv' /\ EofKept
<1>1. sel.left \in Int /\ sel \in Selected
  BY DEF IInv, ControlInv, Selected
<1>2. sel' \in Selected
  BY <1>1 DEF NextSocket, Selected
<1>3. /\ pc = "next" /\ UNCHANGED data /\ UNCHANGED <<nxt, peer>>
      /\ \/ pc' = "sweep" /\ cursor' = First(socks)
         \/ pc' = "recv" /\ cursor' = After(cursor)
  BY DEF NextSocket
<1>4. cursor' \in Listed \cup {NoSock}
  BY <1>3, Cursor
<1> QED BY <1>2, <1>3, <1>4, NextPoint

(* recv() returns: the buffer takes what it has room for.                  *)
LEMMA RecvDataStep ==
  ASSUME IInv, NEW n \in -1..MaxBuf, RecvData(n)
  PROVE  IInv' /\ EofKept
<1> DEFINE b == IF sk[cursor].rbuf = NoBuf THEN New(BufSize) ELSE sk[cursor].rbuf
           r == IF n = -1 THEN Masked(cursor, "READ_FAILED") ELSE sk[cursor]
           c == IF n > 0 THEN OffsetInHead(b, n) ELSE b
           q == [r EXCEPT !.rbuf = c]
           p == [q EXCEPT !.tick = "fresh"]
<1>1. /\ Recv("read_cb") /\ sk' = [sk EXCEPT ![cursor] = p]
      /\ n \in 0..Spare(b) \/ n = -1
  BY DEF RecvData
<1>2. /\ pc = "recv" /\ cursor \in Listed /\ cursor \in Sock /\ IsOpen(cursor)
      /\ ~Eof(cursor) /\ pc' = "read_cb" /\ sel' \in Selected /\ sk[cursor] \in Socket
      /\ UNCHANGED <<heap, socks, watch, status, in_looping, cursor, nxt, peer, fault, notified>>
  BY <1>1, RecvFacts
<1>3. b \in Buffer
  <2>1. BufSize \in Nat
    BY ZSocketAssumption
  <2> QED BY <1>2, <2>1, NewType, SocketType DEF BufferOrNone
<1>4. /\ r \in Socket /\ r.fd = sk[cursor].fd /\ r.type = sk[cursor].type
      /\ r.state \subseteq sk[cursor].state /\ r.wbuf = sk[cursor].wbuf
  <2>1. CASE n = -1
    <3>1. sk[cursor].state \cap {"READ_FAILED"} \in SUBSET Flag
      BY <1>2, SocketType
    <3>2. r = [sk[cursor] EXCEPT !.state = sk[cursor].state \cap {"READ_FAILED"}]
      BY <2>1 DEF Masked
    <3> HIDE DEF r
    <3> QED BY <1>2, <3>1, <3>2, NewState
  <2>2. CASE n # -1
    BY <1>2, <2>2
  <2> QED BY <2>1, <2>2
<1> HIDE DEF b, r
<1>5. c \in BufferOrNone
  <2>1. CASE n > 0
    <3>1. n \in Nat /\ n <= Spare(b)
      BY <1>1, <1>3, <2>1 DEF Spare, Buffer
    <3> QED BY <1>3, <2>1, <3>1, OffsetInType DEF BufferOrNone
  <2>2. CASE ~(n > 0)
    BY <1>3, <2>2 DEF BufferOrNone
  <2> QED BY <2>1, <2>2
<1> HIDE DEF c
<1>6. /\ q \in Socket /\ q.fd = r.fd /\ q.type = r.type /\ q.state = r.state /\ q.wbuf = r.wbuf
  BY <1>4, <1>5, NewRbuf
<1> HIDE DEF q
<1>7. /\ p \in Socket /\ p.fd = q.fd /\ p.type = q.type /\ p.state = q.state /\ p.wbuf = q.wbuf
  BY <1>6, NewTick
<1> HIDE DEF p
<1>8. /\ p.fd = sk[cursor].fd /\ p.type = sk[cursor].type /\ "EOF" \notin p.state
      /\ "WRITE_ENABLE" \in p.state => p.wbuf # NoBuf
  BY <1>2, <1>4, <1>6, <1>7 DEF Eof, IInv, DataInv, BuffersOwned
<1>9. watch' \in Watch /\ Covers(watch') /\ Watched' = Watched
  BY <1>2 DEF IInv, DataInv, NfdsCovers, Covers, Watched
<1>10. DataInv' /\ SameOpen
  BY <1>1, <1>2, <1>7, <1>8, <1>9, DataUpdate DEF IInv
<1>11. ControlInv'
  <2>1. in_looping'
    BY <1>2 DEF IInv, ControlInv, Looping
  <2>2. /\ {cursor', nxt', peer'} \subseteq Sock \cup {NoSock} /\ in_looping' \in BOOLEAN
        /\ status' \in [Counter -> Int] /\ notified' \subseteq Sock
        /\ pc' \in Place \ {"halt", "cascade", "release"}
    BY <1>2 DEF IInv, ControlInv, Place
  <2> QED BY <1>2, <1>10, <2>1, <2>2, Moves
<1>12. RoomInv'
  <2> SUFFICES ASSUME NEW s \in Sock, ~Eof(s)', sk'[s].rbuf # NoBuf, s # cursor
               PROVE  Spare(sk'[s].rbuf) > 0
    BY <1>2 DEF RoomInv
  <2>1. sk'[s] = sk[s] /\ ~Eof(s)
    BY <1>1, <1>10 DEF IInv, DataInv, SameOpen
  <2> QED BY <1>2, <2>1 DEF IInv, RoomInv
<1> QED BY <1>10, <1>11, <1>12 DEF IInv, EofKept, SameOpen

(* Whoever closes the socket at hand inside the loop goes on with the loop.*)
LEMMA LoopCloses ==
  ASSUME IInv, pc \in {"read_cb", "send", "sweep"}, cursor \in Listed, NEW r \in Socket,
         MarkEof(cursor, r, FALSE), r.fd = sk[cursor].fd, r.type = sk[cursor].type,
         "WRITE_ENABLE" \in r.state => r.wbuf # NoBuf,
         UNCHANGED <<heap, socks, in_looping, cursor, nxt, peer, fault, notified>>,
         sel' \in Selected, pc' \in {"send", "next", "reap"}
  PROVE  IInv' /\ EofKept
<1>1. cursor \in Listed /\ cursor \in Sock /\ IsOpen(cursor)
  BY Cursor DEF OpenSet
<1>2. DataInv' /\ SameOpen /\ Eof(cursor)'
  <2>1. FALSE \in BOOLEAN
    OBVIOUS
  <2> QED BY <1>1, <2>1, DataClose DEF IInv, Eof
<1>3. status' \in [Counter -> Int]
  <2>1. r.type \in Type \ {"none"}
    BY <1>1, OpenFd, SocketType DEF IInv
  <2> QED BY <2>1, StatusType DEF MarkEof, IInv, ControlInv
<1>4. in_looping'
  BY DEF IInv, ControlInv, Looping
<1>5. /\ {cursor', nxt', peer'} \subseteq Sock \cup {NoSock} /\ in_looping' \in BOOLEAN
      /\ notified' \subseteq Sock /\ pc' \in Place \ {"halt", "cascade", "release"}
  BY DEF IInv, ControlInv, Place
<1>6. ControlInv'
  BY <1>1, <1>2, <1>3, <1>4, <1>5, Moves
<1>7. RoomInv'
  <2> SUFFICES ASSUME NEW s \in Sock, ~Eof(s)', sk'[s].rbuf # NoBuf
               PROVE  Spare(sk'[s].rbuf) > 0
    BY DEF RoomInv
  <2>1. s # cursor
    BY <1>2
  <2>2. sk'[s] = sk[s] /\ ~Eof(s)
    BY <1>2, <2>1 DEF IInv, DataInv, SameOpen, MarkEof
  <2> QED BY <2>1, <2>2 DEF IInv, RoomInv
<1> QED BY <1>2, <1>6, <1>7 DEF IInv, EofKept, SameOpen

(* A step of the scan that gives one socket other buffers.                 *)
LEMMA ScanUpdates ==
  ASSUME IInv, pc \in {"read_cb", "send"}, NEW r \in Socket,
         sk' = [sk EXCEPT ![cursor] = r], r.fd = sk[cursor].fd, r.type = sk[cursor].type,
         r.state = sk[cursor].state, "WRITE_ENABLE" \in r.state => r.wbuf # NoBuf,
         \/ r.rbuf = NoBuf \/ Spare(r.rbuf) > 0 \/ (pc = "send" /\ r.rbuf = sk[cursor].rbuf),
         UNCHANGED <<heap, socks, watch, status, in_looping, cursor, nxt, peer, fault, notified>>,
         sel' \in Selected, pc' \in {"send", "next"}
  PROVE  IInv' /\ EofKept
<1>1. cursor \in Listed /\ cursor \in Sock /\ IsOpen(cursor)
  BY Cursor DEF OpenSet
<1>2. DataInv' /\ SameOpen
  <2>1. watch' \in Watch /\ Covers(watch') /\ Watched' = Watched
    BY DEF IInv, DataInv, NfdsCovers, Covers, Watched
  <2>2. "EOF" \in r.state => r.fd \notin Watched
    <3> SUFFICES ASSUME Eof(cursor), sk[cursor].fd \in Watched
                 PROVE  FALSE
      BY DEF Eof
    <3>1. PICK s \in Sock : sk[s].fd = sk[cursor].fd /\ ~Eof(s)
      BY DEF IInv, DataInv, WatchedAreUsable, Watched
    <3>2. s = cursor
      BY <1>1, <3>1 DEF IInv, DataInv, WatchedAreUsable
    <3> QED BY <3>1, <3>2
  <2> QED BY <1>1, <2>1, <2>2, DataUpdate DEF IInv, Eof
<1>3. in_looping'
  BY DEF IInv, ControlInv, Looping
<1>4. /\ {cursor', nxt', peer'} \subseteq Sock \cup {NoSock} /\ in_looping' \in BOOLEAN
      /\ status' \in [Counter -> Int]
      /\ notified' \subseteq Sock /\ pc' \in Place \ {"halt", "cascade", "release"}
  BY DEF IInv, ControlInv, Place
<1>5. ControlInv'
  BY <1>1, <1>2, <1>3, <1>4, Moves
<1>6. RoomInv'
  <2> SUFFICES ASSUME NEW s \in Sock, ~Eof(s)', sk'[s].rbuf # NoBuf
               PROVE  Spare(sk'[s].rbuf) > 0
    BY DEF RoomInv
  <2>1. ~Eof(s)
    BY <1>2 DEF SameOpen
  <2>2. CASE s = cursor
    <3>1. sk'[s] = r
      BY <2>2 DEF IInv, DataInv
    <3> QED BY <2>1, <2>2, <3>1 DEF IInv, RoomInv
  <2>3. CASE s # cursor
    <3>1. sk'[s] = sk[s]
      BY <2>3 DEF IInv, DataInv
    <3> QED BY <2>1, <2>3, <3>1 DEF IInv, RoomInv
  <2> QED BY <2>2, <2>3
<1> QED BY <1>2, <1>5, <1>6 DEF IInv, EofKept, SameOpen

(* What the callback has read leaves the buffer, a full buffer is doubled, *)
(* and when that fails the socket is closed.                               *)
LEMMA ReadCbReturnsStep ==
  ASSUME IInv, NEW n \in 0..(MaxBuf + 1), ReadCbReturns(n)
  PROVE  IInv' /\ EofKept
<1> DEFINE b == AfterRead(sk[cursor].rbuf, n)
           d == Realloc(b, b.size * 2, TRUE)
<1>1. /\ pc = "read_cb" /\ pc' = "send"
      /\ UNCHANGED <<heap, socks, in_looping, cursor, nxt, peer, sel, fault, notified>>
  BY DEF ReadCbReturns
<1>2. cursor \in Listed /\ cursor \in Sock /\ IsOpen(cursor) /\ sel' \in Selected
  BY <1>1, Cursor DEF OpenSet, IInv, ControlInv
<1>3. sk[cursor] \in Socket /\ sk[cursor].rbuf \in BufferOrNone
  BY <1>2, SocketType DEF IInv, DataInv
<1>4. "WRITE_ENABLE" \in sk[cursor].state => sk[cursor].wbuf # NoBuf
  BY <1>2 DEF IInv, DataInv, BuffersOwned
<1>5. n \in Nat
  BY ZSocketAssumption
<1>6. /\ b \in BufferOrNone /\ d \in BufferOrNone
      /\ Spare(b) = 0 => d = NoBuf \/ Spare(d) > 0
  BY <1>3, <1>5, AfterReadType
<1>7. ASSUME NEW x \in {b, d}, x = NoBuf \/ Spare(x) > 0, UNCHANGED <<watch, status>>,
             sk' = [sk EXCEPT ![cursor].rbuf = x]
      PROVE  IInv' /\ EofKept
  <2> DEFINE r == [sk[cursor] EXCEPT !.rbuf = x]
  <2>1. sk' = [sk EXCEPT ![cursor] = r]
    BY <1>7, <1>2 DEF IInv, DataInv
  <2>2. x \in BufferOrNone
    BY <1>6
  <2>3. /\ r \in Socket /\ r.state = sk[cursor].state /\ r.fd = sk[cursor].fd
        /\ r.type = sk[cursor].type /\ r.rbuf = x /\ r.wbuf = sk[cursor].wbuf
    BY <1>3, <2>2, NewRbuf
  <2> HIDE DEF r, b, d
  <2>4. /\ pc \in {"read_cb", "send"} /\ pc' \in {"send", "next"}
        /\ "WRITE_ENABLE" \in r.state => r.wbuf # NoBuf
        /\ r.rbuf = NoBuf \/ Spare(r.rbuf) > 0
        /\ UNCHANGED <<heap, socks, watch, status, in_looping, cursor, nxt, peer, fault, notified>>
    BY <1>1, <1>4, <1>7, <2>3
  <2> QED BY <1>2, <2>1, <2>3, <2>4, ScanUpdates
<1>8. CASE /\ Spare(b) > 0
           /\ sk' = [sk EXCEPT ![cursor].rbuf = b]
           /\ UNCHANGED <<watch, status>>
  BY <1>7, <1>8
<1>9. CASE /\ Spare(b) = 0 /\ TRUE \in Grows(b.size * 2)
           /\ sk' = [sk EXCEPT ![cursor].rbuf = d]
           /\ UNCHANGED <<watch, status>>
  <2> HIDE DEF b, d
  <2> QED BY <1>6, <1>7, <1>9
<1>10. CASE MarkEof(cursor, [Masked(cursor, "RBUF_RUNOUT") EXCEPT !.rbuf = b], FALSE)
  <2> DEFINE q == Masked(cursor, "RBUF_RUNOUT")
             r == [q EXCEPT !.rbuf = b]
  <2>1. "RBUF_RUNOUT" \in Flag \ {"WRITE_ENABLE"}
    BY DEF Flag
  <2>2. /\ q \in Socket /\ q.fd = sk[cursor].fd /\ q.type = sk[cursor].type
        /\ "WRITE_ENABLE" \notin q.state
    BY <1>2, <2>1, MaskedSocket DEF IInv
  <2> HIDE DEF q, b
  <2>3. r \in Socket /\ r.fd = q.fd /\ r.type = q.type /\ r.state = q.state
    BY <1>6, <2>2, NewRbuf
  <2>4. MarkEof(cursor, r, FALSE)
    BY <1>10 DEF q
  <2> HIDE DEF r
  <2> QED BY <1>1, <1>2, <2>2, <2>3, <2>4, LoopCloses
<1> QED BY <1>8, <1>9, <1>10 DEF ReadCbReturns

(* A send() that fails closes the socket.                                  *)
LEMMA SendFailsStep ==
  ASSUME IInv, SendFails
  PROVE  IInv' /\ EofKept
<1> DEFINE r == Masked(cursor, "WRITE_FAILED")
<1>1. Send /\ MarkEof(cursor, r, FALSE)
  BY DEF SendFails
<1>2. /\ pc = "send" /\ cursor \in Listed /\ cursor \in Sock /\ pc' = "next" /\ sel' \in Selected
      /\ UNCHANGED <<heap, socks, in_looping, cursor, nxt, peer, fault, notified>>
  BY <1>1, SendFacts
<1>3. "WRITE_FAILED" \in Flag \ {"WRITE_ENABLE"}
  BY DEF Flag
<1>4. /\ r \in Socket /\ r.fd = sk[cursor].fd /\ r.type = sk[cursor].type
      /\ "WRITE_ENABLE" \notin r.state
  BY <1>2, <1>3, MaskedSocket DEF IInv
<1> HIDE DEF r
<1> QED BY <1>1, <1>2, <1>4, LoopCloses

(* Sending always leaves room (ConsumeLeavesRoom): the branch that closes  *)
(* the socket because its write buffer ran out is dead.                    *)
LEMMA SendDataStep ==
  ASSUME IInv, NEW n \in 1..MaxBuf, SendData(n)
  PROVE  IInv' /\ EofKept
<1> DEFINE w == sk[cursor].wbuf
           b == Collect(OffsetOutHead(w, n), {"LESS_SPARE"})
           r == [sk[cursor] EXCEPT !.wbuf = b]
<1>1. Send /\ n \in 1..Used(w)
  BY DEF SendData
<1>2. /\ pc = "send" /\ cursor \in Listed /\ cursor \in Sock /\ IsOpen(cursor)
      /\ ~Eof(cursor) /\ pc' = "next" /\ sel' \in Selected
      /\ sk[cursor] \in Socket /\ w \in Buffer
      /\ UNCHANGED <<heap, socks, in_looping, cursor, nxt, peer, fault, notified>>
  BY <1>1, SendFacts
<1>3. Spare(b) > 0
  BY <1>1, <1>2, ConsumeLeavesRoom
<1>4. b \in Buffer /\ b # NoBuf
  <2>1. n \in Nat
    BY ZSocketAssumption
  <2>2. OffsetOutHead(w, n) \in Buffer
    BY <1>2, <2>1, OffsetOutType
  <2>3. b \in Buffer
    BY <2>2, CollectType
  <2> QED BY <2>3, NoBufType
<1>5. sk' = [sk EXCEPT ![cursor].wbuf = b] /\ UNCHANGED <<watch, status>>
  BY <1>3 DEF SendData
<1>6. sk' = [sk EXCEPT ![cursor] = r]
  BY <1>2, <1>5 DEF IInv, DataInv
<1> HIDE DEF b
<1>7. b \in BufferOrNone
  BY <1>4 DEF BufferOrNone
<1>8. /\ r \in Socket /\ r.state = sk[cursor].state /\ r.fd = sk[cursor].fd
      /\ r.type = sk[cursor].type /\ r.rbuf = sk[cursor].rbuf /\ r.wbuf = b
  BY <1>2, <1>7, NewWbuf
<1> HIDE DEF r, w
<1>9. /\ pc \in {"read_cb", "send"} /\ pc' \in {"send", "next"}
      /\ "WRITE_ENABLE" \in r.state => r.wbuf # NoBuf
      /\ pc = "send" /\ r.rbuf = sk[cursor].rbuf
      /\ UNCHANGED <<heap, socks, watch, status, in_looping, cursor, nxt, peer, fault, notified>>
  BY <1>2, <1>4, <1>5, <1>8
<1> QED BY <1>2, <1>6, <1>8, <1>9, ScanUpdates

-----------------------------------------------------------------------------
(* zsocket_do_close                                                        *)

LEMMA SweepEndsStep ==
  ASSUME IInv, SweepEnds
  PROVE  IInv' /\ EofKept
<1>1. /\ pc = "sweep" /\ pc' = "app" /\ in_looping' = FALSE
      /\ UNCHANGED <<sk, heap, socks, watch, status, cursor, nxt, peer, sel, fault, notified>>
  BY DEF SweepEnds
<1>2. DataInv' /\ SameOpen
  BY <1>1, DataSame DEF IInv
<1>3. RoomInv'
  BY <1>1, <1>2, RoomKept DEF SameOpen
<1>4. /\ {cursor', nxt', peer'} \subseteq Sock \cup {NoSock} /\ status' \in [Counter -> Int]
      /\ sel' \in Selected /\ notified' \subseteq Sock
  BY <1>1 DEF IInv, ControlInv
<1>5. pc' \in Place \ {"halt", "cascade", "release"} /\ pc' \notin Looping
  BY <1>1 DEF Place, Looping
<1>6. ControlInv'
  BY <1>1, <1>2, <1>4, <1>5, Moves
<1> QED BY <1>2, <1>3, <1>6 DEF IInv, EofKept, SameOpen

(* The sweep closes a connection that was silent.                          *)
LEMMA SweepTimeoutStep ==
  ASSUME IInv, SweepTimeout
  PROVE  IInv' /\ EofKept
<1> DEFINE r == Masked(cursor, "TIMEOUT")
<1>1. /\ pc = "sweep" /\ cursor # NoSock /\ pc' = "reap" /\ MarkEof(cursor, r, FALSE)
      /\ UNCHANGED <<heap, socks, in_looping, cursor, nxt, peer, sel, fault, notified>>
  BY DEF SweepTimeout, Sweeping
<1>2. cursor \in Listed /\ cursor \in Sock /\ sel' \in Selected
  BY <1>1, Cursor DEF IInv, ControlInv
<1>3. "TIMEOUT" \in Flag \ {"WRITE_ENABLE"}
  BY DEF Flag
<1>4. /\ r \in Socket /\ r.fd = sk[cursor].fd /\ r.type = sk[cursor].type
      /\ "WRITE_ENABLE" \notin r.state
  BY <1>2, <1>3, MaskedSocket DEF IInv
<1> HIDE DEF r
<1> QED BY <1>1, <1>2, <1>4, LoopCloses

(* The sweep passes a socket, or comes to a closed one.                    *)
LEMMA SweepOthersStep ==
  ASSUME IInv, SweepOthers
  PROVE  IInv' /\ EofKept
<1>1. /\ pc = "sweep" /\ cursor # NoSock /\ UNCHANGED data /\ UNCHANGED <<nxt, peer, sel>>
      /\ \/ Eof(cursor) /\ pc' = "reap" /\ cursor' = cursor
         \/ cursor' = After(cursor) /\ pc' = "sweep"
  BY DEF SweepOthers, Sweeping
<1>2. cursor \in Listed /\ Listed \subseteq Sock /\ After(cursor) \in Listed \cup {NoSock}
  BY <1>1, Cursor
<1>3. /\ DataInv' /\ SameOpen /\ EofKept /\ RoomInv'
      /\ status' \in [Counter -> Int] /\ in_looping' \in BOOLEAN /\ notified' \subseteq Sock
      /\ in_looping' = in_looping
  BY <1>1, DataStep
<1>4. in_looping'
  BY <1>1, <1>3 DEF IInv, ControlInv, Looping
<1>5. /\ pc' \in Place \ {"halt", "cascade", "release"} /\ sel' \in Selected
      /\ {cursor', nxt', peer'} \subseteq Sock \cup {NoSock}
  BY <1>1, <1>2 DEF Place, IInv, ControlInv
<1>6. pc' = "reap" => cursor' \in Listed /\ Eof(cursor)'
  BY <1>1, <1>2 DEF Eof, data
<1>7. ControlInv'
  BY <1>1, <1>2, <1>3, <1>4, <1>5, <1>6, Moves
<1> QED BY <1>3, <1>7 DEF IInv

(* list_del leaves the cursor on a socket that is off the list, and the    *)
(* next one on the list.                                                   *)
LEMMA ReapStep ==
  ASSUME IInv, Reap
  PROVE  IInv' /\ EofKept
<1>1. /\ pc = "reap" /\ pc' \in {"cascade", "release"} /\ socks' = Without(cursor)
      /\ nxt' = IF in_looping THEN After(cursor) ELSE NoSock
      /\ pc' = "cascade" => peer' = First(socks')
      /\ pc' = "release" => peer' = peer
      /\ UNCHANGED <<sk, heap, watch, status, in_looping, cursor, sel, fault, notified>>
  BY DEF Reap
<1>2. /\ cursor \in Listed /\ Listed = OpenSet /\ Listed \subseteq Sock
      /\ After(cursor) \in (Listed \ {cursor}) \cup {NoSock}
  BY <1>1, Cursor
<1>3. /\ DataInv' /\ OpenSet' = OpenSet /\ Listed' = Listed \ {cursor}
      /\ \A u \in Sock : Eof(u) => Eof(u)'
  BY <1>1, <1>2, DataDelete DEF IInv
<1>4. Releasing' = {cursor}
  BY <1>1 DEF Releasing
<1>5. nxt' \in Listed' \cup {NoSock}
  BY <1>1, <1>2, <1>3
<1>6. pc' = "cascade" => peer' \in Listed' \cup {NoSock}
  BY <1>1, <1>3, FirstListed DEF DataInv, Listed
<1>7. TraversalSafe'
  BY <1>1, <1>5, <1>6 DEF TraversalSafe
<1>8. /\ {cursor', nxt', peer'} \subseteq Sock \cup {NoSock} /\ pc' \in Place
      /\ status' \in [Counter -> Int] /\ in_looping' \in BOOLEAN
      /\ sel' \in Selected /\ notified' \subseteq Sock /\ pc' \notin Looping
  BY <1>1, <1>2, <1>3, <1>5, <1>6 DEF Place, Looping, IInv, ControlInv
<1>9. cursor' \in OpenSet' /\ Eof(cursor)'
  <2>1. Eof(cursor)
    BY <1>1 DEF IInv, ControlInv
  <2> QED BY <1>1, <1>2, <1>3, <2>1 DEF Eof
<1>10. Listed' = OpenSet' \ Releasing'
  BY <1>2, <1>3, <1>4
<1>11. ControlInv'
  BY <1>7, <1>8, <1>9, <1>10 DEF ControlInv
<1>12. RoomInv'
  BY <1>1, <1>3, RoomKept
<1> QED BY <1>3, <1>11, <1>12 DEF IInv, EofKept

(* The loop of a closing server over the others.                           *)
LEMMA Cascades ==
  ASSUME IInv, SameOpen, pc = "cascade", pc' \in {"cascade", "release"},
         cursor' = cursor, nxt' = nxt, peer' \in Listed \cup {NoSock},
         in_looping' = in_looping, status' \in [Counter -> Int],
         sel' \in Selected, notified' \subseteq Sock
  PROVE  ControlInv'
<1>1. Releasing' = Releasing
  BY DEF Releasing
<1>2. Listed' = OpenSet' \ Releasing'
  BY <1>1 DEF IInv, ControlInv, SameOpen
<1>3. TraversalSafe'
  BY DEF IInv, ControlInv, SameOpen, TraversalSafe
<1>4. cursor' \in OpenSet' /\ Eof(cursor)'
  <2>1. cursor \in OpenSet /\ Eof(cursor) /\ cursor \in Sock
    BY DEF IInv, ControlInv, OpenSet
  <2> QED BY <2>1 DEF SameOpen, Eof
<1>5. /\ pc' \in Place /\ {cursor', nxt', peer'} \subseteq Sock \cup {NoSock}
      /\ pc' \notin Looping
  BY Cursor DEF IInv, ControlInv, Place, Looping
<1>6. in_looping' \in BOOLEAN
  BY DEF IInv, ControlInv
<1> QED BY <1>2, <1>3, <1>4, <1>5, <1>6 DEF ControlInv

(* A closing server passes a socket with another port.                     *)
LEMMA CascadeMovesStep ==
  ASSUME IInv, CascadeMoves
  PROVE  IInv' /\ EofKept
<1>1. /\ pc = "cascade" /\ pc' \in {"cascade", "release"}
      /\ UNCHANGED data /\ UNCHANGED <<cursor, nxt, sel>>
      /\ \/ peer = NoSock /\ peer' = peer
         \/ peer # NoSock /\ peer' = After(peer)
  BY DEF CascadeMoves
<1>2. peer' \in Listed \cup {NoSock}
  BY <1>1, Cursor DEF IInv, ControlInv, TraversalSafe
<1>3. /\ DataInv' /\ SameOpen /\ EofKept /\ RoomInv'
      /\ status' \in [Counter -> Int] /\ notified' \subseteq Sock /\ in_looping' = in_looping
  BY <1>1, DataStep
<1>4. sel' \in Selected
  BY <1>1 DEF IInv, ControlInv
<1>5. ControlInv'
  BY <1>1, <1>2, <1>3, <1>4, Cascades
<1> QED BY <1>3, <1>5 DEF IInv

(* A closing server closes a socket with its port.                         *)
LEMMA CascadeClosesStep ==
  ASSUME IInv, CascadeCloses
  PROVE  IInv' /\ EofKept
<1>1. /\ pc = "cascade" /\ pc' = pc /\ peer # NoSock
      /\ MarkEof(peer, sk[peer], FALSE) /\ peer' = After(peer)
      /\ UNCHANGED <<heap, socks, in_looping, cursor, nxt, sel, fault, notified>>
  BY DEF CascadeCloses, SamePort
<1>2. peer \in Listed /\ After(peer) \in Listed \cup {NoSock}
  BY <1>1, Cursor DEF IInv, ControlInv, TraversalSafe
<1>3. peer \in Sock /\ IsOpen(peer)
  BY <1>1, <1>2 DEF IInv, ControlInv, OpenSet
<1>4. /\ sk[peer] \in Socket /\ sk[peer].type \in Type \ {"none"}
      /\ "WRITE_ENABLE" \in sk[peer].state => sk[peer].wbuf # NoBuf
  BY <1>3, OpenFd, SocketType DEF IInv, DataInv, BuffersOwned
<1>5. DataInv' /\ SameOpen /\ "EOF" \in sk'[peer].state
  <2>1. FALSE \in BOOLEAN
    OBVIOUS
  <2> QED BY <1>1, <1>3, <1>4, <2>1, DataClose DEF IInv, Eof
<1>6. status' \in [Counter -> Int]
  BY <1>1, <1>4, StatusType DEF MarkEof, IInv, ControlInv
<1>7. sel' \in Selected /\ notified' \subseteq Sock
  BY <1>1 DEF IInv, ControlInv
<1>8. ControlInv'
  BY <1>1, <1>2, <1>5, <1>6, <1>7, Cascades
<1>9. RoomInv'
  <2> SUFFICES ASSUME NEW s \in Sock, ~Eof(s)', sk'[s].rbuf # NoBuf
               PROVE  Spare(sk'[s].rbuf) > 0
    BY DEF RoomInv
  <2>1. CASE s = peer
    BY <1>5, <2>1 DEF Eof
  <2>2. CASE s # peer
    <3>1. sk'[s] = sk[s] /\ ~Eof(s)
      BY <1>1, <1>5, <2>2 DEF IInv, DataInv, SameOpen, MarkEof
    <3> QED BY <1>1, <3>1 DEF IInv, RoomInv
  <2> QED BY <2>1, <2>2
<1> QED BY <1>5, <1>8, <1>9 DEF IInv, EofKept, SameOpen

(* An assertion of zsocket_close or __zsocket_close fails.                 *)
LEMMA CascadeAbortsStep ==
  ASSUME IInv, CascadeAborts
  PROVE  IInv' /\ EofKept
BY Halts DEF CascadeAborts

(* Releasing the socket that was taken off the list makes the list and the *)
(* open sockets agree again.                                               *)
LEMMA ReleaseStep ==
  ASSUME IInv, Release
  PROVE  IInv' /\ EofKept
<1> DEFINE freed == in_looping /\ sk[cursor].type = "connection"
           r == IF freed THEN Fresh ELSE Released(sk[cursor])
<1>1. /\ pc = "release" /\ sk' = [sk EXCEPT ![cursor] = r]
      /\ heap' = IF freed THEN heap \ {cursor} ELSE heap
      /\ notified' \in {notified \cup {cursor}, notified}
      /\ pc' = IF in_looping THEN "sweep" ELSE "app"
      /\ cursor' = nxt /\ nxt' = NoSock
      /\ UNCHANGED <<socks, watch, status, in_looping, peer, sel, fault>>
  BY DEF Release
<1>2. /\ cursor \in OpenSet /\ Eof(cursor) /\ Listed = OpenSet \ {cursor}
      /\ nxt \in Listed \cup {NoSock}
  BY <1>1 DEF IInv, ControlInv, TraversalSafe, Releasing
<1>3. /\ cursor \in Sock /\ IsOpen(cursor) /\ cursor \notin Listed
      /\ sk[cursor].type # "none"
  BY <1>2, OpenFd DEF OpenSet, IInv
<1>4. /\ r \in {Fresh, Released(sk[cursor])}
      /\ heap' \subseteq heap /\ heap \subseteq heap' \cup {cursor}
  BY <1>1
<1> HIDE DEF r
<1>5. /\ DataInv' /\ OpenSet' = OpenSet \ {cursor} /\ Listed' = Listed
      /\ \A u \in Sock : Eof(u) => Eof(u)' \/ sk'[u] = Fresh
      /\ sk'[cursor].rbuf = NoBuf /\ \A u \in Sock \ {cursor} : sk'[u] = sk[u]
  BY <1>1, <1>2, <1>3, <1>4, DataReset DEF IInv
<1>6. Releasing' = {} /\ Listed' = OpenSet' \ Releasing'
  BY <1>1, <1>2, <1>5 DEF Releasing
<1>7. in_looping \in BOOLEAN
  BY DEF IInv, ControlInv
<1>8. TraversalSafe'
  BY <1>1, <1>2, <1>5, <1>7 DEF TraversalSafe
<1>9. pc' \in Looping => in_looping'
  BY <1>1, <1>7 DEF Looping
<1>10. /\ {cursor', nxt', peer'} \subseteq Sock \cup {NoSock} /\ pc' \in Place
       /\ status' \in [Counter -> Int] /\ in_looping' \in BOOLEAN
       /\ sel' \in Selected /\ notified' \subseteq Sock
       /\ ~(pc' \in {"reap", "cascade", "release"})
  BY <1>1, <1>3, <1>7 DEF Place, IInv, ControlInv
<1>11. ControlInv'
  BY <1>6, <1>8, <1>9, <1>10 DEF ControlInv
<1>12. RoomInv'
  <2>1. Fresh.rbuf = NoBuf
    BY DEF Fresh
  <2>2. \A u \in Sock : /\ (Eof(u) => Eof(u)') \/ sk'[u].rbuf = NoBuf
                        /\ sk'[u].rbuf \in {sk[u].rbuf, NoBuf}
    BY <1>5, <2>1
  <2> QED BY <1>1, <2>2, RoomKept
<1> QED BY <1>5, <1>11, <1>12 DEF IInv, EofKept

-----------------------------------------------------------------------------
(* IInv is an invariant.                                                   *)

LEMMA Initially == Init => IInv
<1> SUFFICES ASSUME Init PROVE IInv
  OBVIOUS
<1>1. /\ sk = [s \in Sock |-> Fresh] /\ heap = {} /\ socks = <<>>
      /\ watch = [read |-> {}, nread |-> 0, write |-> {}, nwrite |-> 0]
      /\ status = [c \in Counter |-> 0] /\ in_looping = FALSE
      /\ pc = "app" /\ cursor = NoSock /\ nxt = NoSock /\ peer = NoSock
      /\ sel = [read |-> {}, write |-> {}, left |-> 0, handled |-> FALSE]
      /\ notified = {}
  BY DEF Init
<1>2. /\ socks \in Seq(Sock) /\ Listed = {} /\ IsInjective(socks)
  BY <1>1 DEF Listed, ToSet, IsInjective
<1>3. /\ Fresh.fd = NoFd /\ Fresh.state = {} /\ Fresh.rbuf = NoBuf /\ Fresh.wbuf = NoBuf
  BY DEF Fresh
<1>4. OpenSet = {}
  BY <1>1, <1>3 DEF OpenSet, IsOpen
<1>5. watch \in Watch /\ NfdsCovers
  BY <1>1 DEF Watch, NfdsCovers
<1>6. WatchedAreUsable /\ BuffersOwned /\ NoneIsFresh
  BY <1>1, <1>3 DEF WatchedAreUsable, BuffersOwned, NoneIsFresh, IsOpen
<1>7. DataInv
  BY <1>1, <1>2, <1>5, <1>6, FreshType DEF DataInv
<1>8. sel \in Selected
  BY <1>1 DEF Selected
<1>9. ControlInv
  <2>1. TraversalSafe
    BY <1>1 DEF TraversalSafe
  <2>2. Listed = OpenSet \ Releasing
    BY <1>2, <1>4
  <2>3. pc \in Place /\ pc \notin Looping /\ pc \notin {"reap", "cascade", "release"}
    BY <1>1 DEF Place, Looping
  <2>4. status \in [Counter -> Int]
    BY <1>1
  <2>5. in_looping \in BOOLEAN
    BY <1>1
  <2> QED BY <1>1, <1>8, <2>1, <2>2, <2>3, <2>4, <2>5 DEF ControlInv
<1>10. RoomInv
  BY <1>1, <1>3 DEF RoomInv
<1> QED BY <1>7, <1>9, <1>10 DEF IInv

(* Every call of the interface keeps the invariant.                        *)
LEMMA AppCallStep ==
  ASSUME IInv, AppCall
  PROVE  IInv' /\ EofKept
<1>1. CASE \E s \in User : Reinit(s)
  BY <1>1, ReinitStep
<1>2. CASE \E s \in User, f \in Fd : Connect(s, f)
  BY <1>2, ConnectStep
<1>3. CASE \E s \in User, f \in Fd, p \in Port : ListenOn(s, f, p)
  BY <1>3, ListenOnStep
<1>4. CASE \E c \in Heap, f \in Fd : Accept(c, f)
  BY <1>4, AcceptStep
<1>5. CASE AcceptFails
  BY <1>5, AcceptFailsStep
<1>6. CASE \E s \in Sock : ReadStart(s)
  BY <1>6, ReadStartStep
<1>7. CASE \E s \in Sock : ReadStop(s)
  BY <1>7, ReadStopStep
<1>8. CASE \E s \in Sock, n \in 1..MaxWrite : FirstWrite(s, n)
  BY <1>8, FirstWriteStep
<1>9. CASE \E s \in Sock, n \in 1..MaxWrite : NextWrite(s, n)
  BY <1>9, NextWriteStep
<1>10. CASE \E s \in Sock, cb \in CloseCb : Close(s, cb)
  BY <1>10, CloseStep
<1>11. CASE \E c \in Heap : DisableTimeout(c)
  BY <1>11, DisableTimeoutStep
<1> QED BY <1>1, <1>2, <1>3, <1>4, <1>5, <1>6, <1>7, <1>8, <1>9, <1>10, <1>11 DEF AppCall

(* Every way to enter zsocket_loop keeps it.                               *)
LEMMA CallLoopStep ==
  ASSUME IInv, CallLoop
  PROVE  IInv' /\ EofKept
<1>1. CASE \E R \in SUBSET Below(watch.read), W \in SUBSET Below(watch.write),
              late \in SUBSET Silent : SelectReady(R, W, late)
  BY <1>1, SelectReadyStep
<1>2. CASE \E late \in SUBSET Silent : SelectNothing(late)
  BY <1>2, SelectNothingStep
<1>3. CASE SelectFails
  BY <1>3, SelectFailsStep
<1> QED BY <1>1, <1>2, <1>3 DEF CallLoop

(* Every return of a callback keeps it.                                    *)
LEMMA CallbackStep ==
  ASSUME IInv, CallbackReturns
  PROVE  IInv' /\ EofKept
BY ConnCbReturnsStep, ReadCbReturnsStep DEF CallbackReturns

(* Every point of zsocket_poll keeps it.                                   *)
LEMMA PollStep ==
  ASSUME IInv, Poll
  PROVE  IInv' /\ EofKept
<1>1. CASE \E n \in -1..MaxBuf : RecvData(n)
  BY <1>1, RecvDataStep
<1>2. CASE \E n \in 1..MaxBuf : SendData(n)
  BY <1>2, SendDataStep
<1> QED BY <1>1, <1>2, ScanEndsStep, NotReadableStep, RecvAbortsStep, RecvServerStep,
           RecvNoBufferStep, NotWritableStep, SendAbortsStep, SendNothingStep,
           SendFailsStep, NextSocketStep DEF Poll

(* Every point of zsocket_do_close keeps it.                               *)
LEMMA SweepStep ==
  ASSUME IInv, Sweep
  PROVE  IInv' /\ EofKept
BY SweepEndsStep, SweepTimeoutStep, SweepOthersStep, ReapStep, CascadeMovesStep,
   CascadeClosesStep, CascadeAbortsStep, ReleaseStep DEF Sweep

(* Each step keeps the invariant and lets no closed socket come to life.   *)
LEMMA EveryStep ==
  ASSUME IInv, [Next]_vars
  PROVE  IInv' /\ [\A s \in Sock : Eof(s) => Eof(s)' \/ sk'[s] = Fresh]_vars
<1>1. CASE Next
  <2>1. IInv' /\ EofKept
    BY <1>1, AppCallStep, CallLoopStep, CallbackStep, PollStep, SweepStep DEF Next
  <2> QED BY <2>1 DEF EofKept
<1>2. CASE UNCHANGED vars
  <2>1. /\ UNCHANGED <<sk, heap, socks, watch, status, in_looping, pc, cursor, nxt, peer,
                       sel, fault, notified>>
    BY <1>2 DEF vars
  <2>2. DataInv' /\ SameOpen
    BY <2>1, DataSame DEF IInv
  <2>3. ControlInv'
    BY <2>1, <2>2, Stays DEF IInv, ControlInv
  <2>4. RoomInv'
    BY <2>1 DEF IInv, RoomInv, Eof
  <2> QED BY <1>2, <2>2, <2>3, <2>4 DEF IInv
<1> QED BY <1>1, <1>2

-----------------------------------------------------------------------------
(* The order of the list.                                                  *)

(* The sockets of the list from s on.                                      *)
Rest(s) == {t \in Listed : s \in Listed /\ Index(s) <= Index(t)}

(* No socket is listed twice.                                              *)
GoodList == socks \in Seq(Sock) /\ IsInjective(socks)

(* An element of a list without repetition is at one place.                *)
LEMMA PlaceIs ==
  ASSUME NEW list \in Seq(Sock), IsInjective(list), NEW i \in DOMAIN list
  PROVE  (CHOOSE j \in DOMAIN list : list[j] = list[i]) = i
<1> DEFINE k == CHOOSE j \in DOMAIN list : list[j] = list[i]
<1>1. k \in DOMAIN list /\ list[k] = list[i]
  OBVIOUS
<1> HIDE DEF k
<1>2. k = i
  BY <1>1 DEF IsInjective
<1> QED BY <1>2 DEF k

(* The place of the socket at place i is i.                                *)
LEMMA IndexIs ==
  ASSUME GoodList, NEW i \in DOMAIN socks
  PROVE  socks[i] \in Listed /\ Index(socks[i]) = i
BY PlaceIs DEF GoodList, Listed, ToSet, Index

(* The same of the list that a step leaves.                                *)
LEMMA NextIndexIs ==
  ASSUME GoodList', NEW i \in DOMAIN socks', NEW s, socks'[i] = s
  PROVE  Index(s)' = i
BY PlaceIs DEF GoodList, Index

(* The places are numbers, and no two sockets share one.                   *)
LEMMA IndexFacts ==
  ASSUME GoodList
  PROVE  /\ Len(socks) \in Nat /\ DOMAIN socks = 1..Len(socks) /\ Listed \subseteq Sock
         /\ \A s \in Listed : Index(s) \in 1..Len(socks) /\ socks[Index(s)] = s
         /\ \A s, t \in Listed : Index(s) = Index(t) => s = t
<1>1. Len(socks) \in Nat /\ DOMAIN socks = 1..Len(socks)
  BY DEF GoodList
<1>2. \A s \in Listed : Index(s) \in DOMAIN socks /\ socks[Index(s)] = s
  BY IndexListed
<1>3. Listed \subseteq Sock
  BY <1>1 DEF GoodList, Listed, ToSet
<1> QED BY <1>1, <1>2, <1>3

(* The rest of the list from a socket on holds it and what follows; the    *)
(* rests are ordered.                                                      *)
LEMMA RestSelf ==
  ASSUME GoodList
  PROVE  /\ \A s \in Listed : s \in Rest(s)
         /\ \A s : Rest(s) \subseteq Listed
         /\ \A s : s \notin Listed => Rest(s) = {}
         /\ \A s, t, u : t \in Rest(s) /\ u \in Rest(t) => u \in Rest(s)
         /\ \A s, t : t \in Rest(s) /\ s \in Rest(t) => s = t
         /\ \A s, t \in Listed : t \in Rest(s) \/ s \in Rest(t)
<1>1. \A s \in Listed : Index(s) \in Int
  BY IndexFacts
<1> QED BY <1>1, IndexFacts DEF Rest

(* From the first socket on, the rest is the whole list.                   *)
LEMMA RestFirst ==
  ASSUME GoodList
  PROVE  Rest(First(socks)) = Listed
<1>1. CASE socks = <<>>
  BY <1>1 DEF Rest, Listed, ToSet
<1>2. CASE socks # <<>>
  <2>1. 1 \in DOMAIN socks /\ First(socks) = socks[1]
    BY <1>2, IndexFacts DEF First, GoodList
  <2>2. First(socks) \in Listed /\ Index(First(socks)) = 1
    BY <2>1, IndexIs
  <2> QED BY <2>2, IndexFacts DEF Rest
<1> QED BY <1>1, <1>2

(* The same of the list that a step leaves.                                *)
LEMMA NextRestFirst ==
  ASSUME GoodList'
  PROVE  Rest(First(socks))' = Listed'
<1>1. Len(socks') \in Nat /\ DOMAIN socks' = 1..Len(socks')
  BY DEF GoodList
<1>2. \A s \in Listed' : \E i \in DOMAIN socks' : socks'[i] = s
  BY DEF Listed, ToSet
<1>3. \A s \in Listed' : Index(s)' \in DOMAIN socks'
  BY <1>2, NextIndexIs
<1>4. CASE socks' = <<>>
  BY <1>4 DEF Rest, Listed, ToSet
<1>5. CASE socks' # <<>>
  <2>1. PICK s : s = First(socks')
    OBVIOUS
  <2>2. 1 \in DOMAIN socks' /\ s = socks'[1]
    BY <1>1, <1>5, <2>1 DEF First, GoodList
  <2>3. s \in Listed'
    BY <2>2 DEF Listed, ToSet
  <2>4. Index(s)' = 1
    BY <2>2, NextIndexIs
  <2>5. Rest(s)' = Listed'
    BY <1>1, <1>3, <2>3, <2>4 DEF Rest
  <2> QED BY <2>1, <2>5
<1> QED BY <1>4, <1>5

(* The rest from a socket on is this socket and the rest after it.         *)
LEMMA RestAfter ==
  ASSUME GoodList, NEW s \in Listed, NoSock \notin Sock
  PROVE  /\ Rest(s) = {s} \cup Rest(After(s))
         /\ s \notin Rest(After(s))
         /\ After(s) # s
         /\ After(s) # NoSock => After(s) \in Rest(s)
<1>1. /\ Index(s) \in 1..Len(socks) /\ Len(socks) \in Nat /\ DOMAIN socks = 1..Len(socks)
      /\ socks[Index(s)] = s
  BY IndexFacts
<1>2. CASE Index(s) = Len(socks)
  <2>1. After(s) = NoSock /\ NoSock \notin Listed
    BY <1>2, IndexFacts DEF After
  <2>2. Rest(After(s)) = {}
    BY <2>1 DEF Rest
  <2>3. Rest(s) = {s}
    BY <1>1, <1>2, IndexFacts DEF Rest
  <2> QED BY <2>1, <2>2, <2>3, IndexFacts
<1>3. CASE Index(s) # Len(socks)
  <2>1. Index(s) + 1 \in DOMAIN socks /\ After(s) = socks[Index(s) + 1]
    BY <1>1, <1>3 DEF After
  <2>2. After(s) \in Listed /\ Index(After(s)) = Index(s) + 1
    BY <2>1, IndexIs
  <2> HIDE DEF After
  <2> QED BY <1>1, <2>2, IndexFacts DEF Rest
<1> QED BY <1>2, <1>3

(* What list_add leaves at the places behind the new socket.               *)
LEMMA RestAdd ==
  ASSUME GoodList, NEW s \in Sock, s \notin Listed, socks' = <<s>> \o socks
  PROVE  /\ GoodList' /\ Listed' = Listed \cup {s}
         /\ \A t \in Listed : Rest(t)' = Rest(t)
         /\ Rest(s)' = Listed'
<1>1. GoodList' /\ Listed' = Listed \cup {s}
  BY AddEffect DEF GoodList, Listed
<1>2. <<s>> \in Seq(Sock) /\ Len(<<s>>) = 1 /\ <<s>>[1] = s
  OBVIOUS
<1>3. /\ Len(socks') = Len(socks) + 1
      /\ socks'[1] = s
      /\ \A i \in 1..Len(socks) : socks'[i + 1] = socks[i]
  BY <1>2, ConcatProperties DEF GoodList
<1>4. Len(socks) \in Nat /\ DOMAIN socks' = 1..(Len(socks) + 1)
  BY <1>1, <1>3, IndexFacts DEF GoodList
<1>5. Index(s)' = 1
  <2>1. 1 \in DOMAIN socks'
    BY <1>4
  <2> QED BY <1>1, <1>3, <2>1, NextIndexIs
<1>6. ASSUME NEW t \in Listed
      PROVE  Index(t)' = Index(t) + 1
  <2>1. Index(t) \in 1..Len(socks) /\ socks[Index(t)] = t
    BY IndexFacts
  <2>2. Index(t) + 1 \in DOMAIN socks' /\ socks'[Index(t) + 1] = t
    BY <1>3, <1>4, <2>1
  <2> QED BY <1>1, <2>2, NextIndexIs
<1>7. \A t \in Listed : Index(t) \in Int /\ Index(t) > 0
  BY IndexFacts
<1>8. \A t \in Listed : Rest(t)' = Rest(t)
  BY <1>1, <1>5, <1>6, <1>7 DEF Rest
<1>9. Rest(s)' = Listed'
  BY <1>1, <1>5, <1>6, <1>7 DEF Rest
<1> QED BY <1>1, <1>8, <1>9

(* A part of the list.                                                     *)
LEMMA PartOf ==
  ASSUME NEW list, NEW m \in Int, NEW n \in Int, \A j \in m..n : list[j] \in Sock
  PROVE  /\ SubSeq(list, m, n) \in Seq(Sock)
         /\ Len(SubSeq(list, m, n)) = IF m <= n THEN n - m + 1 ELSE 0
         /\ \A j \in 1..(n - m + 1) : SubSeq(list, m, n)[j] = list[m + j - 1]
BY SubSeqProperties

(* The elements of the list without c.                                     *)
LEMMA WithoutElements ==
  ASSUME GoodList, NEW c \in Listed
  PROVE  /\ DOMAIN Without(c) = 1..(Len(socks) - 1)
         /\ \A j \in 1..(Index(c) - 1) : Without(c)[j] = socks[j]
         /\ \A j \in Index(c)..(Len(socks) - 1) : Without(c)[j] = socks[j + 1]
<1> DEFINE i == Index(c)
           n == Len(socks)
           new == Without(c)
<1>0. socks \in Seq(Sock)
  BY DEF GoodList
<1>1. /\ i \in 1..n /\ socks[i] = c /\ n \in Nat /\ DOMAIN socks = 1..n
  BY <1>0, IndexListed
<1>2. new = SubSeq(socks, 1, i - 1) \o SubSeq(socks, i + 1, n)
  BY DEF Without, RemoveAt
<1>3. /\ SubSeq(socks, 1, i - 1) \in Seq(Sock)
      /\ Len(SubSeq(socks, 1, i - 1)) = i - 1
      /\ \A j \in 1..(i - 1) : SubSeq(socks, 1, i - 1)[j] = socks[j]
  <2>1. \A j \in 1..(i - 1) : socks[j] \in Sock
    BY <1>0, <1>1
  <2>2. i - 1 \in Nat
    BY <1>1
  <2>3. CASE 1 <= i - 1
    <3>1. \A j \in 1..(i - 1) : j \in 1..n
      BY <1>1
    <3> QED BY <1>1, <2>1, <2>2, <2>3, <3>1, SubSeqProperties
  <2>4. CASE ~(1 <= i - 1)
    BY <1>1, <2>2, <2>4, SubSeqProperties
  <2> QED BY <2>3, <2>4
<1>4. /\ SubSeq(socks, i + 1, n) \in Seq(Sock)
      /\ Len(SubSeq(socks, i + 1, n)) = n - i
      /\ \A j \in 1..(n - i) : SubSeq(socks, i + 1, n)[j] = socks[i + j]
  <2>1. \A j \in (i + 1)..n : socks[j] \in Sock
    BY <1>0, <1>1
  <2>2. /\ SubSeq(socks, i + 1, n) \in Seq(Sock)
        /\ Len(SubSeq(socks, i + 1, n)) = IF i + 1 <= n THEN n - (i + 1) + 1 ELSE 0
        /\ \A j \in 1..(n - (i + 1) + 1) : SubSeq(socks, i + 1, n)[j] = socks[(i + 1) + j - 1]
    <3> DEFINE m == i + 1
    <3>1. m \in Int /\ n \in Int /\ \A j \in m..n : socks[j] \in Sock
      BY <1>1, <2>1
    <3> HIDE DEF m, i, n, new
    <3>2. /\ SubSeq(socks, m, n) \in Seq(Sock)
          /\ Len(SubSeq(socks, m, n)) = IF m <= n THEN n - m + 1 ELSE 0
          /\ \A j \in 1..(n - m + 1) : SubSeq(socks, m, n)[j] = socks[m + j - 1]
      BY <3>1, PartOf
    <3> QED BY <3>2 DEF m
  <2> DEFINE back == SubSeq(socks, i + 1, n)
  <2>3. i \in Nat /\ n \in Nat /\ i <= n
    BY <1>1
  <2> HIDE DEF back, i, n, new
  <2>4. Len(back) = n - i
    <3>1. Len(back) = IF i + 1 <= n THEN n - (i + 1) + 1 ELSE 0
      BY <2>2 DEF back
    <3> QED BY <2>3, <3>1
  <2>5. ASSUME NEW j \in 1..(n - i)
        PROVE  back[j] = socks[i + j]
    <3>1. j \in 1..(n - (i + 1) + 1) /\ (i + 1) + j - 1 = i + j
      BY <2>3
    <3>2. back[j] = socks[(i + 1) + j - 1]
      BY <2>2, <3>1 DEF back
    <3> QED BY <3>1, <3>2
  <2> QED BY <2>2, <2>4, <2>5 DEF back
<1>5. /\ new \in Seq(Sock) /\ DOMAIN new = 1..(n - 1)
      /\ \A j \in 1..(i - 1) : new[j] = socks[j]
      /\ \A j \in i..(n - 1) : new[j] = socks[j + 1]
  <2> DEFINE front == SubSeq(socks, 1, i - 1)
             back == SubSeq(socks, i + 1, n)
  <2>1. front \in Seq(Sock) /\ Len(front) = i - 1 /\ back \in Seq(Sock) /\ Len(back) = n - i
    BY <1>3, <1>4
  <2>2. /\ new \in Seq(Sock) /\ Len(new) = Len(front) + Len(back)
        /\ \A j \in 1..Len(front) : new[j] = front[j]
        /\ \A j \in 1..Len(back) : new[Len(front) + j] = back[j]
    <3>1. new = front \o back
      BY <1>2
    <3> HIDE DEF front, back, new, i, n
    <3>2. /\ new \in Seq(Sock) /\ Len(new) = Len(front) + Len(back)
          /\ \A j \in 1..(Len(front) + Len(back)) :
               new[j] = IF j <= Len(front) THEN front[j] ELSE back[j - Len(front)]
      BY <2>1, <3>1, ConcatProperties
    <3>3. Len(front) \in Nat /\ Len(back) \in Nat
      BY <2>1, LenProperties
    <3>4. \A j \in 1..Len(front) : new[j] = front[j]
      BY <3>2, <3>3
    <3>5. \A j \in 1..Len(back) : new[Len(front) + j] = back[j]
      <4> TAKE j \in 1..Len(back)
      <4>1. /\ Len(front) + j \in 1..(Len(front) + Len(back))
            /\ ~(Len(front) + j <= Len(front)) /\ (Len(front) + j) - Len(front) = j
        BY <3>3
      <4> QED BY <3>2, <4>1
    <3> QED BY <3>2, <3>4, <3>5
  <2>3. \A j \in i..(n - 1) : j - i + 1 \in 1..(n - i) /\ (i - 1) + (j - i + 1) = j
                               /\ i + (j - i + 1) = j + 1
    BY <1>1
  <2>4. \A j \in i..(n - 1) : new[j] = back[j - i + 1]
    <3> HIDE DEF front, back, new
    <3> TAKE j \in i..(n - 1)
    <3>1. new[Len(front) + (j - i + 1)] = back[j - i + 1]
      BY <2>1, <2>2, <2>3
    <3> QED BY <2>1, <2>3, <3>1
  <2>5. \A j \in i..(n - 1) : new[j] = socks[j + 1]
    <3> TAKE j \in i..(n - 1)
    <3>1. back[j - i + 1] = socks[i + (j - i + 1)]
      BY <1>4, <2>3
    <3> QED BY <2>3, <2>4, <3>1
  <2> QED BY <1>0, <1>1, <1>3, <2>1, <2>2, <2>5
<1> QED BY <1>5

(* What list_del leaves of the places.                                     *)
LEMMA RestWithout ==
  ASSUME GoodList, NEW c \in Listed, socks' = Without(c)
  PROVE  /\ GoodList' /\ Listed' = Listed \ {c}
         /\ \A t \in Listed \ {c} : Rest(t)' = Rest(t) \ {c}
<1>1. GoodList' /\ Listed' = Listed \ {c}
  BY WithoutEffect DEF GoodList, Listed
<1>2. /\ DOMAIN socks' = 1..(Len(socks) - 1)
      /\ \A j \in 1..(Index(c) - 1) : socks'[j] = socks[j]
      /\ \A j \in Index(c)..(Len(socks) - 1) : socks'[j] = socks[j + 1]
  BY WithoutElements
<1>3. Len(socks) \in Nat /\ Index(c) \in 1..Len(socks)
  BY IndexFacts
<1>4. ASSUME NEW t \in Listed \ {c}
      PROVE  Index(t)' = IF Index(t) < Index(c) THEN Index(t) ELSE Index(t) - 1
  <2>1. Index(t) \in 1..Len(socks) /\ socks[Index(t)] = t /\ Index(t) # Index(c)
    BY IndexFacts
  <2>2. CASE Index(t) < Index(c)
    <3>1. Index(t) \in DOMAIN socks' /\ socks'[Index(t)] = t
      BY <1>2, <1>3, <2>1, <2>2
    <3> QED BY <1>1, <2>2, <3>1, NextIndexIs
  <2>3. CASE ~(Index(t) < Index(c))
    <3>1. /\ Index(t) - 1 \in Index(c)..(Len(socks) - 1) /\ (Index(t) - 1) + 1 = Index(t)
          /\ Index(t) - 1 \in 1..(Len(socks) - 1)
      <4> DEFINE x == Index(t)
                 y == Index(c)
                 z == Len(socks)
      <4>1. x \in 1..z /\ y \in 1..z /\ z \in Nat /\ x # y /\ ~(x < y)
        BY <1>3, <2>1, <2>3
      <4> HIDE DEF x, y, z
      <4> QED BY <4>1 DEF x, y, z
    <3>2. socks'[Index(t) - 1] = t
      BY <1>2, <2>1, <3>1
    <3>3. Index(t) - 1 \in DOMAIN socks'
      BY <1>2, <3>1
    <3>4. Index(t)' = Index(t) - 1
      BY <1>1, <3>2, <3>3, NextIndexIs
    <3> QED BY <2>3, <3>4
  <2> QED BY <2>2, <2>3
<1>5. /\ \A t \in Listed : Index(t) \in Int
      /\ \A t \in Listed \ {c} : Index(t) # Index(c)
  BY IndexFacts
<1> QED BY <1>1, <1>3, <1>4, <1>5 DEF Rest

-----------------------------------------------------------------------------
(* The kinds of steps: what a step does to the sockets.                    *)

Alike(s) == sk'[s].fd = sk[s].fd /\ sk'[s].type = sk[s].type /\ sk'[s].port = sk[s].port

(* The socket is closed by the step, or was.                               *)
NextEof(s) == "EOF" \in sk'[s].state

(* The step leaves the other sockets alone.                                *)
OthersSame(s) == \A t \in Sock \ {s} : sk'[t] = sk[t]

(* A tick only changes when time passes, and is set by data or by 0.       *)
TickKept(s) ==
  sk[s].tick = "fresh" => sk'[s].tick = "fresh" \/ "idle" \in Env \/ "no_timeout" \in Env

(* No socket is opened, closed or released.                                *)
Keeps ==
  /\ \A s \in Sock : Alike(s) /\ TickKept(s) /\ (Eof(s) <=> NextEof(s))
                     /\ (sk[s].rbuf = NoBuf /\ sk[s].wbuf = NoBuf /\ ~IsOpen(s)
                           => sk'[s].rbuf = NoBuf /\ sk'[s].wbuf = NoBuf)
  /\ UNCHANGED <<heap, status>>

(* zsocket_connect, zsocket_listen or zsocket_accept: the socket goes to   *)
(* the head of the list and is counted.                                    *)
Opens(s) ==
  /\ sk[s] = Fresh /\ s \notin Listed /\ OthersSame(s)
  /\ sk'[s].fd \in Fd \ OpenFds
  /\ sk'[s].type \in {"client", "server", "connection"} /\ ~NextEof(s)
  /\ sk'[s].rbuf = NoBuf /\ sk'[s].wbuf = NoBuf
  /\ sk'[s].type = "client" => s \in User /\ sk'[s].port = Assigned
  /\ sk'[s].type = "server" => s \in User /\ sk'[s].port \in Port /\ CanBind(sk'[s].port)
  /\ sk'[s].type = "connection" =>
       /\ pc = "conn_cb" /\ Usable(cursor) /\ s \in Heap \ heap
       /\ sk'[s].port = LocalPort(sk[cursor].port) /\ sk'[s].tick = "fresh"
  /\ heap' = IF sk'[s].type = "connection" THEN heap \cup {s} ELSE heap
  /\ status' = Counted(sk'[s].type)
  /\ socks' = <<s>> \o socks

(* zsocket_close up to its last statement: the socket stays listed.        *)
Closes(s) ==
  /\ IsOpen(s) /\ Alike(s) /\ NextEof(s) /\ OthersSame(s) /\ sk'[s].tick = sk[s].tick
  /\ UNCHANGED <<heap, socks>>
  /\ status' = Uncounted(sk[s].type)

(* zsocket_init or the end of __zsocket_close.                             *)
Resets(s) ==
  /\ s \notin Listed /\ OthersSame(s)
  /\ sk'[s] \in {Fresh, Released(sk[s])} /\ sk[s].type # "none"
  /\ UNCHANGED <<socks, status>>

(* The kinds of steps: where the program is and where it goes.             *)
Still == UNCHANGED <<in_looping, pc, cursor, nxt, peer, sel>>

(* An assertion fails.                                                     *)
Halting == /\ pc \in {"app", "conn_cb", "read_cb", "recv", "send", "cascade"} /\ pc' = "halt"
           /\ UNCHANGED <<sk, heap, socks, status, cursor, nxt, peer, sel, in_looping>>

(* A call of the interface that returns at once.                           *)
Calling ==
  /\ InApp /\ Still
  /\ \/ Keeps /\ socks' = socks
     \/ \E s \in Sock : Opens(s)
     \/ \E s \in Sock : Closes(s) /\ Usable(s) /\ in_looping
     \/ \E s \in User : Resets(s) /\ sk'[s] = Fresh /\ ~IsOpen(s) /\ heap' = heap

(* zsocket_close outside the loop, which goes on to __zsocket_close.       *)
ClosingAlone ==
  /\ pc = "app" /\ ~in_looping /\ pc' = "reap"
  /\ \E s \in Sock :
       /\ cursor' = s /\ Usable(s) /\ Closes(s)
       /\ \/ sk[s].type = "client"
          \/ sk[s].type = "connection" /\ "conn_close" \in Env
          \/ /\ sk[s].type = "server"
             /\ \/ "server_close" \in Env
                \/ \A t \in Listed \ {s} : sk[t].port # sk[s].port
  /\ UNCHANGED <<in_looping, nxt, peer, sel>>

(* zsocket_loop is called.                                                 *)
Entering ==
  /\ pc = "app" /\ Keeps /\ in_looping' = TRUE
  /\ \/ pc' \in {"recv", "sweep"} /\ cursor' = First(socks)
     \/ UNCHANGED <<pc, cursor>>
  /\ UNCHANGED <<socks, nxt, peer>>

(* The points of the scan of zsocket_poll.                                 *)
ScanPoint == {"recv", "conn_cb", "read_cb", "send", "next"}

(* The points of the scan but the last, and the closing of the socket that *)
(* the scan is at.                                                         *)
Scanning ==
  /\ pc \in ScanPoint /\ pc' \in ScanPoint \cup {"sweep"}
  /\ pc' = "conn_cb" => cursor \in Listed /\ sk[cursor].type = "server" /\ cursor' = cursor
  /\ \/ Keeps /\ socks' = socks
     \/ /\ pc \in {"read_cb", "send"} /\ Closes(cursor)
        /\ Eof(cursor) => "alloc_fail" \in Env
        /\ pc = "read_cb" => "alloc_fail" \in Env
  /\ \/ cursor' = cursor /\ pc \in {"recv", "conn_cb", "read_cb", "send"} /\ pc' # "sweep" /\ pc' # "recv"
     \/ cursor' = After(cursor) /\ pc = "next" /\ pc' = "recv"
     \/ cursor' = First(socks) /\ pc \in {"recv", "next"} /\ pc' = "sweep"
  /\ UNCHANGED <<in_looping, nxt, peer>>

(* The sweep                                                               *)
Leaving == pc = "sweep" /\ cursor = NoSock /\ pc' = "app" /\ in_looping' = FALSE
           /\ Keeps /\ UNCHANGED <<socks, cursor, nxt, peer, sel>>

(* A silent connection is closed by the sweep.                             *)
TimingOut ==
  /\ pc = "sweep" /\ cursor # NoSock /\ TimedOut(cursor) /\ Closes(cursor) /\ pc' = "reap"
  /\ UNCHANGED <<in_looping, cursor, nxt, peer, sel>>

(* The sweep looks at one socket.                                          *)
Passing ==
  /\ pc = "sweep" /\ cursor # NoSock /\ Keeps
  /\ \/ Eof(cursor) /\ pc' = "reap" /\ cursor' = cursor
     \/ ~Eof(cursor) /\ cursor' = After(cursor) /\ pc' = "sweep"
  /\ UNCHANGED <<in_looping, socks, nxt, peer, sel>>

(* list_del of the closed socket.                                          *)
Reaping ==
  /\ pc = "reap" /\ Keeps /\ socks' = Without(cursor)
  /\ nxt' = IF in_looping THEN After(cursor) ELSE NoSock
  /\ \/ sk[cursor].type = "server" /\ pc' = "cascade" /\ peer' = First(socks')
     \/ sk[cursor].type # "server" /\ pc' = "release" /\ peer' = peer
  /\ UNCHANGED <<in_looping, cursor, sel>>

(* A closing server looks at one socket of the list.                       *)
Cascading ==
  /\ pc = "cascade"
  /\ \/ Keeps /\ socks' = socks /\ peer = NoSock /\ peer' = peer /\ pc' = "release"
     \/ /\ Keeps /\ socks' = socks /\ peer # NoSock /\ sk[peer].port # sk[cursor].port
        /\ peer' = After(peer) /\ pc' = pc
     \/ /\ Closes(peer) /\ ~Eof(peer) /\ SamePort /\ in_looping
        /\ peer' = After(peer) /\ pc' = pc
  /\ UNCHANGED <<in_looping, cursor, nxt, sel>>

(* The end of __zsocket_close, and free() of a connection in the loop.     *)
Releases ==
  /\ pc = "release" /\ Resets(cursor)
  /\ heap' = IF in_looping /\ sk[cursor].type = "connection" THEN heap \ {cursor} ELSE heap
  /\ sk'[cursor] = IF in_looping /\ sk[cursor].type = "connection" THEN Fresh ELSE Released(sk[cursor])
  /\ pc' = IF in_looping THEN "sweep" ELSE "app"
  /\ cursor' = nxt /\ nxt' = NoSock
  /\ UNCHANGED <<in_looping, peer, sel>>

-----------------------------------------------------------------------------

(* A step that touches no socket opens, closes and releases none.          *)
LEMMA KeepsSame ==
  ASSUME UNCHANGED <<sk, heap, status>>
  PROVE  Keeps
BY DEF Keeps, Alike, TickKept, Eof, NextEof

(* One open socket gets other flags or buffers.                            *)
LEMMA KeepsUpdate ==
  ASSUME DataInv, NEW s \in Sock, IsOpen(s), NEW r, sk' = [sk EXCEPT ![s] = r],
         r.fd = sk[s].fd, r.type = sk[s].type, r.port = sk[s].port,
         r.tick \in {sk[s].tick, "fresh"} \/ "no_timeout" \in Env,
         Eof(s) <=> "EOF" \in r.state, UNCHANGED <<heap, status>>
  PROVE  Keeps
<1>1. sk'[s] = r /\ \A t \in Sock \ {s} : sk'[t] = sk[t]
  BY DEF DataInv
<1> QED BY <1>1 DEF Keeps, Alike, TickKept, Eof, NextEof

(* MarkEof closes the socket and changes nothing else of it that matters   *)
(* here.                                                                   *)
LEMMA CloseFields ==
  ASSUME DataInv, NEW s \in Sock, IsOpen(s), NEW r \in Socket, NEW cb \in BOOLEAN,
         MarkEof(s, r, cb), r.fd = sk[s].fd, r.type = sk[s].type, r.port = sk[s].port,
         r.tick = sk[s].tick, UNCHANGED <<heap, socks>>
  PROVE  Closes(s)
<1> DEFINE p == [r EXCEPT !.state = @ \cup {"EOF"}]
           q == [p EXCEPT !.close_cb = cb]
<1>1. p = [fd |-> r.fd, type |-> r.type, state |-> r.state \cup {"EOF"}, tick |-> r.tick,
           port |-> r.port, rbuf |-> r.rbuf, wbuf |-> r.wbuf, close_cb |-> r.close_cb]
  BY SocketType
<1>2. sk' = [sk EXCEPT ![s] = q] /\ status' = Uncounted(r.type)
  BY DEF MarkEof
<1>3. q = [fd |-> r.fd, type |-> r.type, state |-> r.state \cup {"EOF"}, tick |-> r.tick,
           port |-> r.port, rbuf |-> r.rbuf, wbuf |-> r.wbuf, close_cb |-> cb]
  <2> HIDE DEF p
  <2> QED BY <1>1
<1> HIDE DEF q, p
<1>4. sk'[s] = q /\ \A t \in Sock \ {s} : sk'[t] = sk[t]
  BY <1>2 DEF DataInv
<1> QED BY <1>2, <1>3, <1>4 DEF Closes, Alike, OthersSame, NextEof

(* Open sets the fields that it is given.                                  *)
LEMMA OpenFields ==
  ASSUME DataInv, NEW s \in Sock, NEW f \in Fd,
         NEW t, NEW clock, NEW p, NEW flags, "EOF" \notin flags,
         Open(s, f, t, clock, p, flags)
  PROVE  /\ sk[s] = Fresh /\ OthersSame(s) /\ sk'[s].fd = f /\ f \notin OpenFds
         /\ sk'[s].type = t /\ sk'[s].tick = clock /\ sk'[s].port = p /\ sk'[s].state = flags
         /\ sk'[s].rbuf = NoBuf /\ sk'[s].wbuf = NoBuf /\ ~NextEof(s)
         /\ socks' = <<s>> \o socks /\ status' = Counted(t)
         /\ UNCHANGED <<in_looping, pc, cursor, nxt, peer, sel, fault, notified>>
<1> DEFINE r1 == [Fresh EXCEPT !.fd = f]
           r2 == [r1 EXCEPT !.type = t]
           r3 == [r2 EXCEPT !.tick = clock]
           r4 == [r3 EXCEPT !.port = p]
           r == [r4 EXCEPT !.state = flags]
<1>1. r1 = [fd |-> f, type |-> Fresh.type, state |-> Fresh.state, tick |-> Fresh.tick, port |-> Fresh.port,
            rbuf |-> Fresh.rbuf, wbuf |-> Fresh.wbuf, close_cb |-> Fresh.close_cb]
  BY FreshType, SocketType
<1>2. r2 = [fd |-> f, type |-> t, state |-> Fresh.state, tick |-> Fresh.tick, port |-> Fresh.port,
            rbuf |-> Fresh.rbuf, wbuf |-> Fresh.wbuf, close_cb |-> Fresh.close_cb]
  <2> HIDE DEF r1
  <2> QED BY <1>1
<1>3. r3 = [fd |-> f, type |-> t, state |-> Fresh.state, tick |-> clock, port |-> Fresh.port,
            rbuf |-> Fresh.rbuf, wbuf |-> Fresh.wbuf, close_cb |-> Fresh.close_cb]
  <2> HIDE DEF r2
  <2> QED BY <1>2
<1>4. r4 = [fd |-> f, type |-> t, state |-> Fresh.state, tick |-> clock, port |-> p,
            rbuf |-> Fresh.rbuf, wbuf |-> Fresh.wbuf, close_cb |-> Fresh.close_cb]
  <2> HIDE DEF r3
  <2> QED BY <1>3
<1>5. r = [fd |-> f, type |-> t, state |-> flags, tick |-> clock, port |-> p,
           rbuf |-> Fresh.rbuf, wbuf |-> Fresh.wbuf, close_cb |-> Fresh.close_cb]
  <2> HIDE DEF r4
  <2> QED BY <1>4
<1>6. Fresh.rbuf = NoBuf /\ Fresh.wbuf = NoBuf
  BY DEF Fresh
<1>7. /\ sk[s].type = "none" /\ f \notin OpenFds
      /\ sk' = [sk EXCEPT ![s] = r] /\ socks' = <<s>> \o socks /\ status' = Counted(t)
      /\ UNCHANGED <<control, notified>>
  BY DEF Open, FreeFds
<1> HIDE DEF r, r1, r2, r3, r4
<1>8. sk'[s] = r /\ \A u \in Sock \ {s} : sk'[u] = sk[u]
  BY <1>7 DEF DataInv
<1>9. sk[s] = Fresh
  BY <1>7 DEF DataInv, NoneIsFresh
<1> QED BY <1>5, <1>6, <1>7, <1>8, <1>9 DEF OthersSame, NextEof, control

(* A socket that may be opened is not on the list.                         *)
LEMMA FreshIsOff ==
  ASSUME IInv, InApp, NEW s \in Sock, sk[s] = Fresh
  PROVE  s \notin Listed
<1>1. ~IsOpen(s)
  BY DEF IsOpen, Fresh
<1> QED BY <1>1, AppSees DEF OpenSet

-----------------------------------------------------------------------------
(* Which step is of which kind.                                            *)

LEMMA HaltKind ==
  ASSUME NEW line, Abort(line), pc \in {"app", "conn_cb", "read_cb", "recv", "send", "cascade"}
  PROVE  Halting
BY DEF Abort, Halting

(* zsocket_init.                                                           *)
LEMMA ReinitKind ==
  ASSUME IInv, NEW s \in User, Reinit(s)
  PROVE  Calling
<1>1. /\ s \in Sock /\ InApp /\ ~IsOpen(s) /\ s \notin Listed /\ sk[s].type # "none"
      /\ UNCHANGED <<in_looping, pc, cursor, nxt, peer, sel, heap, socks, status>>
      /\ sk' = [sk EXCEPT ![s] = Fresh]
  BY DEF Sock, Reinit, control
<1>2. sk'[s] = Fresh /\ OthersSame(s)
  BY <1>1 DEF OthersSame, IInv, DataInv
<1>3. Resets(s)
  BY <1>1, <1>2 DEF Resets
<1> QED BY <1>1, <1>2, <1>3 DEF Calling, Still

(* zsocket_connect.                                                        *)
LEMMA ConnectKind ==
  ASSUME IInv, NEW s \in User, NEW f \in Fd, Connect(s, f)
  PROVE  Calling
<1>1. /\ InApp /\ s \in Sock /\ Open(s, f, "client", "fresh", Assigned, {}) /\ heap' = heap
  BY DEF Connect, Sock
<1>2. /\ sk[s] = Fresh /\ OthersSame(s) /\ sk'[s].fd = f /\ f \notin OpenFds
      /\ sk'[s].type = "client" /\ sk'[s].port = Assigned
      /\ sk'[s].rbuf = NoBuf /\ sk'[s].wbuf = NoBuf /\ ~NextEof(s)
      /\ socks' = <<s>> \o socks /\ status' = Counted("client") /\ Still
  <2>1. "EOF" \notin {}
    OBVIOUS
  <2> QED BY <1>1, <2>1, OpenFields DEF IInv, Still
<1>3. Opens(s)
  BY <1>1, <1>2, FreshIsOff DEF Opens
<1> QED BY <1>1, <1>2, <1>3 DEF Calling

(* zsocket_listen.                                                         *)
LEMMA ListenOnKind ==
  ASSUME IInv, NEW s \in User, NEW f \in Fd, NEW p \in Port, ListenOn(s, f, p)
  PROVE  Calling
<1>1. /\ InApp /\ s \in Sock /\ Open(s, f, "server", "zero", p, {"READ_ENABLE"}) /\ heap' = heap
      /\ CanBind(p)
  BY DEF ListenOn, Sock
<1>2. /\ sk[s] = Fresh /\ OthersSame(s) /\ sk'[s].fd = f /\ f \notin OpenFds
      /\ sk'[s].type = "server" /\ sk'[s].port = p
      /\ sk'[s].rbuf = NoBuf /\ sk'[s].wbuf = NoBuf /\ ~NextEof(s)
      /\ socks' = <<s>> \o socks /\ status' = Counted("server") /\ Still
  <2>1. "EOF" \notin {"READ_ENABLE"}
    OBVIOUS
  <2> QED BY <1>1, <2>1, OpenFields DEF IInv, Still
<1>3. Opens(s)
  BY <1>1, <1>2, FreshIsOff DEF Opens
<1> QED BY <1>1, <1>2, <1>3 DEF Calling

(* zsocket_accept.                                                         *)
LEMMA AcceptKind ==
  ASSUME IInv, NEW c \in Heap, NEW f \in Fd, Accept(c, f)
  PROVE  Calling
<1>1. /\ InApp /\ c \in Sock /\ Open(c, f, "connection", "fresh", LocalPort(sk[cursor].port), {})
      /\ heap' = heap \cup {c} /\ c \notin heap /\ pc = "conn_cb" /\ Usable(cursor)
  BY DEF Accept, InApp, Sock
<1>2. /\ sk[c] = Fresh /\ OthersSame(c) /\ sk'[c].fd = f /\ f \notin OpenFds
      /\ sk'[c].type = "connection" /\ sk'[c].port = LocalPort(sk[cursor].port) /\ sk'[c].tick = "fresh"
      /\ sk'[c].rbuf = NoBuf /\ sk'[c].wbuf = NoBuf /\ ~NextEof(c)
      /\ socks' = <<c>> \o socks /\ status' = Counted("connection") /\ Still
  <2>1. "EOF" \notin {}
    OBVIOUS
  <2> QED BY <1>1, <2>1, OpenFields DEF IInv, Still
<1>3. Opens(c)
  BY <1>1, <1>2, FreshIsOff DEF Opens
<1> QED BY <1>1, <1>2, <1>3 DEF Calling

(* A call that gives one usable socket other flags, or another buffer or   *)
(* tick.                                                                   *)
LEMMA UpdateKind ==
  ASSUME IInv, InApp, NEW s \in Sock, Usable(s), NEW r, sk' = [sk EXCEPT ![s] = r],
         r.fd = sk[s].fd, r.type = sk[s].type, r.port = sk[s].port,
         r.tick = sk[s].tick \/ "no_timeout" \in Env, "EOF" \notin r.state,
         UNCHANGED <<control, heap, socks, status>>
  PROVE  Calling
<1>1. Keeps
  BY KeepsUpdate DEF IInv, Usable, Eof
<1> QED BY <1>1 DEF Calling, Still, control

(* zsocket_read_start.                                                     *)
LEMMA ReadStartKind ==
  ASSUME IInv, NEW s \in Sock, ReadStart(s)
  PROVE  Calling \/ Halting
<1>1. CASE "READ_ENABLE" \in sk[s].state
  BY <1>1, HaltKind DEF ReadStart, InApp
<1>2. CASE "READ_ENABLE" \notin sk[s].state
  <2> DEFINE r == [sk[s] EXCEPT !.state = sk[s].state \cup {"READ_ENABLE"}]
  <2>1. InApp /\ Usable(s) /\ UNCHANGED <<control, heap, socks, status>>
    BY <1>2 DEF ReadStart
  <2>2. sk' = [sk EXCEPT ![s] = r]
    BY <1>2 DEF ReadStart, IInv, DataInv
  <2>3. sk[s] \in Socket /\ sk[s].state \cup {"READ_ENABLE"} \in SUBSET Flag /\ ~Eof(s)
    BY <2>1, UsableSocket DEF Flag
  <2>4. /\ r.state = sk[s].state \cup {"READ_ENABLE"} /\ r.fd = sk[s].fd
        /\ r.type = sk[s].type /\ r.port = sk[s].port /\ r.tick = sk[s].tick
    BY <2>3, NewState
  <2> HIDE DEF r
  <2> QED BY <2>1, <2>2, <2>3, <2>4, UpdateKind DEF Eof
<1> QED BY <1>1, <1>2

(* zsocket_read_stop.                                                      *)
LEMMA ReadStopKind ==
  ASSUME IInv, NEW s \in Sock, ReadStop(s)
  PROVE  Calling \/ Halting
<1>1. CASE "READ_ENABLE" \notin sk[s].state
  BY <1>1, HaltKind DEF ReadStop, InApp
<1>2. CASE "READ_ENABLE" \in sk[s].state
  <2> DEFINE r == [sk[s] EXCEPT !.state = sk[s].state \ {"READ_ENABLE"}]
  <2>1. InApp /\ Usable(s) /\ UNCHANGED <<control, heap, socks, status>>
    BY <1>2 DEF ReadStop
  <2>2. sk' = [sk EXCEPT ![s] = r]
    BY <1>2 DEF ReadStop, IInv, DataInv
  <2>3. sk[s] \in Socket /\ sk[s].state \ {"READ_ENABLE"} \in SUBSET Flag /\ ~Eof(s)
    BY <2>1, UsableSocket DEF Flag
  <2>4. /\ r.state = sk[s].state \ {"READ_ENABLE"} /\ r.fd = sk[s].fd
        /\ r.type = sk[s].type /\ r.port = sk[s].port /\ r.tick = sk[s].tick
    BY <2>3, NewState
  <2> HIDE DEF r
  <2> QED BY <2>1, <2>2, <2>3, <2>4, UpdateKind DEF Eof
<1> QED BY <1>1, <1>2

(* The first zsocket_write.                                                *)
LEMMA FirstWriteKind ==
  ASSUME IInv, NEW s \in Sock, NEW n \in 1..MaxWrite, FirstWrite(s, n)
  PROVE  Calling \/ Halting
<1>1. CASE sk[s].wbuf # NoBuf
  BY <1>1, HaltKind DEF FirstWrite, InApp
<1>2. CASE sk[s].wbuf = NoBuf
  <2>1. InApp /\ Usable(s) /\ UNCHANGED <<control, heap, socks, status>>
    BY <1>2 DEF FirstWrite
  <2>2. PICK b \in Enqueued(New(BufSize), n) :
          sk' = [sk EXCEPT ![s].state = @ \cup {"WRITE_ENABLE"}, ![s].wbuf = b]
    BY <1>2 DEF FirstWrite
  <2> DEFINE q == [sk[s] EXCEPT !.state = sk[s].state \cup {"WRITE_ENABLE"}]
             r == [q EXCEPT !.wbuf = b]
  <2>3. sk' = [sk EXCEPT ![s] = r]
    BY <2>2 DEF IInv, DataInv
  <2>4. sk[s] \in Socket /\ sk[s].state \cup {"WRITE_ENABLE"} \in SUBSET Flag /\ ~Eof(s)
    BY <2>1, UsableSocket DEF Flag
  <2>5. b \in BufferOrNone
    <3>1. n \in Nat /\ BufSize \in Nat
      BY ZSocketAssumption
    <3> QED BY <3>1, NewType, EnqueuedType DEF BufferOrNone
  <2>6. /\ q \in Socket /\ q.state = sk[s].state \cup {"WRITE_ENABLE"} /\ q.fd = sk[s].fd
        /\ q.type = sk[s].type /\ q.port = sk[s].port /\ q.tick = sk[s].tick
    BY <2>4, NewState
  <2> HIDE DEF q
  <2>7. /\ r.state = q.state /\ r.fd = q.fd /\ r.type = q.type /\ r.port = q.port /\ r.tick = q.tick
    BY <2>5, <2>6, NewWbuf
  <2> HIDE DEF r
  <2> QED BY <2>1, <2>3, <2>4, <2>6, <2>7, UpdateKind DEF Eof
<1> QED BY <1>1, <1>2

(* The others.                                                             *)
LEMMA NextWriteKind ==
  ASSUME IInv, NEW s \in Sock, NEW n \in 1..MaxWrite, NextWrite(s, n)
  PROVE  Calling
<1>1. /\ InApp /\ Usable(s) /\ "WRITE_ENABLE" \in sk[s].state
      /\ UNCHANGED <<control, heap, socks, status>>
  BY DEF NextWrite
<1>2. PICK b \in Enqueued(sk[s].wbuf, n) : sk' = [sk EXCEPT ![s].wbuf = b]
  BY DEF NextWrite
<1> DEFINE r == [sk[s] EXCEPT !.wbuf = b]
<1>3. sk' = [sk EXCEPT ![s] = r]
  BY <1>2 DEF IInv, DataInv
<1>4. sk[s] \in Socket /\ sk[s].wbuf \in Buffer /\ ~Eof(s)
  BY <1>1, UsableSocket DEF BufferOrNone
<1>5. b \in BufferOrNone
  <2>1. n \in Nat
    BY ZSocketAssumption
  <2> QED BY <1>4, <2>1, EnqueuedType DEF BufferOrNone
<1>6. /\ r.state = sk[s].state /\ r.fd = sk[s].fd /\ r.type = sk[s].type
      /\ r.port = sk[s].port /\ r.tick = sk[s].tick
  BY <1>4, <1>5, NewWbuf
<1> HIDE DEF r
<1> QED BY <1>1, <1>3, <1>4, <1>6, UpdateKind DEF Eof

(* Storing 0 in tick.                                                      *)
LEMMA DisableTimeoutKind ==
  ASSUME IInv, NEW s \in Heap, DisableTimeout(s)
  PROVE  Calling
<1>1. /\ InApp /\ Usable(s) /\ s \in Sock /\ "no_timeout" \in Env
      /\ UNCHANGED <<control, heap, socks, status>>
      /\ sk' = [sk EXCEPT ![s].tick = "zero"]
  BY DEF DisableTimeout, Sock
<1> DEFINE r == [sk[s] EXCEPT !.tick = "zero"]
<1>2. sk' = [sk EXCEPT ![s] = r]
  BY <1>1 DEF IInv, DataInv
<1>3. sk[s] \in Socket /\ ~Eof(s)
  BY <1>1, UsableSocket
<1>4. /\ r.state = sk[s].state /\ r.fd = sk[s].fd /\ r.type = sk[s].type /\ r.port = sk[s].port
  BY <1>3, NewTick
<1> HIDE DEF r
<1> QED BY <1>1, <1>2, <1>3, <1>4, UpdateKind DEF Eof

(* zsocket_close, in the loop and outside it.                              *)
LEMMA CloseKind ==
  ASSUME IInv, NEW s \in Sock, NEW cb \in CloseCb, Close(s, cb)
  PROVE  Calling \/ ClosingAlone
<1>1. /\ InApp /\ Usable(s) /\ MarkEof(s, sk[s], cb)
      /\ UNCHANGED <<heap, socks, in_looping, nxt, peer, sel>>
  BY DEF Close
<1>2. Closes(s)
  <2>1. cb \in BOOLEAN
    BY ZSocketAssumption
  <2>2. IsOpen(s) /\ sk[s] \in Socket
    BY <1>1, UsableSocket
  <2> QED BY <1>1, <2>1, <2>2, CloseFields DEF IInv
<1>3. CASE in_looping
  <2>1. UNCHANGED <<pc, cursor>>
    BY <1>3 DEF Close
  <2> QED BY <1>1, <1>2, <1>3, <2>1 DEF Calling, Still
<1>4. CASE ~in_looping
  <2>1. pc' = "reap" /\ cursor' = s /\ pc = "app"
    BY <1>1, <1>4 DEF Close, IInv, ControlInv, Looping, InApp
  <2>2. \/ sk[s].type = "client"
        \/ sk[s].type = "connection" /\ "conn_close" \in Env
        \/ /\ sk[s].type = "server"
           /\ \/ "server_close" \in Env
              \/ \A t \in Listed \ {s} : sk[t].port # sk[s].port
    BY <1>4 DEF Close
  <2> QED BY <1>1, <1>2, <1>4, <2>1, <2>2 DEF ClosingAlone
<1> QED BY <1>3, <1>4

(* zsocket_loop.                                                           *)
LEMMA EnterKind ==
  ASSUME IInv, NEW late, late \subseteq Silent, EnterLoop(late),
         \/ UNCHANGED <<pc, cursor>>
         \/ pc' \in {"recv", "sweep"} /\ cursor' = First(socks)
  PROVE  Entering
<1>1. /\ pc = "app" /\ in_looping' = TRUE
      /\ sk' = [s \in Sock |-> IF s \in late THEN [sk[s] EXCEPT !.tick = "expired"] ELSE sk[s]]
      /\ UNCHANGED <<heap, socks, status, nxt, peer>>
  BY DEF EnterLoop
<1>2. late = {} \/ "idle" \in Env
  BY DEF Silent
<1>3. ASSUME NEW s \in Sock
      PROVE  /\ Alike(s) /\ TickKept(s) /\ (Eof(s) <=> NextEof(s))
             /\ sk'[s].rbuf = sk[s].rbuf /\ sk'[s].wbuf = sk[s].wbuf
  <2>1. sk[s] \in Socket
    BY DEF IInv, DataInv
  <2>2. CASE s \in late
    <3>1. sk'[s] = [sk[s] EXCEPT !.tick = "expired"] /\ "idle" \in Env
      BY <1>1, <1>2, <2>2
    <3>2. /\ sk'[s].fd = sk[s].fd /\ sk'[s].type = sk[s].type /\ sk'[s].port = sk[s].port
          /\ sk'[s].state = sk[s].state /\ sk'[s].rbuf = sk[s].rbuf /\ sk'[s].wbuf = sk[s].wbuf
      BY <2>1, <3>1, NewTick
    <3> QED BY <3>1, <3>2 DEF Alike, TickKept, Eof, NextEof
  <2>3. CASE s \notin late
    <3>1. sk'[s] = sk[s]
      BY <1>1, <2>3
    <3> QED BY <3>1 DEF Alike, TickKept, Eof, NextEof
  <2> QED BY <2>2, <2>3
<1>4. Keeps
  BY <1>1, <1>3 DEF Keeps
<1> QED BY <1>1, <1>4 DEF Entering

(* Each outcome of select().                                               *)
LEMMA CallLoopKind ==
  ASSUME IInv, CallLoop
  PROVE  Entering
<1>1. ASSUME NEW R \in SUBSET Below(watch.read), NEW W \in SUBSET Below(watch.write),
             NEW late \in SUBSET Silent, SelectReady(R, W, late)
      PROVE  Entering
  BY <1>1, EnterKind DEF SelectReady
<1>2. ASSUME NEW late \in SUBSET Silent, SelectNothing(late)
      PROVE  Entering
  BY <1>2, EnterKind DEF SelectNothing
<1>3. ASSUME SelectFails
      PROVE  Entering
  <2>1. {} \subseteq Silent
    OBVIOUS
  <2> QED BY <1>3, <2>1, EnterKind DEF SelectFails
<1> QED BY <1>1, <1>2, <1>3 DEF CallLoop

(* A step of the scan that changes no data.                                *)
LEMMA ScanDataKind ==
  ASSUME IInv, UNCHANGED data, UNCHANGED <<nxt, peer>>, pc \in ScanPoint,
         pc' \in ScanPoint \cup {"sweep"},
         pc' = "conn_cb" => cursor \in Listed /\ sk[cursor].type = "server" /\ cursor' = cursor,
         \/ cursor' = cursor /\ pc \in {"recv", "conn_cb", "read_cb", "send"} /\ pc' # "sweep" /\ pc' # "recv"
         \/ cursor' = After(cursor) /\ pc = "next" /\ pc' = "recv"
         \/ cursor' = First(socks) /\ pc \in {"recv", "next"} /\ pc' = "sweep"
  PROVE  Scanning
<1>1. UNCHANGED <<sk, heap, status, socks, in_looping>>
  BY DEF data
<1> QED BY <1>1, KeepsSame DEF Scanning

(* The end of the list.                                                    *)
LEMMA ScanEndsKind ==
  ASSUME IInv, ScanEnds
  PROVE  Scanning
BY ScanDataKind DEF ScanEnds, ScanPoint

(* The socket is not readable.                                             *)
LEMMA NotReadableKind ==
  ASSUME IInv, NotReadable
  PROVE  Scanning
BY ScanDataKind DEF NotReadable, ScanPoint

(* The socket is not writable.                                             *)
LEMMA NotWritableKind ==
  ASSUME IInv, NotWritable
  PROVE  Scanning
BY ScanDataKind DEF NotWritable, ScanPoint

(* The next socket, or the early end.                                      *)
LEMMA NextSocketKind ==
  ASSUME IInv, NextSocket
  PROVE  Scanning
BY ScanDataKind DEF NextSocket, ScanPoint

(* connection_cb returns.                                                  *)
LEMMA ConnCbReturnsKind ==
  ASSUME IInv, ConnCbReturns
  PROVE  Scanning
BY ScanDataKind DEF ConnCbReturns, ScanPoint

(* A server is readable.                                                   *)
LEMMA RecvServerKind ==
  ASSUME IInv, RecvServer
  PROVE  Scanning
BY ScanDataKind, RecvFacts DEF RecvServer, ScanPoint, data

(* The read buffer cannot be allocated.                                    *)
LEMMA RecvNoBufferKind ==
  ASSUME IInv, RecvNoBuffer
  PROVE  Scanning
BY ScanDataKind, RecvFacts DEF RecvNoBuffer, ScanPoint, data

(* Nothing to send.                                                        *)
LEMMA SendNothingKind ==
  ASSUME IInv, SendNothing
  PROVE  Scanning
BY ScanDataKind, SendFacts DEF SendNothing, ScanPoint, data

(* recv() returns.                                                         *)
LEMMA RecvDataKind ==
  ASSUME IInv, NEW n \in -1..MaxBuf, RecvData(n)
  PROVE  Scanning
<1> DEFINE b == IF sk[cursor].rbuf = NoBuf THEN New(BufSize) ELSE sk[cursor].rbuf
           r == IF n = -1 THEN Masked(cursor, "READ_FAILED") ELSE sk[cursor]
           c == IF n > 0 THEN OffsetInHead(b, n) ELSE b
           q == [r EXCEPT !.rbuf = c]
           p == [q EXCEPT !.tick = "fresh"]
<1>1. /\ Recv("read_cb") /\ sk' = [sk EXCEPT ![cursor] = p]
      /\ n \in 0..Spare(b) \/ n = -1
  BY DEF RecvData
<1>2. /\ pc = "recv" /\ cursor \in Sock /\ IsOpen(cursor)
      /\ ~Eof(cursor) /\ pc' = "read_cb" /\ sk[cursor] \in Socket
      /\ UNCHANGED <<heap, socks, status, in_looping, cursor, nxt, peer>>
  BY <1>1, RecvFacts
<1>3. b \in Buffer
  <2>1. BufSize \in Nat
    BY ZSocketAssumption
  <2> QED BY <1>2, <2>1, NewType, SocketType DEF BufferOrNone
<1>4. /\ r \in Socket /\ r.fd = sk[cursor].fd /\ r.type = sk[cursor].type
      /\ r.port = sk[cursor].port /\ r.state \subseteq sk[cursor].state
  <2>1. CASE n = -1
    <3>1. sk[cursor].state \cap {"READ_FAILED"} \in SUBSET Flag
      BY <1>2, SocketType
    <3>2. r = [sk[cursor] EXCEPT !.state = sk[cursor].state \cap {"READ_FAILED"}]
      BY <2>1 DEF Masked
    <3> HIDE DEF r
    <3> QED BY <1>2, <3>1, <3>2, NewState
  <2>2. CASE n # -1
    BY <1>2, <2>2
  <2> QED BY <2>1, <2>2
<1> HIDE DEF b, r
<1>5. c \in BufferOrNone
  <2>1. CASE n > 0
    <3>1. n \in Nat /\ n <= Spare(b)
      BY <1>1, <1>3, <2>1 DEF Spare, Buffer
    <3> QED BY <1>3, <2>1, <3>1, OffsetInType DEF BufferOrNone
  <2>2. CASE ~(n > 0)
    BY <1>3, <2>2 DEF BufferOrNone
  <2> QED BY <2>1, <2>2
<1> HIDE DEF c
<1>6. /\ q \in Socket /\ q.fd = r.fd /\ q.type = r.type /\ q.state = r.state /\ q.port = r.port
  BY <1>4, <1>5, NewRbuf
<1> HIDE DEF q
<1>7. /\ p.fd = q.fd /\ p.type = q.type /\ p.state = q.state /\ p.port = q.port /\ p.tick = "fresh"
  BY <1>6, NewTick
<1> HIDE DEF p
<1>8. "EOF" \notin p.state
  BY <1>2, <1>4, <1>6, <1>7 DEF Eof
<1>9. Keeps
  BY <1>1, <1>2, <1>4, <1>6, <1>7, <1>8, KeepsUpdate DEF IInv, Eof
<1> QED BY <1>2, <1>9 DEF Scanning, ScanPoint

(* A step of the scan that gives one socket another buffer.                *)
LEMMA BufferKind ==
  ASSUME IInv, pc \in {"read_cb", "send"}, pc' \in {"send", "next"}, NEW r \in Socket,
         sk' = [sk EXCEPT ![cursor] = r], r.fd = sk[cursor].fd, r.type = sk[cursor].type,
         r.state = sk[cursor].state, r.port = sk[cursor].port, r.tick = sk[cursor].tick,
         UNCHANGED <<heap, socks, status, in_looping, cursor, nxt, peer>>
  PROVE  Scanning
<1>1. cursor \in Sock /\ IsOpen(cursor)
  BY Cursor DEF OpenSet
<1>2. Keeps
  BY <1>1, KeepsUpdate DEF IInv, Eof
<1> QED BY <1>2 DEF Scanning, ScanPoint

(* A step of the scan that closes the socket it is at.                     *)
LEMMA ScanClosesKind ==
  ASSUME IInv, pc \in {"read_cb", "send"}, pc' \in {"send", "next"}, NEW r \in Socket,
         MarkEof(cursor, r, FALSE), r.fd = sk[cursor].fd, r.type = sk[cursor].type,
         r.port = sk[cursor].port, r.tick = sk[cursor].tick,
         Eof(cursor) => "alloc_fail" \in Env, pc = "read_cb" => "alloc_fail" \in Env,
         UNCHANGED <<heap, socks, in_looping, cursor, nxt, peer>>
  PROVE  Scanning
<1>1. cursor \in Sock /\ IsOpen(cursor) /\ FALSE \in BOOLEAN
  BY Cursor DEF OpenSet
<1>2. Closes(cursor)
  BY <1>1, CloseFields DEF IInv
<1> QED BY <1>2 DEF Scanning, ScanPoint

(* read_cb returns: the buffer is emptied, doubled, or given up with the   *)
(* socket.                                                                 *)
LEMMA ReadCbReturnsKind ==
  ASSUME IInv, NEW n \in 0..(MaxBuf + 1), ReadCbReturns(n)
  PROVE  Scanning
<1> DEFINE b == AfterRead(sk[cursor].rbuf, n)
           d == Realloc(b, b.size * 2, TRUE)
<1>1. /\ pc = "read_cb" /\ pc' = "send"
      /\ UNCHANGED <<heap, socks, in_looping, cursor, nxt, peer>>
  BY DEF ReadCbReturns
<1>2. cursor \in Sock /\ IsOpen(cursor)
  BY <1>1, Cursor DEF OpenSet
<1>3. sk[cursor] \in Socket /\ sk[cursor].rbuf \in BufferOrNone
  BY <1>2, SocketType DEF IInv, DataInv
<1>4. n \in Nat
  BY ZSocketAssumption
<1>5. b \in BufferOrNone /\ d \in BufferOrNone
  BY <1>3, <1>4, AfterReadType
<1>6. ASSUME NEW x \in {b, d}, UNCHANGED status, sk' = [sk EXCEPT ![cursor].rbuf = x]
      PROVE  Scanning
  <2> DEFINE r == [sk[cursor] EXCEPT !.rbuf = x]
  <2>1. sk' = [sk EXCEPT ![cursor] = r]
    BY <1>6, <1>2 DEF IInv, DataInv
  <2>2. x \in BufferOrNone
    BY <1>5
  <2>3. /\ r \in Socket /\ r.state = sk[cursor].state /\ r.fd = sk[cursor].fd
        /\ r.type = sk[cursor].type /\ r.port = sk[cursor].port /\ r.tick = sk[cursor].tick
    BY <1>3, <2>2, NewRbuf
  <2> HIDE DEF r, b, d
  <2> QED BY <1>1, <1>6, <2>1, <2>3, BufferKind
<1>7. CASE /\ Spare(b) > 0
           /\ sk' = [sk EXCEPT ![cursor].rbuf = b]
           /\ UNCHANGED <<watch, status>>
  BY <1>6, <1>7
<1>8. CASE /\ Spare(b) = 0 /\ TRUE \in Grows(b.size * 2)
           /\ sk' = [sk EXCEPT ![cursor].rbuf = d]
           /\ UNCHANGED <<watch, status>>
  <2> HIDE DEF b, d
  <2> QED BY <1>6, <1>8
<1>9. CASE /\ Spare(b) = 0 /\ FALSE \in Grows(b.size * 2)
           /\ MarkEof(cursor, [Masked(cursor, "RBUF_RUNOUT") EXCEPT !.rbuf = b], FALSE)
  <2> DEFINE q == Masked(cursor, "RBUF_RUNOUT")
             r == [q EXCEPT !.rbuf = b]
  <2>1. "RBUF_RUNOUT" \in Flag \ {"WRITE_ENABLE"}
    BY DEF Flag
  <2>2. /\ q \in Socket /\ q.fd = sk[cursor].fd /\ q.type = sk[cursor].type
        /\ q.port = sk[cursor].port /\ q.tick = sk[cursor].tick
    BY <1>2, <2>1, MaskedSocket DEF IInv
  <2>3. "alloc_fail" \in Env
    BY <1>9 DEF Grows
  <2> HIDE DEF q, b
  <2>4. /\ r \in Socket /\ r.fd = q.fd /\ r.type = q.type /\ r.port = q.port /\ r.tick = q.tick
    BY <1>5, <2>2, NewRbuf
  <2>5. MarkEof(cursor, r, FALSE)
    BY <1>9 DEF q
  <2> HIDE DEF r
  <2> QED BY <1>1, <2>2, <2>3, <2>4, <2>5, ScanClosesKind
<1> QED BY <1>7, <1>8, <1>9 DEF ReadCbReturns

(* send() fails and the socket is closed.                                  *)
LEMMA SendFailsKind ==
  ASSUME IInv, SendFails
  PROVE  Scanning
<1> DEFINE r == Masked(cursor, "WRITE_FAILED")
<1>1. Send /\ MarkEof(cursor, r, FALSE)
  BY DEF SendFails
<1>2. /\ pc = "send" /\ cursor \in Sock /\ pc' = "next" /\ ~Eof(cursor)
      /\ UNCHANGED <<heap, socks, in_looping, cursor, nxt, peer>>
  BY <1>1, SendFacts
<1>3. "WRITE_FAILED" \in Flag \ {"WRITE_ENABLE"}
  BY DEF Flag
<1>4. /\ r \in Socket /\ r.fd = sk[cursor].fd /\ r.type = sk[cursor].type
      /\ r.port = sk[cursor].port /\ r.tick = sk[cursor].tick
  BY <1>2, <1>3, MaskedSocket DEF IInv
<1> HIDE DEF r
<1> QED BY <1>1, <1>2, <1>4, ScanClosesKind

(* send() takes some of the data, which leaves room in the buffer.         *)
LEMMA SendDataKind ==
  ASSUME IInv, NEW n \in 1..MaxBuf, SendData(n)
  PROVE  Scanning
<1> DEFINE w == sk[cursor].wbuf
           b == Collect(OffsetOutHead(w, n), {"LESS_SPARE"})
           r == [sk[cursor] EXCEPT !.wbuf = b]
<1>1. Send /\ n \in 1..Used(w)
  BY DEF SendData
<1>2. /\ pc = "send" /\ cursor \in Sock /\ pc' = "next" /\ sk[cursor] \in Socket /\ w \in Buffer
      /\ UNCHANGED <<heap, socks, in_looping, cursor, nxt, peer>>
  BY <1>1, SendFacts
<1>3. Spare(b) > 0
  BY <1>1, <1>2, ConsumeLeavesRoom
<1>4. b \in BufferOrNone
  <2>1. n \in Nat
    BY ZSocketAssumption
  <2> QED BY <1>2, <2>1, OffsetOutType, CollectType DEF BufferOrNone
<1>5. sk' = [sk EXCEPT ![cursor].wbuf = b] /\ UNCHANGED status
  BY <1>3 DEF SendData
<1>6. sk' = [sk EXCEPT ![cursor] = r]
  BY <1>2, <1>5 DEF IInv, DataInv
<1> HIDE DEF b
<1>7. /\ r \in Socket /\ r.state = sk[cursor].state /\ r.fd = sk[cursor].fd
      /\ r.type = sk[cursor].type /\ r.port = sk[cursor].port /\ r.tick = sk[cursor].tick
  BY <1>2, <1>4, NewWbuf
<1> HIDE DEF r
<1> QED BY <1>2, <1>5, <1>6, <1>7, BufferKind

(* Every point of zsocket_poll.                                            *)
LEMMA PollKind ==
  ASSUME IInv, Poll \/ CallbackReturns
  PROVE  Scanning \/ Halting
<1>1. RecvAborts \/ SendAborts => Halting
  BY HaltKind DEF RecvAborts, SendAborts, CanRecv, CanSend
<1>2. ASSUME NEW n \in -1..MaxBuf, RecvData(n)
      PROVE  Scanning
  BY <1>2, RecvDataKind
<1>3. ASSUME NEW n \in 1..MaxBuf, SendData(n)
      PROVE  Scanning
  BY <1>3, SendDataKind
<1>4. ASSUME NEW n \in 0..(MaxBuf + 1), ReadCbReturns(n)
      PROVE  Scanning
  BY <1>4, ReadCbReturnsKind
<1> QED BY <1>1, <1>2, <1>3, <1>4, ScanEndsKind, NotReadableKind, RecvServerKind, RecvNoBufferKind,
           NotWritableKind, SendNothingKind, SendFailsKind, NextSocketKind, ConnCbReturnsKind
     DEF Poll, CallbackReturns

(* Every call of the interface.                                            *)
LEMMA AppCallKind ==
  ASSUME IInv, AppCall
  PROVE  Calling \/ ClosingAlone \/ Halting
<1>1. CASE \E s \in User : Reinit(s)
  BY <1>1, ReinitKind
<1>2. CASE \E s \in User, f \in Fd : Connect(s, f)
  BY <1>2, ConnectKind
<1>3. CASE \E s \in User, f \in Fd, p \in Port : ListenOn(s, f, p)
  BY <1>3, ListenOnKind
<1>4. CASE \E c \in Heap, f \in Fd : Accept(c, f)
  BY <1>4, AcceptKind
<1>5. CASE AcceptFails
  BY <1>5, HaltKind DEF AcceptFails
<1>6. CASE \E s \in Sock : ReadStart(s)
  BY <1>6, ReadStartKind
<1>7. CASE \E s \in Sock : ReadStop(s)
  BY <1>7, ReadStopKind
<1>8. CASE \E s \in Sock, n \in 1..MaxWrite : FirstWrite(s, n)
  BY <1>8, FirstWriteKind
<1>9. CASE \E s \in Sock, n \in 1..MaxWrite : NextWrite(s, n)
  BY <1>9, NextWriteKind
<1>10. CASE \E s \in Sock, cb \in CloseCb : Close(s, cb)
  BY <1>10, CloseKind
<1>11. CASE \E c \in Heap : DisableTimeout(c)
  BY <1>11, DisableTimeoutKind
<1> QED BY <1>1, <1>2, <1>3, <1>4, <1>5, <1>6, <1>7, <1>8, <1>9, <1>10, <1>11 DEF AppCall

(* Every point of zsocket_do_close and __zsocket_close.                    *)
LEMMA SweepKind ==
  ASSUME IInv, Sweep
  PROVE  Leaving \/ TimingOut \/ Passing \/ Reaping \/ Cascading \/ Releases \/ Halting
<1>1. CASE SweepEnds
  BY <1>1, KeepsSame DEF SweepEnds, Leaving
<1>2. CASE SweepTimeout
  <2> DEFINE r == Masked(cursor, "TIMEOUT")
  <2>1. /\ pc = "sweep" /\ cursor # NoSock /\ pc' = "reap" /\ MarkEof(cursor, r, FALSE)
        /\ TimedOut(cursor) /\ UNCHANGED <<heap, socks, in_looping, cursor, nxt, peer, sel>>
    BY <1>2 DEF SweepTimeout, Sweeping
  <2>2. cursor \in Sock /\ IsOpen(cursor) /\ FALSE \in BOOLEAN
    BY <2>1, Cursor DEF OpenSet
  <2>3. "TIMEOUT" \in Flag \ {"WRITE_ENABLE"}
    BY DEF Flag
  <2>4. /\ r \in Socket /\ r.fd = sk[cursor].fd /\ r.type = sk[cursor].type
        /\ r.port = sk[cursor].port /\ r.tick = sk[cursor].tick
    BY <2>2, <2>3, MaskedSocket DEF IInv
  <2> HIDE DEF r
  <2>5. Closes(cursor)
    BY <2>1, <2>2, <2>4, CloseFields DEF IInv
  <2> QED BY <2>1, <2>5 DEF TimingOut
<1>3. CASE SweepOthers
  <2>1. UNCHANGED <<sk, heap, status, socks, in_looping, nxt, peer, sel>>
    BY <1>3 DEF SweepOthers, data
  <2> QED BY <1>3, <2>1, KeepsSame DEF SweepOthers, Sweeping, Passing
<1>4. CASE Reap
  BY <1>4, KeepsSame DEF Reap, Reaping
<1>5. CASE CascadeMoves
  <2>1. UNCHANGED <<sk, heap, status, socks, in_looping, cursor, nxt, sel>> /\ pc = "cascade"
    BY <1>5 DEF CascadeMoves, data
  <2>2. \/ peer = NoSock /\ pc' = "release" /\ peer' = peer
        \/ peer # NoSock /\ sk[peer].port # sk[cursor].port /\ peer' = After(peer) /\ pc' = pc
    BY <1>5 DEF CascadeMoves, SamePort
  <2> QED BY <2>1, <2>2, KeepsSame DEF Cascading
<1>6. CASE CascadeCloses
  <2>1. /\ SamePort /\ in_looping /\ ~Eof(peer) /\ MarkEof(peer, sk[peer], FALSE)
        /\ peer' = After(peer) /\ pc = "cascade" /\ peer # NoSock
        /\ UNCHANGED <<heap, socks, in_looping, pc, cursor, nxt, sel>>
    BY <1>6 DEF CascadeCloses, SamePort
  <2>2. peer \in Listed
    BY <2>1 DEF IInv, ControlInv, TraversalSafe
  <2>3. peer \in Sock /\ IsOpen(peer) /\ FALSE \in BOOLEAN
    BY <2>1, <2>2 DEF IInv, ControlInv, OpenSet
  <2>4. sk[peer] \in Socket
    BY <2>3, OpenFd DEF IInv
  <2>5. Closes(peer)
    BY <2>1, <2>3, <2>4, CloseFields DEF IInv
  <2> QED BY <2>1, <2>5 DEF Cascading
<1>7. CASE CascadeAborts
  BY <1>7, HaltKind DEF CascadeAborts, SamePort
<1>8. CASE Release
  <2> DEFINE freed == in_looping /\ sk[cursor].type = "connection"
             r == IF freed THEN Fresh ELSE Released(sk[cursor])
  <2>1. /\ pc = "release" /\ sk' = [sk EXCEPT ![cursor] = r]
        /\ heap' = IF freed THEN heap \ {cursor} ELSE heap
        /\ pc' = IF in_looping THEN "sweep" ELSE "app"
        /\ cursor' = nxt /\ nxt' = NoSock
        /\ UNCHANGED <<socks, status, in_looping, peer, sel>>
    BY <1>8 DEF Release
  <2>2. cursor \in Sock /\ IsOpen(cursor) /\ cursor \notin Listed
    BY <2>1 DEF IInv, ControlInv, OpenSet, Releasing
  <2>3. sk[cursor].type # "none"
    BY <2>2, OpenFd DEF IInv
  <2>4. sk'[cursor] = r /\ OthersSame(cursor)
    BY <2>1, <2>2 DEF OthersSame, IInv, DataInv
  <2>5. Resets(cursor)
    BY <2>1, <2>2, <2>3, <2>4 DEF Resets
  <2> QED BY <2>1, <2>4, <2>5 DEF Releases
<1> QED BY <1>1, <1>2, <1>3, <1>4, <1>5, <1>6, <1>7, <1>8 DEF Sweep

(* Every step is of one of these kinds.                                    *)
LEMMA Kinds ==
  ASSUME IInv, Next
  PROVE  \/ Calling \/ ClosingAlone \/ Halting \/ Entering \/ Scanning
         \/ Leaving \/ TimingOut \/ Passing \/ Reaping \/ Cascading \/ Releases
BY AppCallKind, CallLoopKind, PollKind, SweepKind DEF Next

=============================================================================
