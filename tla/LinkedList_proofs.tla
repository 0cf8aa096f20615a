-------------------------- MODULE LinkedList_proofs --------------------------
(***************************************************************************)
(* What the functions of list.h do to a ring, whatever its length: an      *)
(* entry that is added, deleted or moved leaves a ring, and no link of a   *)
(* place that is not in it changes.                                        *)
(***************************************************************************)
EXTENDS LinkedList, TLAPS

(* A head with no entries is a ring (INIT_LIST_HEAD). *)
THEOREM InitRing ==
  ASSUME NEW D, NEW N, NEW P, NEW L \in Links(D, N, P), NEW h \in D
  PROVE  Ring(INIT_LIST_HEAD(L, h), {h})
<1> DEFINE M == INIT_LIST_HEAD(L, h)
<1>1. M[h] = [next |-> h, prev |-> h]
  BY DEF INIT_LIST_HEAD, Alone, Links
<1>2. QED
  BY <1>1 DEF Ring

(* __list_add: the links of the new entry and of its neighbours, and of no *)
(* other.                                                                  *)
LEMMA InsertLinks ==
  ASSUME NEW D, NEW N, NEW P, NEW L \in Links(D, N, P),
         NEW new \in D, NEW prev \in D, NEW next \in D, new # prev, new # next,
         D \subseteq N, D \subseteq P
  PROVE  /\ Insert(L, new, prev, next) \in Links(D, N, P)
         /\ Insert(L, new, prev, next)[new].next = next
         /\ Insert(L, new, prev, next)[new].prev = prev
         /\ \A n \in D \ {new} :
              /\ Insert(L, new, prev, next)[n].next = IF n = prev THEN new ELSE L[n].next
              /\ Insert(L, new, prev, next)[n].prev = IF n = next THEN new ELSE L[n].prev
<1> DEFINE M1 == [L EXCEPT ![next].prev = new]
           M2 == [M1 EXCEPT ![new].next = next]
           M3 == [M2 EXCEPT ![new].prev = prev]
           M4 == [M3 EXCEPT ![prev].next = new]
<1>1. Insert(L, new, prev, next) = M4
  BY DEF Insert
<1>2. M1 \in [D -> [next : N, prev : P]]
      /\ \A n \in D : M1[n] = [next |-> L[n].next, prev |-> IF n = next THEN new ELSE L[n].prev]
  BY DEF Links
<1> HIDE DEF M1
<1>3. M2 \in [D -> [next : N, prev : P]]
      /\ \A n \in D : M2[n] = [next |-> IF n = new THEN next ELSE M1[n].next, prev |-> M1[n].prev]
  BY <1>2
<1> HIDE DEF M2
<1>4. M3 \in [D -> [next : N, prev : P]]
      /\ \A n \in D : M3[n] = [next |-> M2[n].next, prev |-> IF n = new THEN prev ELSE M2[n].prev]
  BY <1>3
<1> HIDE DEF M3
<1>5. M4 \in [D -> [next : N, prev : P]]
      /\ \A n \in D : M4[n] = [next |-> IF n = prev THEN new ELSE M3[n].next, prev |-> M3[n].prev]
  BY <1>4
<1> HIDE DEF M4
<1>6. M4[new].next = next /\ M4[new].prev = prev
  BY <1>2, <1>3, <1>4, <1>5
<1>7. ASSUME NEW n \in D \ {new}
      PROVE  /\ M4[n].next = IF n = prev THEN new ELSE L[n].next
             /\ M4[n].prev = IF n = next THEN new ELSE L[n].prev
  BY <1>2, <1>3, <1>4, <1>5
<1>8. QED
  BY <1>1, <1>5, <1>6, <1>7 DEF Links

(* __list_add between two neighbours makes the ring one place longer.      *)
THEOREM InsertRing ==
  ASSUME NEW D, NEW N, NEW P, NEW L \in Links(D, N, P),
         D \subseteq N, D \subseteq P,
         NEW S \in SUBSET D, Ring(L, S),
         NEW new \in D \ S, NEW prev \in S, NEW next \in S, L[prev].next = next
  PROVE  Ring(Insert(L, new, prev, next), S \cup {new})
<1> DEFINE M == Insert(L, new, prev, next)
<1> HIDE DEF M
<1>1. /\ M[new].next = next /\ M[new].prev = prev
      /\ \A n \in S : /\ M[n].next = IF n = prev THEN new ELSE L[n].next
                      /\ M[n].prev = IF n = next THEN new ELSE L[n].prev
  <2>1. new # prev /\ new # next /\ prev \in D /\ next \in D /\ new \in D
    OBVIOUS
  <2>2. S \subseteq D \ {new}
    OBVIOUS
  <2>3. /\ Insert(L, new, prev, next)[new].next = next
        /\ Insert(L, new, prev, next)[new].prev = prev
        /\ \A n \in D \ {new} :
             /\ Insert(L, new, prev, next)[n].next = IF n = prev THEN new ELSE L[n].next
             /\ Insert(L, new, prev, next)[n].prev = IF n = next THEN new ELSE L[n].prev
    BY <2>1, InsertLinks
  <2>4. QED
    BY <2>2, <2>3 DEF M
<1>2. \A n \in S : /\ L[n].next \in S /\ L[L[n].next].prev = n
                   /\ L[n].prev \in S /\ L[L[n].prev].next = n
  BY DEF Ring
<1>3. L[next].prev = prev
  BY <1>2
<1>4. ASSUME NEW n \in S \cup {new}
      PROVE  /\ M[n].next \in S \cup {new} /\ M[M[n].next].prev = n
             /\ M[n].prev \in S \cup {new} /\ M[M[n].prev].next = n
  <2>1. CASE n = new
    BY <2>1, <1>1
  <2>2. CASE n \in S
    <3>1. M[n].next \in S \cup {new} /\ M[M[n].next].prev = n
      <4>1. CASE n = prev
        BY <4>1, <1>1
      <4>2. CASE n # prev
        <5>1. M[n].next = L[n].next /\ L[n].next \in S
          BY <2>2, <4>2, <1>1, <1>2
        <5>2. L[n].next # next
          BY <2>2, <4>2, <1>3, <1>2
        <5>3. QED
          BY <2>2, <5>1, <5>2, <1>1, <1>2
      <4>3. QED
        BY <4>1, <4>2
    <3>2. M[n].prev \in S \cup {new} /\ M[M[n].prev].next = n
      <4>1. CASE n = next
        BY <4>1, <1>1
      <4>2. CASE n # next
        <5>1. M[n].prev = L[n].prev /\ L[n].prev \in S
          BY <2>2, <4>2, <1>1, <1>2
        <5>2. L[n].prev # prev
          BY <2>2, <4>2, <1>2
        <5>3. QED
          BY <2>2, <5>1, <5>2, <1>1, <1>2
      <4>3. QED
        BY <4>1, <4>2
    <3>3. QED
      BY <3>1, <3>2
  <2>3. QED
    BY <2>1, <2>2
<1>5. /\ M[new].next = next /\ M[prev].next = new
      /\ \A n \in S \ {prev} : M[n].next = L[n].next
  BY <1>1
<1>6. ASSUME NEW T \in SUBSET (S \cup {new}), T # {}, \A n \in T : M[n].next \in T
      PROVE  T = S \cup {new}
  <2> DEFINE U == T \ {new}
  <2>1. U \in SUBSET S
    OBVIOUS
  <2>2. ASSUME NEW n \in U PROVE L[n].next \in U
    <3>1. n \in S /\ n \in T
      OBVIOUS
    <3>2. L[n].next \in S
      BY <3>1, <1>2
    <3>3. CASE n = prev
      <4>1. new \in T
        BY <3>1, <3>3, <1>5, <1>6
      <4>2. next \in T
        BY <4>1, <1>5, <1>6
      <4>3. QED
        BY <4>2, <3>3
    <3>4. CASE n # prev
      BY <3>1, <3>2, <3>4, <1>5, <1>6
    <3>5. QED
      BY <3>3, <3>4
  <2>3. U # {}
    <3>1. CASE new \in T
      <4>1. next \in T
        BY <3>1, <1>5, <1>6
      <4>2. QED
        BY <4>1
    <3>2. CASE new \notin T
      BY <3>2, <1>6
    <3>3. QED
      BY <3>1, <3>2
  <2> HIDE DEF U
  <2>4. U = S
    BY <2>1, <2>2, <2>3 DEF Ring
  <2>5. prev \in T
    BY <2>4 DEF U
  <2>6. new \in T
    BY <2>5, <1>5, <1>6
  <2>7. QED
    BY <2>4, <2>6 DEF U
<1>7. QED
  BY <1>4, <1>6 DEF Ring, M

(* What a ring is depends on the links of its places alone.                *)
LEMMA RingFrame ==
  ASSUME NEW L, NEW M, NEW S, Ring(L, S),
         \A n \in S : M[n].next = L[n].next /\ M[n].prev = L[n].prev
  PROVE  Ring(M, S)
BY DEF Ring

(* list_add puts the entry behind the head, list_add_tail before it.       *)
THEOREM AddRing ==
  ASSUME NEW D, NEW N, NEW P, NEW L \in Links(D, N, P), D \subseteq N, D \subseteq P,
         NEW S \in SUBSET D, Ring(L, S), NEW head \in S, NEW new \in D \ S
  PROVE  /\ Ring(list_add(L, new, head), S \cup {new})
         /\ Ring(list_add_tail(L, new, head), S \cup {new})
<1>1. /\ L[head].next \in S /\ L[head].prev \in S
      /\ L[L[head].prev].next = head
  BY DEF Ring
<1>2. Ring(Insert(L, new, head, L[head].next), S \cup {new})
  BY <1>1, InsertRing
<1>3. Ring(Insert(L, new, L[head].prev, head), S \cup {new})
  BY <1>1, InsertRing
<1>4. QED
  BY <1>2, <1>3 DEF list_add, list_add_tail

(* An addition changes no link outside the ring.                           *)
LEMMA AddFrame ==
  ASSUME NEW D, NEW N, NEW P, NEW L \in Links(D, N, P), D \subseteq N, D \subseteq P,
         NEW S \in SUBSET D, Ring(L, S), NEW head \in S, NEW new \in D \ S
  PROVE  /\ list_add(L, new, head) \in Links(D, N, P)
         /\ list_add(L, new, head)[head].next = new
         /\ \A n \in D \ (S \cup {new}) : list_add(L, new, head)[n] = L[n]
<1> DEFINE M == Insert(L, new, head, L[head].next)
<1>1. L[head].next \in S
  BY DEF Ring
<1>2. /\ M \in Links(D, N, P)
      /\ \A n \in D \ {new} : /\ M[n].next = IF n = head THEN new ELSE L[n].next
                             /\ M[n].prev = IF n = L[head].next THEN new ELSE L[n].prev
  <2> DEFINE next == L[head].next
  <2>1. new # head /\ new # next /\ head \in D /\ next \in D /\ new \in D
    BY <1>1
  <2> HIDE DEF next
  <2>2. /\ Insert(L, new, head, next) \in Links(D, N, P)
        /\ \A n \in D \ {new} :
             /\ Insert(L, new, head, next)[n].next = IF n = head THEN new ELSE L[n].next
             /\ Insert(L, new, head, next)[n].prev = IF n = next THEN new ELSE L[n].prev
    BY <2>1, InsertLinks
  <2>3. QED
    BY <2>2 DEF next
<1> HIDE DEF M
<1>3. ASSUME NEW n \in D \ (S \cup {new}) PROVE M[n] = L[n]
  <2>1. M[n].next = L[n].next /\ M[n].prev = L[n].prev
    BY <1>1, <1>2
  <2>2. /\ M[n] = [next |-> M[n].next, prev |-> M[n].prev]
        /\ L[n] = [next |-> L[n].next, prev |-> L[n].prev]
    BY <1>2 DEF Links
  <2>3. QED
    BY <2>1, <2>2
<1>4. M[head].next = new
  BY <1>2
<1>5. QED
  BY <1>2, <1>3, <1>4 DEF M, list_add

(* __list_del: the neighbours of the entry are linked to each other.       *)
LEMMA UnlinkLinks ==
  ASSUME NEW D, NEW N, NEW P, NEW L \in Links(D, N, P), D \subseteq N, D \subseteq P,
         NEW prev \in D, NEW next \in D
  PROVE  /\ Unlink(L, prev, next) \in Links(D, N, P)
         /\ \A n \in D :
              /\ Unlink(L, prev, next)[n].next = IF n = prev THEN next ELSE L[n].next
              /\ Unlink(L, prev, next)[n].prev = IF n = next THEN prev ELSE L[n].prev
<1> DEFINE M1 == [L EXCEPT ![next].prev = prev]
           M2 == [M1 EXCEPT ![prev].next = next]
<1>1. M1 \in [D -> [next : N, prev : P]]
      /\ \A n \in D : M1[n] = [next |-> L[n].next, prev |-> IF n = next THEN prev ELSE L[n].prev]
  BY DEF Links
<1> HIDE DEF M1
<1>2. M2 \in [D -> [next : N, prev : P]]
      /\ \A n \in D : M2[n] = [next |-> IF n = prev THEN next ELSE M1[n].next, prev |-> M1[n].prev]
  BY <1>1
<1> HIDE DEF M2
<1>3. ASSUME NEW n \in D
      PROVE  /\ M2[n].next = IF n = prev THEN next ELSE L[n].next
             /\ M2[n].prev = IF n = next THEN prev ELSE L[n].prev
  BY <1>1, <1>2
<1>4. QED
  BY <1>2, <1>3 DEF Unlink, M1, M2, Links

(* Without the entry the ring is one place shorter.                        *)
THEOREM UnlinkRing ==
  ASSUME NEW D, NEW N, NEW P, NEW L \in Links(D, N, P), D \subseteq N, D \subseteq P,
         NEW S \in SUBSET D, Ring(L, S), NEW e \in S, S # {e}
  PROVE  /\ L[e].next \in S \ {e}
         /\ Unlinked(L, e) \in Links(D, N, P)
         /\ Ring(Unlinked(L, e), S \ {e})
<1> DEFINE prev == L[e].prev
           next == L[e].next
           M == Unlink(L, prev, next)
<1>1. \A n \in S : /\ L[n].next \in S /\ L[L[n].next].prev = n
                   /\ L[n].prev \in S /\ L[L[n].prev].next = n
  BY DEF Ring
<1>2. next \in S /\ prev \in S /\ L[prev].next = e /\ L[next].prev = e
  BY <1>1
<1>3. next # e
  <2>1. SUFFICES ASSUME next = e PROVE FALSE
    OBVIOUS
  <2>2. \A n \in {e} : L[n].next \in {e}
    BY <2>1
  <2>3. {e} \in SUBSET S /\ {e} # {}
    OBVIOUS
  <2>4. QED
    BY <2>2, <2>3 DEF Ring
<1>4. prev # e
  BY <1>2, <1>3
<1> HIDE DEF prev, next
<1>5. /\ M \in Links(D, N, P)
      /\ \A n \in D : /\ M[n].next = IF n = prev THEN next ELSE L[n].next
                     /\ M[n].prev = IF n = next THEN prev ELSE L[n].prev
  <2>1. prev \in D /\ next \in D
    BY <1>2
  <2>2. QED
    BY <2>1, UnlinkLinks
<1> HIDE DEF M
<1>6. /\ M[prev].next = next /\ M[next].prev = prev
      /\ \A n \in S \ {prev} : M[n].next = L[n].next
      /\ \A n \in S \ {next} : M[n].prev = L[n].prev
  BY <1>2, <1>5
<1>7. ASSUME NEW n \in S \ {e}
      PROVE  /\ M[n].next \in S \ {e} /\ M[M[n].next].prev = n
             /\ M[n].prev \in S \ {e} /\ M[M[n].prev].next = n
  <2>1. M[n].next \in S \ {e} /\ M[M[n].next].prev = n
    <3>1. CASE n = prev
      BY <3>1, <1>2, <1>3, <1>6
    <3>2. CASE n # prev
      <4>1. M[n].next = L[n].next /\ L[n].next \in S /\ L[L[n].next].prev = n
        BY <3>2, <1>1, <1>6
      <4>2. L[n].next # e
        BY <4>1, <3>2 DEF prev
      <4>3. L[n].next # next
        BY <4>1, <1>2
      <4>4. QED
        BY <4>1, <4>2, <4>3, <1>6
    <3>3. QED
      BY <3>1, <3>2
  <2>2. M[n].prev \in S \ {e} /\ M[M[n].prev].next = n
    <3>1. CASE n = next
      BY <3>1, <1>2, <1>4, <1>6
    <3>2. CASE n # next
      <4>1. M[n].prev = L[n].prev /\ L[n].prev \in S /\ L[L[n].prev].next = n
        BY <3>2, <1>1, <1>6
      <4>2. L[n].prev # e
        BY <4>1, <3>2 DEF next
      <4>3. L[n].prev # prev
        BY <4>1, <1>2
      <4>4. QED
        BY <4>1, <4>2, <4>3, <1>6
    <3>3. QED
      BY <3>1, <3>2
  <2>3. QED
    BY <2>1, <2>2
<1>8. ASSUME NEW T \in SUBSET (S \ {e}), T # {}, \A n \in T : M[n].next \in T
      PROVE  T = S \ {e}
  <2> DEFINE U == IF prev \in T THEN T \cup {e} ELSE T
  <2>1. U \in SUBSET S /\ U # {}
    BY <1>8
  <2>2. ASSUME NEW n \in U PROVE L[n].next \in U
    <3>1. CASE n = e
      <4>1. prev \in T
        BY <3>1
      <4>2. next \in T
        BY <4>1, <1>6, <1>8
      <4>3. QED
        BY <3>1, <4>2 DEF next
    <3>2. CASE n = prev
      BY <3>2, <1>2, <1>4
    <3>3. CASE n # e /\ n # prev
      <4>1. n \in T /\ n \in S
        BY <3>3
      <4>2. QED
        BY <3>3, <4>1, <1>6, <1>8
    <3>4. QED
      BY <3>1, <3>2, <3>3
  <2> HIDE DEF U
  <2>3. U = S
    BY <2>1, <2>2 DEF Ring
  <2>4. QED
    BY <2>3 DEF U
<1>9. Ring(M, S \ {e})
  BY <1>7, <1>8 DEF Ring
<1>10. QED
  BY <1>2, <1>3, <1>5, <1>9 DEF M, next, prev, Unlinked

(* An entry that is out of the ring may be given other links.              *)
LEMMA RelinkRing ==
  ASSUME NEW D, NEW N, NEW P, NEW M \in Links(D, N, P), NEW S \in SUBSET D,
         NEW e \in D \ S, Ring(M, S), NEW r
  PROVE  Ring([M EXCEPT ![e] = r], S) /\ [M EXCEPT ![e] = r][e] = r
<1> DEFINE M2 == [M EXCEPT ![e] = r]
<1>1. M2[e] = r /\ \A n \in S : M2[n] = M[n]
  BY DEF Links
<1> HIDE DEF M2
<1>2. \A n \in S : M2[n].next = M[n].next /\ M2[n].prev = M[n].prev
  BY <1>1
<1>3. Ring(M2, S)
  BY <1>2, RingFrame
<1>4. QED
  BY <1>1, <1>3 DEF M2

(* list_del takes the entry out of the ring and poisons its links, so that *)
(* nobody can walk on from it. The entry after it, which                   *)
(* list_for_each_entry_safe holds, stays in.                               *)
THEOREM DelRing ==
  ASSUME NEW D, NEW N, NEW P, NEW L \in Links(D, N, P), D \subseteq N, D \subseteq P,
         NEW S \in SUBSET D, Ring(L, S), NEW e \in S, S # {e}
  PROVE  /\ L[e].next \in S \ {e}
         /\ Ring(list_del(L, e), S \ {e})
         /\ list_del(L, e)[e] = Poisoned
<1>1. L[e].next \in S \ {e} /\ Ring(Unlinked(L, e), S \ {e}) /\ Unlinked(L, e) \in Links(D, N, P)
  BY UnlinkRing
<1>2. S \ {e} \in SUBSET D /\ e \in D \ (S \ {e})
  OBVIOUS
<1>3. QED
  BY <1>1, <1>2, RelinkRing DEF list_del

(* list_del_init makes the entry it takes out a ring of its own.           *)
THEOREM DelInitRing ==
  ASSUME NEW D, NEW N, NEW P, NEW L \in Links(D, N, P), D \subseteq N, D \subseteq P,
         NEW S \in SUBSET D, Ring(L, S), NEW e \in S, S # {e}
  PROVE  /\ Ring(list_del_init(L, e), S \ {e})
         /\ Ring(list_del_init(L, e), {e})
<1>1. L[e].next \in S \ {e} /\ Ring(Unlinked(L, e), S \ {e}) /\ Unlinked(L, e) \in Links(D, N, P)
  BY UnlinkRing
<1>2. S \ {e} \in SUBSET D /\ e \in D \ (S \ {e}) /\ e \in D
  OBVIOUS
<1>3. Ring(INIT_LIST_HEAD(Unlinked(L, e), e), {e})
  BY <1>1, <1>2, InitRing
<1>4. Ring(INIT_LIST_HEAD(Unlinked(L, e), e), S \ {e})
  BY <1>1, <1>2, RelinkRing DEF INIT_LIST_HEAD
<1>5. QED
  BY <1>3, <1>4 DEF list_del_init

(* A deletion changes no link outside the ring.                            *)
LEMMA DelFrame ==
  ASSUME NEW D, NEW N, NEW P, NEW L \in Links(D, N, P), D \subseteq N, D \subseteq P,
         LIST_POISON1 \in N, LIST_POISON2 \in P,
         NEW S \in SUBSET D, Ring(L, S), NEW e \in S
  PROVE  /\ list_del(L, e) \in Links(D, N, P)
         /\ \A n \in D \ S : list_del(L, e)[n] = L[n]
<1> DEFINE prev == L[e].prev
           next == L[e].next
           M == Unlink(L, prev, next)
<1>1. prev \in S /\ next \in S
  BY DEF Ring
<1> HIDE DEF prev, next
<1>2. /\ M \in Links(D, N, P)
      /\ \A n \in D : /\ M[n].next = IF n = prev THEN next ELSE L[n].next
                     /\ M[n].prev = IF n = next THEN prev ELSE L[n].prev
  <2>1. prev \in D /\ next \in D
    BY <1>1
  <2>2. QED
    BY <2>1, UnlinkLinks
<1> HIDE DEF M
<1>3. ASSUME NEW n \in D \ S PROVE M[n] = L[n]
  <2>1. M[n].next = L[n].next /\ M[n].prev = L[n].prev
    BY <1>1, <1>2
  <2>2. /\ M[n] = [next |-> M[n].next, prev |-> M[n].prev]
        /\ L[n] = [next |-> L[n].next, prev |-> L[n].prev]
    BY <1>2 DEF Links
  <2>3. QED
    BY <2>1, <2>2
<1>4. list_del(L, e) = [M EXCEPT ![e] = Poisoned]
  BY DEF list_del, Unlinked, M, prev, next
<1>5. Poisoned \in [next : N, prev : P]
  BY DEF Poisoned
<1>6. QED
  BY <1>2, <1>3, <1>4, <1>5 DEF Links

(* list_move_tail and list_move inside one ring keep it.                   *)
THEOREM MoveRing ==
  ASSUME NEW D, NEW N, NEW P, NEW L \in Links(D, N, P), D \subseteq N, D \subseteq P,
         NEW S \in SUBSET D, Ring(L, S), NEW e \in S, NEW head \in S \ {e}
  PROVE  Ring(list_move(L, e, head), S) /\ Ring(list_move_tail(L, e, head), S)
<1> DEFINE M == Unlinked(L, e)
<1>1. Ring(M, S \ {e}) /\ M \in Links(D, N, P)
  <2>1. S # {e}
    OBVIOUS
  <2>2. Ring(M, S \ {e})
    BY <2>1, UnlinkRing
  <2>3. M \in Links(D, N, P)
    BY <2>1, UnlinkRing
  <2>4. QED
    BY <2>2, <2>3
<1> HIDE DEF M
<1>2. S \ {e} \in SUBSET D /\ e \in D \ (S \ {e}) /\ (S \ {e}) \cup {e} = S
  OBVIOUS
<1>3. Ring(list_add(M, e, head), S) /\ Ring(list_add_tail(M, e, head), S)
  <2>1. /\ Ring(list_add(M, e, head), (S \ {e}) \cup {e})
        /\ Ring(list_add_tail(M, e, head), (S \ {e}) \cup {e})
    BY <1>1, <1>2, AddRing
  <2>2. QED
    BY <1>2, <2>1
<1>4. QED
  BY <1>3 DEF M, list_move, list_move_tail

(* The stores of list_replace, given the neighbours it finds.              *)
LEMMA ReplaceLinks ==
  ASSUME NEW D, NEW N, NEW P, NEW L \in Links(D, N, P), D \subseteq N, D \subseteq P,
         NEW old \in D, NEW new \in D \ {old}, NEW next \in D, NEW prev \in D,
         next = L[old].next, prev = IF next = old THEN new ELSE L[old].prev, next # new
  PROVE  /\ list_replace(L, old, new)[new].next = IF prev = new THEN new ELSE next
         /\ list_replace(L, old, new)[new].prev = prev
         /\ \A n \in D \ {new} :
              /\ list_replace(L, old, new)[n].next = IF n = prev THEN new ELSE L[n].next
              /\ list_replace(L, old, new)[n].prev = IF n = next THEN new ELSE L[n].prev
<1> DEFINE M1 == [L EXCEPT ![new].next = next]
           M2 == [M1 EXCEPT ![next].prev = new]
           M3 == [M2 EXCEPT ![new].prev = prev]
           M4 == [M3 EXCEPT ![prev].next = new]
<1>1. list_replace(L, old, new) = M4
  BY DEF list_replace
<1>2. M1 \in [D -> [next : N, prev : P]]
      /\ \A n \in D : M1[n] = [next |-> IF n = new THEN next ELSE L[n].next, prev |-> L[n].prev]
  BY DEF Links
<1> HIDE DEF M1
<1>3. M2 \in [D -> [next : N, prev : P]]
      /\ \A n \in D : M2[n] = [next |-> M1[n].next, prev |-> IF n = next THEN new ELSE M1[n].prev]
  BY <1>2
<1> HIDE DEF M2
<1>4. M3 \in [D -> [next : N, prev : P]]
      /\ \A n \in D : M3[n] = [next |-> M2[n].next, prev |-> IF n = new THEN prev ELSE M2[n].prev]
  BY <1>3
<1> HIDE DEF M3
<1>5. M4 \in [D -> [next : N, prev : P]]
      /\ \A n \in D : M4[n] = [next |-> IF n = prev THEN new ELSE M3[n].next, prev |-> M3[n].prev]
  BY <1>4
<1> HIDE DEF M4
<1>6. M4[new].next = (IF prev = new THEN new ELSE next) /\ M4[new].prev = prev
  BY <1>2, <1>3, <1>4, <1>5
<1>7. ASSUME NEW n \in D \ {new}
      PROVE  /\ M4[n].next = IF n = prev THEN new ELSE L[n].next
             /\ M4[n].prev = IF n = next THEN new ELSE L[n].prev
  BY <1>2, <1>3, <1>4, <1>5
<1>8. QED
  BY <1>1, <1>6, <1>7

(* list_replace puts the new entry in the place of the old one, be it the  *)
(* only place of the ring: it reads new->prev after it has stored old->prev*)
(* through old->next.                                                      *)
THEOREM ReplaceRing ==
  ASSUME NEW D, NEW N, NEW P, NEW L \in Links(D, N, P), D \subseteq N, D \subseteq P,
         NEW S \in SUBSET D, Ring(L, S), NEW old \in S, NEW new \in D \ S
  PROVE  Ring(list_replace(L, old, new), (S \ {old}) \cup {new})
<1> DEFINE next == L[old].next
           prev == IF next = old THEN new ELSE L[old].prev
           M == list_replace(L, old, new)
           R == (S \ {old}) \cup {new}
<1>1. \A n \in S : /\ L[n].next \in S /\ L[L[n].next].prev = n
                   /\ L[n].prev \in S /\ L[L[n].prev].next = n
  BY DEF Ring
<1>2. /\ M[new].next = IF prev = new THEN new ELSE next
      /\ M[new].prev = prev
      /\ \A n \in S : /\ M[n].next = IF n = prev THEN new ELSE L[n].next
                      /\ M[n].prev = IF n = next THEN new ELSE L[n].prev
  <2>1. next \in S /\ prev \in D /\ next = L[old].next
        /\ prev = IF next = old THEN new ELSE L[old].prev
    BY <1>1
  <2> HIDE DEF next, prev
  <2>2. old \in D /\ new \in D \ {old} /\ next \in D /\ next # new
    BY <2>1
  <2>3. /\ list_replace(L, old, new)[new].next = IF prev = new THEN new ELSE next
        /\ list_replace(L, old, new)[new].prev = prev
        /\ \A n \in D \ {new} :
             /\ list_replace(L, old, new)[n].next = IF n = prev THEN new ELSE L[n].next
             /\ list_replace(L, old, new)[n].prev = IF n = next THEN new ELSE L[n].prev
    BY <2>1, <2>2, ReplaceLinks
  <2>4. S \subseteq D \ {new}
    OBVIOUS
  <2>5. QED
    BY <2>3, <2>4
<1> HIDE DEF M
<1>3. CASE next = old
  <2>1. S = {old}
    <3>1. \A n \in {old} : L[n].next \in {old}
      BY <1>3
    <3>2. {old} \in SUBSET S /\ {old} # {}
      OBVIOUS
    <3>3. QED
      BY <3>1, <3>2 DEF Ring
  <2>2. M[new].next = new /\ M[new].prev = new
    BY <1>2, <1>3
  <2>3. R = {new}
    BY <2>1
  <2>4. Ring(M, {new})
    BY <2>2 DEF Ring
  <2>5. QED
    BY <2>3, <2>4 DEF M
<1>4. CASE next # old
  <2>1. /\ next \in S \ {old} /\ L[next].prev = old
        /\ prev \in S \ {old} /\ L[prev].next = old
    BY <1>1, <1>4
  <2>2. /\ M[new].next = next /\ M[new].prev = prev
        /\ M[prev].next = new /\ M[next].prev = new
        /\ \A n \in S \ {prev} : M[n].next = L[n].next
        /\ \A n \in S \ {next} : M[n].prev = L[n].prev
    BY <1>2, <2>1
  <2>3. L[old].next = next /\ L[old].prev = prev
    BY <1>4
  <2> HIDE DEF next, prev, R
  <2>4. R = (S \ {old}) \cup {new}
    BY DEF R
  <2>5. ASSUME NEW n \in R
        PROVE  /\ M[n].next \in R /\ M[M[n].next].prev = n
               /\ M[n].prev \in R /\ M[M[n].prev].next = n
    <3>1. CASE n = new
      BY <3>1, <2>1, <2>2, <2>4
    <3>2. CASE n # new
      <4>1. n \in S \ {old}
        BY <3>2, <2>4
      <4>2. M[n].next \in R /\ M[M[n].next].prev = n
        <5>1. CASE n = prev
          BY <5>1, <2>2, <2>4
        <5>2. CASE n # prev
          <6>1. M[n].next = L[n].next /\ L[n].next \in S /\ L[L[n].next].prev = n
            BY <4>1, <5>2, <1>1, <2>2
          <6>2. L[n].next # old /\ L[n].next # next
            BY <4>1, <5>2, <6>1, <2>1, <2>3
          <6>3. QED
            BY <6>1, <6>2, <2>2, <2>4
        <5>3. QED
          BY <5>1, <5>2
      <4>3. M[n].prev \in R /\ M[M[n].prev].next = n
        <5>1. CASE n = next
          BY <5>1, <2>2, <2>4
        <5>2. CASE n # next
          <6>1. M[n].prev = L[n].prev /\ L[n].prev \in S /\ L[L[n].prev].next = n
            BY <4>1, <5>2, <1>1, <2>2
          <6>2. L[n].prev # old /\ L[n].prev # prev
            BY <4>1, <5>2, <6>1, <2>1, <2>3
          <6>3. QED
            BY <6>1, <6>2, <2>2, <2>4
        <5>3. QED
          BY <5>1, <5>2
      <4>4. QED
        BY <4>2, <4>3
    <3>3. QED
      BY <3>1, <3>2
  <2>6. ASSUME NEW T \in SUBSET R, T # {}, \A n \in T : M[n].next \in T
        PROVE  T = R
    <3> DEFINE U == (T \ {new}) \cup (IF new \in T THEN {old} ELSE {})
    <3>1. U \in SUBSET S /\ U # {}
      BY <2>4, <2>6
    <3>2. ASSUME NEW n \in U PROVE L[n].next \in U
      <4>1. CASE n = old
        <5>1. new \in T
          BY <4>1, <2>4
        <5>2. next \in T
          BY <5>1, <2>2, <2>6
        <5>3. QED
          BY <4>1, <5>2, <2>1, <2>3
      <4>2. CASE n = prev
        <5>1. prev \in T
          BY <4>2, <2>1
        <5>2. new \in T
          BY <5>1, <2>2, <2>6
        <5>3. QED
          BY <4>2, <5>2, <2>1
      <4>3. CASE n # old /\ n # prev
        <5>1. n \in T /\ n \in S
          BY <4>3, <3>1
        <5>2. L[n].next \in T /\ L[n].next \in S
          BY <4>3, <5>1, <1>1, <2>2, <2>6
        <5>3. QED
          BY <5>2
      <4>4. QED
        BY <4>1, <4>2, <4>3
    <3> HIDE DEF U
    <3>3. U = S
      BY <3>1, <3>2 DEF Ring
    <3>4. new \in T
      BY <3>3, <2>4 DEF U
    <3>5. QED
      BY <3>3, <3>4, <2>4 DEF U
  <2>7. QED
    BY <2>4, <2>5, <2>6 DEF Ring, M
<1>5. QED
  BY <1>3, <1>4

=============================================================================
