----------------------------- MODULE LinkedList -----------------------------
(***************************************************************************)
(* The doubly linked lists of list.h, as operators on the memory L that    *)
(* holds their links: L[n] are the next and prev of the list_head at n, be *)
(* it the head of a list or a member of an entry. A store through a pointer*)
(* to no list_head, a poisoned one, changes nothing that is in L.          *)
(***************************************************************************)
CONSTANTS LIST_POISON1, LIST_POISON2

(* Memory for the list_heads at D whose links lead into N and P.           *)
Links(D, N, P) == [D -> [next : N, prev : P]]

Alone(n) == [next |-> n, prev |-> n]
Poisoned == [next |-> LIST_POISON1, prev |-> LIST_POISON2]

INIT_LIST_HEAD(L, n) == [L EXCEPT ![n] = Alone(n)]

(* The four stores of __list_add, in their order. *)
Insert(L, new, prev, next) ==
  [L EXCEPT ![next].prev = new, ![new].next = next, ![new].prev = prev, ![prev].next = new]

list_add(L, new, head) == Insert(L, new, head, L[head].next)
list_add_tail(L, new, head) == Insert(L, new, L[head].prev, head)

(* Variant: the link back is left as it was. *)
UnlinkForward(L, prev, next) == [L EXCEPT ![prev].next = next]

(* __list_del *)
Unlink(L, prev, next) == [L EXCEPT ![next].prev = prev, ![prev].next = next]

Unlinked(L, e) == Unlink(L, L[e].prev, L[e].next)

list_del(L, e) == [Unlinked(L, e) EXCEPT ![e] = Poisoned]
list_del_init(L, e) == INIT_LIST_HEAD(Unlinked(L, e), e)

list_replace(L, old, new) ==
  [L EXCEPT ![new].next = L[old].next, ![L[old].next].prev = new,
            ![new].prev = IF L[old].next = old THEN new ELSE L[old].prev,
            ![IF L[old].next = old THEN new ELSE L[old].prev].next = new]
list_replace_init(L, old, new) == INIT_LIST_HEAD(list_replace(L, old, new), old)

list_move(L, e, head) == list_add(Unlinked(L, e), e, head)
list_move_tail(L, e, head) == list_add_tail(Unlinked(L, e), e, head)

list_is_last(L, e, head) == L[e].next = head
list_empty(L, head) == L[head].next = head
list_empty_careful(L, head) == L[head].next = head /\ L[head].prev = head
list_is_singular(L, head) == ~list_empty(L, head) /\ L[head].next = L[head].prev

-----------------------------------------------------------------------------
(* What the links stand for: S is a ring when the two links of each of its *)
(* places lead to places of S and are each other's inverse, and whoever    *)
(* follows next from one place comes past all (no part of S is closed).    *)

Ring(L, S) ==
  /\ \A n \in S : /\ L[n].next \in S /\ L[L[n].next].prev = n
                  /\ L[n].prev \in S /\ L[L[n].prev].next = n
  /\ \A T \in SUBSET S : T # {} /\ (\A n \in T : L[n].next \in T) => T = S

=============================================================================
