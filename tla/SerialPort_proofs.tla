-------------------------- MODULE SerialPort_proofs --------------------------
(***************************************************************************)
(* The registry of serial_port.c: what g_mangers protects holds for any    *)
(* number of threads, ports and references, and for every Env.             *)
(***************************************************************************)
EXTENDS SerialPort, LinkedList_proofs, FiniteSetTheorems

(* Where a thread stands inside g_mangers, and the statements of each      *)
(* call.                                                                   *)
Locked  == {"register", "share", "create", "drop", "bury"}
Newing  == {"new", "register", "share", "create"}
Opening == {"count", "driver", "opening", "count_up"}
Shutting == {"check", "count_down", "last", "restore", "closing", "closed"}
Doing   == {"io", "wait", "transfer"}
Burying == {"destory", "drop", "bury"}

(* The types, without the sign of opencount: two threads that close one    *)
(* port at once may bring it below 0.                                      *)
Types ==
  /\ links \in Links(Node, Node \cup {LIST_POISON1}, Node \cup {LIST_POISON2})
  /\ port \in [Ctx -> Port(Int) \cup {Freed}]
  /\ g \in Thread \cup {None}
  /\ call \in [Thread -> [pc : Place, op : Op \cup {"none", "new", "destory"},
                          ctx : Ctx \cup {None}, pos : Node \cup {None},
                          want : SUBSET Request]]
  /\ held \in [Thread -> [Ctx -> 0..MaxRefs]]
  /\ fds \subseteq Fd
  /\ fault \in BOOLEAN

(* A statement belongs to its call.                                        *)
OpFits(k) ==
  /\ k.pc = "idle" => k.op = "none"
  /\ k.pc \in Newing => k.op = "new"
  /\ k.pc = "walk" => k.op \in Op
  /\ k.pc \in Opening => k.op = "open"
  /\ k.pc \in Shutting => k.op = "close"
  /\ k.pc = "acquire" => k.op = "lock"
  /\ k.pc = "release" => k.op = "unlock"
  /\ k.pc \in Doing => k.op = "io"
  /\ k.pc = "flush" => k.op = "clean"
  /\ k.pc \in Burying => k.op = "destory"

(* What a thread may rely on where it stands: g_mangers is its own exactly *)
(* between lock and unlock; serial_new has room for a reference, creates   *)
(* only while its device is not listed, and shares a port that is; whoever *)
(* is in another call has a reference to its port, which serial_destory    *)
(* alone gives up before the port is freed.                                *)
CallInv(t) ==
  /\ OpFits(call[t])
  /\ call[t].pc \in Locked <=> g = t
  /\ call[t].pc \in Newing => \A c \in Ctx : held[t][c] < MaxRefs
  /\ call[t].pc \in Newing => \E r \in Request : call[t].want = {r}
  /\ call[t].pc = "create" => \A r \in call[t].want : On(r.device) = {}
  /\ call[t].pc = "share" => call[t].ctx \in Listed
  /\ call[t].pc \notin Newing \cup {"idle", "bury"} =>
       call[t].ctx \in Ctx /\ held[t][call[t].ctx] > 0
  /\ call[t].pc = "bury" => call[t].ctx \in Listed

(* The inductive invariant of the registry, for every Env.                 *)
IInv == Types /\ (\A t \in Thread : CallInv(t)) /\ RegistryRing /\ OnePortPerDevice /\ RefcountExact

-----------------------------------------------------------------------------
(* The references to a port, counted.                                      *)

Refs(h, c) == {p \in Thread \X (1..MaxRefs) : p[2] <= h[p[1]][c]}

(* The references to a port are finitely many.                             *)
LEMMA RefsFinite ==
  ASSUME NEW h, NEW c
  PROVE  IsFiniteSet(Refs(h, c)) /\ Cardinality(Refs(h, c)) \in Nat
<1>1. IsFiniteSet(1..MaxRefs)
  BY FS_Interval, SerialPortAssumption
<1>2. IsFiniteSet(Thread \X (1..MaxRefs))
  BY <1>1, FS_Product, SerialPortAssumption
<1>3. Refs(h, c) \subseteq Thread \X (1..MaxRefs)
  BY DEF Refs
<1>4. QED
  BY <1>2, <1>3, FS_Subset, FS_CardinalityType

(* k counts one reference more, or less, of t to c than h does.            *)
Holding == [Thread -> [Ctx -> 0..MaxRefs]]
OneMore(h, k, t, c) == h \in Holding /\ h[t][c] < MaxRefs /\ k = [h EXCEPT ![t][c] = @ + 1]
OneLess(h, k, t, c) == h \in Holding /\ h[t][c] > 0 /\ k = [h EXCEPT ![t][c] = @ - 1]

(* A reference more is one pair more.                                      *)
LEMMA RefsUp ==
  ASSUME NEW h, NEW k, NEW t \in Thread, NEW c \in Ctx, OneMore(h, k, t, c)
  PROVE  /\ k \in Holding
         /\ Cardinality(Refs(k, c)) = Cardinality(Refs(h, c)) + 1
         /\ \A d \in Ctx \ {c} : Refs(k, d) = Refs(h, d)
<1> USE DEF OneMore, Holding
<1> DEFINE n == h[t][c] + 1
<1>1. MaxRefs \in Nat
  BY SerialPortAssumption
<1>2. h[t][c] \in Nat /\ n \in 1..MaxRefs
  BY <1>1
<1>3. k \in [Thread -> [Ctx -> 0..MaxRefs]]
  BY <1>1, <1>2
<1>4. \A u \in Thread, d \in Ctx : k[u][d] = IF u = t /\ d = c THEN n ELSE h[u][d]
  OBVIOUS
<1> HIDE DEF n
<1>5. Refs(k, c) = Refs(h, c) \cup {<<t, n>>}
  <2>1. ASSUME NEW p \in Thread \X (1..MaxRefs)
        PROVE  p \in Refs(k, c) <=> p \in Refs(h, c) \/ p = <<t, n>>
    <3>1. p = <<p[1], p[2]>> /\ p[1] \in Thread /\ p[2] \in 1..MaxRefs
      OBVIOUS
    <3>2. p = <<t, n>> <=> p[1] = t /\ p[2] = n
      <4> DEFINE u == p[1]
                 i == p[2]
      <4>1. p = <<u, i>>
        BY <3>1
      <4> HIDE DEF u, i
      <4>2. p = <<t, n>> <=> u = t /\ i = n
        BY <4>1
      <4>3. QED
        BY <4>2 DEF u, i
    <3>3. h[p[1]][c] \in Nat
      BY <1>1, <3>1
    <3>4. p[2] <= k[p[1]][c] <=> p[2] <= h[p[1]][c] \/ (p[1] = t /\ p[2] = n)
      <4> DEFINE u == p[1]
                 i == p[2]
      <4>1. u \in Thread /\ i \in Nat /\ h[u][c] \in Nat
        BY <3>1, <3>3
      <4>2. k[u][c] = IF u = t THEN n ELSE h[u][c]
        BY <4>1, <1>4
      <4> HIDE DEF u, i
      <4>3. i <= k[u][c] <=> i <= h[u][c] \/ (u = t /\ i = n)
        <5> DEFINE x == h[u][c]
        <5>1. x \in Nat /\ (u = t => n = x + 1)
          BY <4>1, <1>2 DEF n
        <5>2. k[u][c] = IF u = t THEN n ELSE x
          BY <4>2
        <5> HIDE DEF x
        <5>3. i <= k[u][c] <=> i <= x \/ (u = t /\ i = n)
          BY <4>1, <5>1, <5>2
        <5>4. QED
          BY <5>3 DEF x
      <4>4. QED
        BY <4>3 DEF u, i
    <3>5. QED
      BY <3>2, <3>4 DEF Refs
  <2>2. <<t, n>> \in Thread \X (1..MaxRefs)
    BY <1>2
  <2>3. Refs(k, c) \subseteq Thread \X (1..MaxRefs) /\ Refs(h, c) \subseteq Thread \X (1..MaxRefs)
    BY DEF Refs
  <2>4. QED
    BY <2>1, <2>2, <2>3
<1>6. <<t, n>> \notin Refs(h, c)
  BY <1>2 DEF Refs, n
<1>7. Cardinality(Refs(k, c)) = Cardinality(Refs(h, c)) + 1
  BY <1>5, <1>6, RefsFinite, FS_AddElement
<1>8. \A d \in Ctx \ {c} : Refs(k, d) = Refs(h, d)
  BY <1>4 DEF Refs
<1>9. QED
  BY <1>3, <1>7, <1>8

(* A reference less is one pair less.                                      *)
LEMMA RefsDown ==
  ASSUME NEW h, NEW k, NEW t \in Thread, NEW c \in Ctx, OneLess(h, k, t, c)
  PROVE  /\ k \in Holding
         /\ Cardinality(Refs(k, c)) = Cardinality(Refs(h, c)) - 1
         /\ \A d \in Ctx \ {c} : Refs(k, d) = Refs(h, d)
<1> USE DEF OneLess, Holding
<1>1. MaxRefs \in Nat /\ h[t][c] \in 1..MaxRefs
  BY SerialPortAssumption
<1>2. h[t][c] - 1 \in 0..MaxRefs /\ h[t][c] - 1 < MaxRefs /\ h[t][c] = (h[t][c] - 1) + 1
  BY <1>1
<1>3. k \in [Thread -> [Ctx -> 0..MaxRefs]]
  BY <1>2
<1>4. k[t][c] = h[t][c] - 1
  OBVIOUS
<1>5. h = [k EXCEPT ![t][c] = h[t][c]]
  OBVIOUS
<1>6. h = [k EXCEPT ![t][c] = @ + 1]
  BY <1>2, <1>4, <1>5
<1>7. k[t][c] < MaxRefs
  BY <1>2, <1>4
<1>8. /\ Cardinality(Refs(h, c)) = Cardinality(Refs(k, c)) + 1
      /\ \A d \in Ctx \ {c} : Refs(h, d) = Refs(k, d)
  BY <1>3, <1>6, <1>7, RefsUp DEF OneMore
<1>9. Cardinality(Refs(k, c)) \in Nat
  BY RefsFinite
<1>10. Cardinality(Refs(k, c)) = Cardinality(Refs(h, c)) - 1
  <2> DEFINE x == Cardinality(Refs(k, c))
             y == Cardinality(Refs(h, c))
  <2>1. x \in Nat /\ y = x + 1
    BY <1>8, <1>9
  <2> HIDE DEF x, y
  <2>2. x = y - 1
    BY <2>1
  <2>3. QED
    BY <2>2 DEF x, y
<1>11. QED
  BY <1>3, <1>8, <1>10

(* Whoever has a reference to a port has one to a port that is listed.     *)
LEMMA HeldListed ==
  ASSUME IInv
  PROVE  /\ \A t \in Thread, c \in Ctx : held[t][c] > 0 => c \in Listed /\ port[c].refcount > 0
         /\ \A t \in Thread, c \in Ctx \ Listed : held[t][c] = 0
         /\ \A c \in Listed, t \in Thread : port[c].refcount = 0 => held[t][c] = 0
<1>1. ASSUME NEW t \in Thread, NEW c \in Ctx, held[t][c] > 0
      PROVE  c \in Listed /\ port[c].refcount > 0
  <2>1. held[t][c] \in 0..MaxRefs /\ MaxRefs \in Nat
    BY SerialPortAssumption DEF IInv, Types
  <2>2. <<t, 1>> \in References(c)
    BY <1>1, <2>1 DEF References
  <2>3. References(c) = Refs(held, c)
    BY DEF References, Refs
  <2>4. Cardinality(References(c)) # 0 /\ Cardinality(References(c)) \in Nat
    BY <2>2, <2>3, RefsFinite, FS_EmptySet
  <2>5. Cardinality(References(c)) = IF c \in Listed THEN port[c].refcount ELSE 0
    BY DEF IInv, RefcountExact
  <2>6. QED
    BY <2>4, <2>5
<1>2. \A t \in Thread, c \in Ctx : held[t][c] \in Nat
  BY SerialPortAssumption DEF IInv, Types
<1>3. QED
  BY <1>1, <1>2 DEF Listed

-----------------------------------------------------------------------------
(* What most steps leave alone, and what follows for the threads that do   *)
(* not move.                                                               *)

Kept ==
  /\ Listed' = Listed
  /\ \A c \in Listed : /\ port'[c].device = port[c].device
                       /\ port'[c].setting = port[c].setting
                       /\ port'[c].shared = port[c].shared
                       /\ port'[c].refcount = port[c].refcount
  /\ links' = links /\ held' = held

PortData ==
  /\ port \in [Ctx -> Port(Int) \cup {Freed}]
  /\ fds \subseteq Fd
  /\ fault \in BOOLEAN

Call == [pc : Place, op : Op \cup {"none", "new", "destory"}, ctx : Ctx \cup {None},
         pos : Node \cup {None}, want : SUBSET Request]

Others(t) == \A u \in Thread \ {t} : call'[u] = call[u] /\ (g' = u <=> g = u)

(* An allocated port is a port, and no port looks like free memory.        *)
LEMMA ListedPort ==
  ASSUME Types
  PROVE  /\ \A c \in Listed : c \in Ctx /\ port[c] \in Port(Int)
         /\ \A p \in Port(Int) : p # Freed
         /\ \A d : On(d) \subseteq Listed
<1>1. \A p \in Port(Int) : p.device \in Device
  BY DEF Port
<1>2. Freed.device \notin Device
  BY SerialPortAssumption DEF Freed
<1>3. QED
  BY <1>1, <1>2 DEF Types, Listed, On

(* A device is on the same ports.                                          *)
LEMMA KeptOn ==
  ASSUME Kept
  PROVE  \A d : On(d)' = On(d)
BY DEF Kept, On

(* The registry is as sound as it was.                                     *)
LEMMA KeptRegistry ==
  ASSUME IInv, Kept
  PROVE  RegistryRing' /\ OnePortPerDevice' /\ RefcountExact'
<1>1. RegistryRing'
  BY DEF IInv, Kept, RegistryRing
<1>2. OnePortPerDevice'
  BY DEF IInv, Kept, OnePortPerDevice
<1>3. RefcountExact'
  BY DEF IInv, Kept, RefcountExact, References
<1>4. QED
  BY <1>1, <1>2, <1>3

(* A thread that does not move may rely on what it relied on.              *)
LEMMA OthersInv ==
  ASSUME IInv, Kept, NEW t \in Thread, Others(t), NEW u \in Thread \ {t}
  PROVE  CallInv(u)'
<1>1. call'[u] = call[u] /\ (g' = u <=> g = u)
  BY DEF Others
<1>2. CallInv(u)
  BY DEF IInv
<1>3. \A d : On(d)' = On(d)
  BY KeptOn
<1>4. Listed' = Listed /\ held' = held
  BY DEF Kept
<1>5. QED
  BY <1>1, <1>2, <1>3, <1>4 DEF CallInv

(* The invariant after a step that keeps the registry, from the types and  *)
(* from what the moving thread relies on.                                  *)
LEMMA StepInv ==
  ASSUME IInv, Kept, NEW t \in Thread, Others(t), PortData', g' \in Thread \cup {None},
         call' \in [Thread -> Call], CallInv(t)'
  PROVE  IInv'
<1>1. Types'
  BY DEF IInv, Types, PortData, Call, Kept, Node
<1>2. \A u \in Thread : CallInv(u)'
  BY OthersInv
<1>3. QED
  BY <1>1, <1>2, KeptRegistry DEF IInv

(* Goto moves one thread and nothing of its call but the statement.        *)
LEMMA GotoCall ==
  ASSUME Types, NEW t \in Thread, NEW pc \in Place, Goto(t, pc)
  PROVE  /\ call' \in [Thread -> Call]
         /\ call'[t] = [call[t] EXCEPT !.pc = pc]
         /\ \A u \in Thread \ {t} : call'[u] = call[u]
BY ZenonT(60) DEF Types, Goto, Call

(* Return ends one thread's call.                                          *)
LEMMA ReturnCall ==
  ASSUME Types, NEW t \in Thread, Return(t)
  PROVE  /\ call' \in [Thread -> Call]
         /\ call'[t] = Idle
         /\ \A u \in Thread \ {t} : call'[u] = call[u]
BY DEF Types, Return, Call, Idle, Place

(* Between its statements outside g_mangers a thread goes on.              *)
Unlocked == {"walk"} \cup Opening \cup Shutting \cup {"acquire", "release", "flush"} \cup Doing

LEMMA Advance ==
  ASSUME IInv, Kept, NEW t \in Thread, NEW pc \in Unlocked, call[t].pc \in Unlocked,
         Goto(t, pc), OpFits([call[t] EXCEPT !.pc = pc]), PortData', g' = g
  PROVE  IInv'
<1>1. Types /\ CallInv(t)
  BY DEF IInv
<1>2. pc \in Place
  BY DEF Unlocked, Place, Opening, Shutting, Doing
<1>3. /\ call' \in [Thread -> Call]
      /\ call'[t] = [call[t] EXCEPT !.pc = pc]
      /\ \A u \in Thread \ {t} : call'[u] = call[u]
  BY <1>1, <1>2, GotoCall
<1>4. call'[t].pc = pc /\ call'[t].ctx = call[t].ctx /\ call'[t].want = call[t].want
  BY <1>1, <1>3 DEF Types
<1>5. CallInv(t)'
  <2>1. OpFits(call'[t])
    BY <1>3
  <2>2. held' = held
    BY DEF Kept
  <2>3. pc \notin Locked /\ pc \notin Newing /\ pc \notin {"idle", "bury"} /\ pc # "create" /\ pc # "share"
    BY DEF Unlocked, Opening, Shutting, Doing, Locked, Newing
  <2>4. call[t].pc \notin Locked /\ call[t].pc \notin Newing \cup {"idle", "bury"}
    BY DEF Unlocked, Opening, Shutting, Doing, Locked, Newing
  <2>5. g # t /\ call[t].ctx \in Ctx /\ held[t][call[t].ctx] > 0
    BY <1>1, <2>4 DEF CallInv
  <2>6. QED
    BY <1>4, <2>1, <2>2, <2>3, <2>5 DEF CallInv
<1>6. Others(t) /\ g' \in Thread \cup {None}
  BY <1>1, <1>3 DEF Others, Types
<1>7. QED
  BY <1>3, <1>5, <1>6, StepInv

(* A call returns, and lets go of g_mangers if it has it.                  *)
LEMMA Leave ==
  ASSUME IInv, Kept, NEW t \in Thread, Return(t), PortData',
         g' = IF call[t].pc \in Locked THEN None ELSE g
  PROVE  IInv'
<1>1. Types /\ CallInv(t)
  BY DEF IInv
<1>2. /\ call' \in [Thread -> Call]
      /\ call'[t] = Idle
      /\ \A u \in Thread \ {t} : call'[u] = call[u]
  BY <1>1, ReturnCall
<1>3. None \notin Thread
  BY SerialPortAssumption
<1>4. call[t].pc \in Locked <=> g = t
  BY <1>1 DEF CallInv
<1>5. g' # t /\ g' \in Thread \cup {None} /\ \A u \in Thread \ {t} : g' = u <=> g = u
  BY <1>1, <1>3, <1>4 DEF Types
<1>6. CallInv(t)'
  <2>1. call'[t].pc = "idle" /\ call'[t].op = "none"
    BY <1>2 DEF Idle
  <2>2. QED
    BY <1>5, <2>1 DEF CallInv, OpFits, Locked, Newing, Opening, Shutting, Doing, Burying
<1>7. Others(t)
  BY <1>2, <1>5 DEF Others
<1>8. QED
  BY <1>2, <1>5, <1>6, <1>7, StepInv

(* A step that leaves the ports and the list alone.                        *)
LEMMA AllKept ==
  ASSUME UNCHANGED <<port, links, held>>
  PROVE  Kept
BY DEF Kept, Listed

(* A port that changes in what the registry does not look at.              *)
LEMMA PortKept ==
  ASSUME Types, NEW c \in Listed, NEW p \in Port(Int),
         p.device = port[c].device, p.setting = port[c].setting,
         p.shared = port[c].shared, p.refcount = port[c].refcount,
         port' = [port EXCEPT ![c] = p], links' = links, held' = held
  PROVE  Kept /\ port' \in [Ctx -> Port(Int) \cup {Freed}]
<1>1. c \in Ctx /\ p # Freed
  BY ListedPort
<1>2. port' \in [Ctx -> Port(Int) \cup {Freed}]
  BY <1>1 DEF Types
<1>3. \A d \in Ctx : port'[d] = IF d = c THEN p ELSE port[d]
  BY <1>1 DEF Types
<1>4. Listed' = Listed
  BY <1>1, <1>3 DEF Listed
<1>5. \A d \in Listed : /\ port'[d].device = port[d].device
                       /\ port'[d].setting = port[d].setting
                       /\ port'[d].shared = port[d].shared
                       /\ port'[d].refcount = port[d].refcount
  BY <1>3, ListedPort
<1>6. QED
  BY <1>2, <1>4, <1>5 DEF Kept

-----------------------------------------------------------------------------
(* The steps of the calls that do not take g_mangers.                      *)

(* A step that changes only calls and mutexes keeps the types.             *)
LEMMA SameData ==
  ASSUME Types, UNCHANGED <<port, fds, fault>>
  PROVE  PortData'
BY DEF Types, PortData

(* A thread that has found its port stands on one that is listed.          *)
LEMMA OnListed ==
  ASSUME IInv, NEW t \in Thread, call[t].pc \in Unlocked \cup {"destory", "drop"}
  PROVE  call[t].ctx \in Listed /\ held[t][call[t].ctx] > 0
<1>1. call[t].pc \notin Newing \cup {"idle", "bury"}
  BY DEF Unlocked, Opening, Shutting, Doing, Newing
<1>2. CallInv(t)
  BY DEF IInv
<1>3. call[t].ctx \in Ctx /\ held[t][call[t].ctx] > 0
  BY <1>1, <1>2 DEF CallInv
<1>4. QED
  BY <1>3, HeldListed

(* The invariant of an empty registry.                                     *)
LEMMA FirstInv ==
  ASSUME Init
  PROVE  IInv
<1>1. \A c \in Ctx : port[c] = Freed
  BY DEF Init
<1>2. Listed = {}
  BY <1>1 DEF Listed
<1>3. MaxRefs \in Nat /\ serial_mangers \notin Ctx /\ None \notin Thread
  BY SerialPortAssumption
<1>4. \A n \in Node : links[n] = IF n = serial_mangers THEN Alone(n) ELSE Poisoned
  BY DEF Init, Node
<1>5. Types
  <2>1. links \in Links(Node, Node \cup {LIST_POISON1}, Node \cup {LIST_POISON2})
    BY DEF Init, Links, Node, Alone, Poisoned
  <2>2. port \in [Ctx -> Port(Int) \cup {Freed}] /\ g \in Thread \cup {None}
    BY DEF Init
  <2>3. call \in [Thread -> Call]
    BY DEF Init, Idle, Call, Place
  <2>4. held \in [Thread -> [Ctx -> 0..MaxRefs]]
    BY <1>3 DEF Init
  <2>5. fds \subseteq Fd /\ fault \in BOOLEAN
    BY DEF Init
  <2>6. QED
    BY <2>1, <2>2, <2>3, <2>4, <2>5 DEF Types, Call
<1>6. ASSUME NEW t \in Thread
      PROVE  CallInv(t)
  <2>1. call[t].pc = "idle" /\ call[t].op = "none" /\ g # t
    BY <1>3 DEF Init, Idle
  <2>2. QED
    BY <2>1 DEF CallInv, OpFits, Locked, Newing, Opening, Shutting, Doing, Burying
<1>7. RegistryRing
  <2>1. links[serial_mangers] = Alone(serial_mangers)
    BY <1>4 DEF Node
  <2>2. Ring(links, {serial_mangers})
    BY <2>1 DEF Ring, Alone
  <2>3. \A c \in Ctx : links[c] = Poisoned
    BY <1>3, <1>4 DEF Node
  <2>4. QED
    BY <1>2, <2>2, <2>3 DEF RegistryRing
<1>8. OnePortPerDevice
  BY <1>2 DEF OnePortPerDevice
<1>9. ASSUME NEW c \in Ctx
      PROVE  Cardinality(References(c)) = 0
  <2>1. \A t \in Thread : held[t][c] = 0
    BY DEF Init
  <2>2. References(c) = {}
    BY <2>1 DEF References
  <2>3. QED
    BY <2>2, FS_EmptySet
<1>10. QED
  BY <1>2, <1>5, <1>6, <1>7, <1>8, <1>9 DEF IInv, RefcountExact

(* A call that starts with a reference keeps the invariant: it walks from  *)
(* the head, or it goes for g_mangers.                                     *)
LEMMA StartInv ==
  ASSUME IInv, NEW t \in Thread,
         \/ \E op \in Op, c \in Ctx : CallStarts(t, op, c)
         \/ \E c \in Ctx : DestoryStarts(t, c)
  PROVE  IInv'
<1>1. Types /\ CallInv(t) /\ g # t
  <2>1. call[t].pc = "idle"
    BY DEF CallStarts, DestoryStarts, AtPc
  <2>2. QED
    BY <2>1 DEF IInv, CallInv, Locked
<1>2. links[serial_mangers].next \in Node
  <2>1. serial_mangers \in Listed \cup {serial_mangers} /\ Listed \subseteq Ctx
    BY DEF Listed
  <2>2. QED
    BY <2>1 DEF IInv, RegistryRing, Ring, Node
<1>3. Kept /\ PortData' /\ g' = g
  BY <1>1, AllKept, SameData DEF CallStarts, DestoryStarts
<1>4. call' \in [Thread -> Call] /\ \A u \in Thread \ {t} : call'[u] = call[u]
  <2>1. ASSUME NEW op \in Op, NEW c \in Ctx, CallStarts(t, op, c)
        PROVE  \E k \in Call : call' = [call EXCEPT ![t] = k]
    <3> DEFINE k == [pc |-> "walk", op |-> op, ctx |-> c,
                     pos |-> links[serial_mangers].next, want |-> {}]
    <3>1. k \in Call
      BY <1>2 DEF Call, Place
    <3>2. call' = [call EXCEPT ![t] = k]
      BY <2>1 DEF CallStarts
    <3>3. QED
      BY <3>1, <3>2
  <2>2. ASSUME NEW c \in Ctx, DestoryStarts(t, c)
        PROVE  \E k \in Call : call' = [call EXCEPT ![t] = k]
    <3> DEFINE k == [call[t] EXCEPT !.pc = "destory", !.op = "destory", !.ctx = c]
    <3>1. k \in Call
      BY <1>1, ZenonT(60) DEF Types, Call, Place
    <3>2. call' = [call EXCEPT ![t] = k]
      BY <1>1, <2>2 DEF DestoryStarts, Types
    <3>3. QED
      BY <3>1, <3>2
  <2>3. PICK k \in Call : call' = [call EXCEPT ![t] = k]
    BY <2>1, <2>2
  <2>4. call \in [Thread -> Call]
    BY <1>1 DEF Types, Call
  <2>5. QED
    BY <2>3, <2>4
<1>5. PICK c \in Ctx : /\ call'[t].ctx = c /\ held[t][c] > 0
                     /\ \/ call'[t].pc = "walk" /\ call'[t].op \in Op
                        \/ call'[t].pc = "destory" /\ call'[t].op = "destory"
  BY <1>1 DEF Types, CallStarts, DestoryStarts
<1>6. held' = held
  BY <1>3 DEF Kept
<1>7. CallInv(t)'
  BY <1>1, <1>3, <1>5, <1>6 DEF CallInv, OpFits, Locked, Newing, Opening, Shutting, Doing, Burying
<1>8. Others(t) /\ g' \in Thread \cup {None}
  BY <1>1, <1>3, <1>4 DEF Others, Types
<1>9. QED
  BY <1>3, <1>4, <1>7, <1>8, StepInv

(* The steps that look at a port and change nothing of it.                 *)
LEMMA LookInv ==
  ASSUME IInv, NEW t \in Thread,
         \/ OpenTests(t) \/ DriverTests(t) \/ CloseTests(t) \/ CloseEnds(t) \/ DriverRestores(t)
         \/ IoTests(t) \/ IoWaits(t) \/ IoTransfers(t) \/ CleanFlushes(t)
  PROVE  IInv'
<1>1. Types /\ CallInv(t)
  BY DEF IInv
<1>2. Kept /\ PortData' /\ g' = g
  BY <1>1, AllKept, SameData
     DEF OpenTests, DriverTests, CloseTests, CloseEnds, DriverRestores, IoTests, IoWaits,
         IoTransfers, CleanFlushes
<1>3. \/ Return(t)
      \/ call[t].pc \in Opening /\ \E pc \in Opening : Goto(t, pc)
      \/ call[t].pc \in Shutting /\ \E pc \in Shutting : Goto(t, pc)
      \/ call[t].pc \in Doing /\ \E pc \in Doing : Goto(t, pc)
  BY DEF OpenTests, DriverTests, CloseTests, CloseEnds, DriverRestores, IoTests, IoWaits,
         IoTransfers, CleanFlushes, AtPc,
         Opening, Shutting, Doing
<1>4. call[t].pc \in Unlocked /\ call[t].pc \notin Locked
  BY DEF OpenTests, DriverTests, CloseTests, CloseEnds, DriverRestores, IoTests, IoWaits,
         IoTransfers, CleanFlushes, AtPc,
         Unlocked, Locked, Opening, Shutting, Doing
<1>5. CASE Return(t)
  BY <1>2, <1>4, <1>5, Leave
<1>6. ASSUME NEW pc \in Opening \cup Shutting \cup Doing, Goto(t, pc),
             call[t].pc \in Opening <=> pc \in Opening,
             call[t].pc \in Shutting <=> pc \in Shutting,
             call[t].pc \in Doing <=> pc \in Doing
      PROVE  IInv'
  <2>1. OpFits([call[t] EXCEPT !.pc = pc])
    BY <1>1, <1>6 DEF CallInv, OpFits, Types, Newing, Opening, Shutting, Doing, Burying
  <2>2. QED
    BY <1>2, <1>4, <1>6, <2>1, Advance DEF Unlocked
<1>7. QED
  BY <1>3, <1>5, <1>6 DEF Opening, Shutting, Doing

(* A walk keeps the invariant, even one that follows freed memory.         *)
LEMMA WalkStep ==
  ASSUME IInv, NEW t \in Thread, Walk(t)
  PROVE  IInv'
<1>1. Types /\ CallInv(t)
  BY DEF IInv
<1>2. call[t].pc = "walk" /\ call[t].op \in Op
  BY <1>1 DEF Walk, AtPc, CallInv, OpFits
<1>3. Kept /\ g' = g
  BY AllKept DEF Walk
<1>4. PortData'
  BY <1>1 DEF Walk, PortData, Types
<1>5. CASE Return(t)
  BY <1>2, <1>3, <1>4, <1>5, Leave DEF Locked
<1>6. CASE Goto(t, Found[call[t].op])
  <2>1. /\ Found[call[t].op] \in Unlocked
        /\ OpFits([call[t] EXCEPT !.pc = Found[call[t].op]])
    BY <1>1, <1>2 DEF Found, Op, Types, OpFits, Unlocked, Newing, Opening, Shutting, Doing, Burying
  <2>2. call[t].pc \in Unlocked
    BY <1>2 DEF Unlocked
  <2>3. QED
    BY <1>3, <1>4, <1>6, <2>1, <2>2, Advance
<1>7. CASE call' = call
  <2>1. CallInv(t)' /\ Others(t)
    BY <1>1, <1>3, <1>7, KeptOn DEF CallInv, Kept, Others
  <2>2. call' \in [Thread -> Call] /\ g' \in Thread \cup {None}
    BY <1>1, <1>3, <1>7 DEF Types, Call
  <2>3. QED
    BY <1>3, <1>4, <2>1, <2>2, StepInv
<1>8. CASE /\ call[t].pos \in Listed
           /\ call' = [call EXCEPT ![t].pos = links[call[t].pos].next]
  <2>1. links[call[t].pos].next \in Node
    BY <1>8 DEF IInv, RegistryRing, Ring, Node, Listed
  <2> DEFINE k == [call[t] EXCEPT !.pos = links[call[t].pos].next]
  <2>2. k \in Call /\ k.pc = call[t].pc /\ k.op = call[t].op /\ k.ctx = call[t].ctx
        /\ k.want = call[t].want
    BY <1>1, <2>1 DEF Types, Call
  <2>3. call' = [call EXCEPT ![t] = k]
    BY <1>8
  <2> HIDE DEF k
  <2>4. call' \in [Thread -> Call] /\ call'[t] = k /\ \A u \in Thread \ {t} : call'[u] = call[u]
    BY <1>1, <2>2, <2>3 DEF Types, Call
  <2>5. CallInv(t)'
    BY <1>1, <1>2, <1>3, <2>2, <2>4
       DEF CallInv, OpFits, Kept, Locked, Newing, Opening, Shutting, Doing, Burying
  <2>6. Others(t) /\ g' \in Thread \cup {None}
    BY <1>1, <1>3, <2>4 DEF Others, Types
  <2>7. QED
    BY <1>3, <1>4, <2>4, <2>5, <2>6, StepInv
<1>9. QED
  BY <1>5, <1>6, <1>7, <1>8 DEF Walk

(* The steps that change a port and none of what the registry looks at.    *)
LEMMA ChangeInv ==
  ASSUME IInv, NEW t \in Thread, NEW p \in Port(Int), call[t].pc \in Unlocked,
         port' = [port EXCEPT ![call[t].ctx] = p],
         p.device = port[call[t].ctx].device, p.setting = port[call[t].ctx].setting,
         p.shared = port[call[t].ctx].shared, p.refcount = port[call[t].ctx].refcount,
         fds' \subseteq Fd, UNCHANGED <<links, g, held, fault>>,
         \/ Return(t)
         \/ \E pc \in Unlocked : Goto(t, pc) /\ OpFits([call[t] EXCEPT !.pc = pc])
  PROVE  IInv'
<1>1. Types
  BY DEF IInv
<1>2. Kept /\ port' \in [Ctx -> Port(Int) \cup {Freed}]
  BY <1>1, OnListed, PortKept
<1>3. PortData'
  BY <1>1, <1>2 DEF PortData, Types
<1>4. call[t].pc \notin Locked
  BY DEF Unlocked, Locked, Opening, Shutting, Doing
<1>5. QED
  BY <1>2, <1>3, <1>4, Leave, Advance

(* So do the driver, the counting of opens and the port's mutex.           *)
LEMMA DriverInv ==
  ASSUME IInv, NEW t \in Thread,
         \/ DriverOpens(t) \/ DriverOpenFails(t) \/ OpenCounts(t) \/ CloseCounts(t)
         \/ DriverCloses(t) \/ DriverForgets(t) \/ LockAcquires(t) \/ UnlockReleases(t)
  PROVE  IInv'
<1> DEFINE c == call[t].ctx
<1>1. Types /\ CallInv(t) /\ OpFits(call[t])
  BY SMTT(30) DEF IInv, CallInv
<1>2. call[t].pc \in Unlocked
  BY DEF DriverOpens, DriverOpenFails, OpenCounts, CloseCounts, DriverCloses, DriverForgets,
         LockAcquires, UnlockReleases, AtPc, Unlocked, Opening, Shutting
<1>3. c \in Listed /\ port[c] \in Port(Int)
  BY <1>1, <1>2, OnListed, ListedPort
<1>4. fds \subseteq Fd
  BY <1>1 DEF Types
<1>5. CASE DriverOpens(t)
  <2>1. PICK f \in Fd \ fds :
          /\ port' = [port EXCEPT ![c].s = f, ![c].is_open = TRUE]
          /\ fds' = fds \cup {f}
    BY <1>5, Zenon DEF DriverOpens
  <2> DEFINE p == [port[c] EXCEPT !.s = f, !.is_open = TRUE]
  <2>2. p \in Port(Int) /\ p.device = port[c].device /\ p.setting = port[c].setting
        /\ p.shared = port[c].shared /\ p.refcount = port[c].refcount
    BY <1>3 DEF Port
  <2>3. "count_up" \in Unlocked /\ OpFits([call[t] EXCEPT !.pc = "count_up"])
    BY <1>1, <1>5 DEF DriverOpens, AtPc, Types, OpFits, Unlocked, Newing, Opening, Shutting, Doing, Burying
  <2>4. Goto(t, "count_up") /\ UNCHANGED <<links, g, held, fault>>
    BY <1>5 DEF DriverOpens
  <2>5. port' = [port EXCEPT ![call[t].ctx] = p] /\ fds' \subseteq Fd
    BY <1>4, <2>1
  <2> HIDE DEF p
  <2>6. QED
    BY <1>2, <2>2, <2>3, <2>4, <2>5, ChangeInv
<1>6. CASE DriverOpenFails(t)
  <2>1. PICK failed \in {<<[port[c] EXCEPT !.s = NoFd], fds>>} \cup WinKeeps(c) :
          port' = [port EXCEPT ![c] = failed[1]] /\ fds' = failed[2]
    BY <1>6 DEF DriverOpenFails
  <2>2. PICK f \in Fd \cup {NoFd} :
          failed[1] = [port[c] EXCEPT !.s = f] /\ failed[2] \subseteq Fd
    <3>1. CASE failed = <<[port[c] EXCEPT !.s = NoFd], fds>>
      BY <1>4, <3>1
    <3>2. CASE failed \in WinKeeps(c)
      <4>1. WinKeeps(c) \subseteq {<<[port[c] EXCEPT !.s = f], fds \cup {f}>> : f \in Fd \ fds}
        BY DEF WinKeeps
      <4>2. PICK f \in Fd : failed = <<[port[c] EXCEPT !.s = f], fds \cup {f}>>
        BY <3>2, <4>1
      <4>3. failed[1] = [port[c] EXCEPT !.s = f] /\ failed[2] \subseteq Fd
        BY <1>4, <4>2
      <4>4. QED
        BY <4>3
    <3>3. QED
      BY <2>1, <3>1, <3>2
  <2> DEFINE p == [port[c] EXCEPT !.s = f]
  <2>3. p \in Port(Int) /\ p.device = port[c].device /\ p.setting = port[c].setting
        /\ p.shared = port[c].shared /\ p.refcount = port[c].refcount
    BY <1>3 DEF Port
  <2>4. Return(t) /\ UNCHANGED <<links, g, held, fault>>
    BY <1>6 DEF DriverOpenFails
  <2>5. port' = [port EXCEPT ![call[t].ctx] = p] /\ fds' \subseteq Fd
    BY <2>1, <2>2
  <2> HIDE DEF p
  <2>6. QED
    BY <1>2, <2>3, <2>4, <2>5, ChangeInv
<1>7. CASE OpenCounts(t)
  <2> DEFINE p == [port[c] EXCEPT !.opencount = @ + 1, !.is_open = TRUE]
  <2>1. p \in Port(Int) /\ p.device = port[c].device /\ p.setting = port[c].setting
        /\ p.shared = port[c].shared /\ p.refcount = port[c].refcount
    <3> DEFINE n == port[c].opencount + 1
               q == port[c]
    <3>1. n \in Int /\ q \in Port(Int)
      BY <1>3 DEF Port
    <3>2. p = [q EXCEPT !.opencount = n, !.is_open = TRUE]
      OBVIOUS
    <3> HIDE DEF n, p, q
    <3>3. p \in Port(Int) /\ p.device = q.device /\ p.setting = q.setting
          /\ p.shared = q.shared /\ p.refcount = q.refcount
      BY <3>1, <3>2 DEF Port
    <3>4. QED
      BY <3>3 DEF q
  <2>2. port' = [port EXCEPT ![call[t].ctx] = p]
    BY <1>7 DEF OpenCounts
  <2>3. Return(t) /\ UNCHANGED <<links, g, held, fault>> /\ fds' \subseteq Fd
    BY <1>4, <1>7 DEF OpenCounts
  <2> HIDE DEF p
  <2>4. QED
    BY <1>2, <2>1, <2>2, <2>3, ChangeInv
<1>8. CASE CloseCounts(t)
  <2> DEFINE p == [port[c] EXCEPT !.opencount = @ - 1]
  <2>1. p \in Port(Int) /\ p.device = port[c].device /\ p.setting = port[c].setting
        /\ p.shared = port[c].shared /\ p.refcount = port[c].refcount
    BY <1>3 DEF Port
  <2>2. port' = [port EXCEPT ![call[t].ctx] = p]
    BY <1>8 DEF CloseCounts
  <2>3. Goto(t, "last") /\ UNCHANGED <<links, g, held, fault>> /\ fds' \subseteq Fd
    BY <1>4, <1>8 DEF CloseCounts
  <2>4. "last" \in Unlocked /\ OpFits([call[t] EXCEPT !.pc = "last"])
    BY <1>1, <1>8 DEF CloseCounts, AtPc, Types, OpFits, Unlocked, Newing, Opening, Shutting, Doing, Burying
  <2> HIDE DEF p
  <2>5. QED
    BY <1>2, <2>1, <2>2, <2>3, <2>4, ChangeInv
<1>9. CASE DriverCloses(t)
  <2>1. fds' \subseteq Fd /\ UNCHANGED <<port, links, g, held, fault>>
    BY <1>4, <1>9 DEF DriverCloses
  <2>2. Kept
    BY <2>1, AllKept
  <2>3. PortData'
    BY <1>1, <2>1 DEF PortData, Types
  <2>4. CASE Return(t)
    <3>1. call[t].pc \notin Locked
      BY <1>9 DEF DriverCloses, AtPc, Locked
    <3>2. QED
      BY <2>1, <2>2, <2>3, <2>4, <3>1, Leave
  <2>5. CASE Goto(t, "closed")
    <3>1. "closed" \in Unlocked /\ OpFits([call[t] EXCEPT !.pc = "closed"])
      BY <1>1, <1>9 DEF DriverCloses, AtPc, Types, OpFits, Unlocked, Newing, Opening, Shutting, Doing, Burying
    <3>2. QED
      BY <1>2, <2>1, <2>2, <2>3, <2>5, <3>1, Advance
  <2>6. QED
    BY <1>9, <2>4, <2>5 DEF DriverCloses
<1>10. CASE DriverForgets(t)
  <2> DEFINE p == [port[c] EXCEPT !.s = NoFd, !.is_open = FALSE]
  <2>1. p \in Port(Int) /\ p.device = port[c].device /\ p.setting = port[c].setting
        /\ p.shared = port[c].shared /\ p.refcount = port[c].refcount
    BY <1>3 DEF Port
  <2>2. port' = [port EXCEPT ![call[t].ctx] = p]
    BY <1>10 DEF DriverForgets
  <2>3. Return(t) /\ UNCHANGED <<links, g, held, fault>> /\ fds' \subseteq Fd
    BY <1>4, <1>10 DEF DriverForgets
  <2> HIDE DEF p
  <2>4. QED
    BY <1>2, <2>1, <2>2, <2>3, ChangeInv
<1>11. CASE LockAcquires(t) \/ UnlockReleases(t)
  <2>1. PICK m \in Thread \cup {None} : port' = [port EXCEPT ![c] = [port[c] EXCEPT !.mt = m]]
    BY <1>11 DEF LockAcquires, UnlockReleases
  <2> DEFINE p == [port[c] EXCEPT !.mt = m]
  <2>2. p \in Port(Int) /\ p.device = port[c].device /\ p.setting = port[c].setting
        /\ p.shared = port[c].shared /\ p.refcount = port[c].refcount
    BY <1>3 DEF Port
  <2>3. Return(t) /\ UNCHANGED <<links, g, held, fault>> /\ fds' \subseteq Fd
    BY <1>4, <1>11 DEF LockAcquires, UnlockReleases
  <2>4. port' = [port EXCEPT ![call[t].ctx] = p]
    BY <2>1
  <2> HIDE DEF p
  <2>5. QED
    BY <1>2, <2>2, <2>3, <2>4, ChangeInv
<1>12. QED
  BY <1>5, <1>6, <1>7, <1>8, <1>9, <1>10, <1>11

-----------------------------------------------------------------------------
(* The steps of serial_new and serial_destory.                             *)

(* A thread that may start a new call has room for one reference more.     *)
LEMMA RoomForOne ==
  ASSUME IInv, NEW t \in Thread, NEW r \in Request, NewStarts(t, r)
  PROVE  \A c \in Ctx : held[t][c] < MaxRefs
<1> DEFINE Mine == {p \in Ctx \X (1..MaxRefs) : p[2] <= held[t][p[1]]}
<1>1. Cardinality(Mine) < MaxRefs
  BY DEF NewStarts
<1>2. MaxRefs \in Nat /\ IsFiniteSet(1..MaxRefs) /\ Cardinality(1..MaxRefs) = MaxRefs
  BY FS_Interval, SerialPortAssumption
<1>3. IsFiniteSet(Mine)
  <2>1. IsFiniteSet(Ctx \X (1..MaxRefs))
    BY <1>2, FS_Product, SerialPortAssumption
  <2>2. Mine \subseteq Ctx \X (1..MaxRefs)
    OBVIOUS
  <2>3. QED
    BY <2>1, <2>2, FS_Subset
<1>4. SUFFICES ASSUME NEW c \in Ctx, ~(held[t][c] < MaxRefs)
               PROVE  FALSE
  OBVIOUS
<1>5. held[t][c] = MaxRefs
  BY <1>2, <1>4 DEF IInv, Types
<1> DEFINE All == {<<c, n>> : n \in 1..MaxRefs}
<1>6. All \subseteq Mine
  BY <1>2, <1>5
<1>7. IsFiniteSet(All) /\ Cardinality(All) = MaxRefs
  <2> DEFINE f == [n \in 1..MaxRefs |-> <<c, n>>]
  <2>1. f \in Bijection(1..MaxRefs, All)
    BY DEF Bijection, Injection, Surjection, IsInjective
  <2>2. ExistsBijection(1..MaxRefs, All)
    BY <2>1 DEF ExistsBijection
  <2>3. QED
    BY <1>2, <2>2, FS_Bijection
<1>8. Cardinality(All) <= Cardinality(Mine) /\ Cardinality(Mine) \in Nat
  BY <1>3, <1>6, FS_Subset, FS_CardinalityType
<1>9. QED
  BY <1>1, <1>2, <1>7, <1>8

(* serial_new starts, and serial_new and serial_destory take g_mangers.    *)
LEMMA LockInv ==
  ASSUME IInv, NEW t \in Thread,
         \/ \E r \in Request : NewStarts(t, r)
         \/ NewLocks(t) \/ DestoryLocks(t)
  PROVE  IInv'
<1>1. Types /\ CallInv(t)
  BY DEF IInv
<1>2. Kept /\ PortData'
  BY <1>1, AllKept, SameData DEF NewStarts, NewLocks, DestoryLocks
<1>3. held' = held /\ None \notin Thread
  BY <1>2, SerialPortAssumption DEF Kept
<1>4. ASSUME NEW r \in Request, NewStarts(t, r)
      PROVE  IInv'
  <2> DEFINE k == [call[t] EXCEPT !.pc = "new", !.op = "new", !.want = {r}]
  <2>1. k \in Call /\ k.pc = "new" /\ k.op = "new" /\ k.want = {r}
    BY <1>1, ZenonT(60) DEF Types, Call, Place
  <2>2. call' = [call EXCEPT ![t] = k]
    BY <1>1, <1>4 DEF NewStarts, Types
  <2> HIDE DEF k
  <2>3. call' \in [Thread -> Call] /\ call'[t] = k /\ \A u \in Thread \ {t} : call'[u] = call[u]
    BY <1>1, <2>1, <2>2 DEF Types, Call
  <2>4. g' = g /\ g # t
    BY <1>1, <1>4 DEF NewStarts, AtPc, CallInv, Locked
  <2>5. \A c \in Ctx : held[t][c] < MaxRefs
    BY <1>4, RoomForOne
  <2>6. CallInv(t)'
    BY <1>3, <2>1, <2>3, <2>4, <2>5
       DEF CallInv, OpFits, Locked, Newing, Opening, Shutting, Doing, Burying
  <2>7. Others(t) /\ g' \in Thread \cup {None}
    BY <1>1, <2>3, <2>4 DEF Others, Types
  <2>8. QED
    BY <1>2, <2>3, <2>6, <2>7, StepInv
<1>5. CASE NewLocks(t)
  <2>1. /\ call' \in [Thread -> Call]
        /\ call'[t] = [call[t] EXCEPT !.pc = "register"]
        /\ \A u \in Thread \ {t} : call'[u] = call[u]
    BY <1>1, <1>5, GotoCall DEF NewLocks, Place
  <2>2. call'[t].pc = "register" /\ call'[t].op = call[t].op /\ call'[t].want = call[t].want /\ call[t].pc = "new" /\ g' = t /\ g = None
    BY <1>1, <1>5, <2>1 DEF Types, NewLocks, AtPc
  <2>3. CallInv(t)'
    BY <1>1, <1>3, <2>2 DEF CallInv, OpFits, Locked, Newing, Opening, Shutting, Doing, Burying
  <2>4. Others(t) /\ g' \in Thread \cup {None}
    BY <1>3, <2>1, <2>2 DEF Others
  <2>5. QED
    BY <1>2, <2>1, <2>3, <2>4, StepInv
<1>6. CASE DestoryLocks(t)
  <2>1. /\ call' \in [Thread -> Call]
        /\ call'[t] = [call[t] EXCEPT !.pc = "drop"]
        /\ \A u \in Thread \ {t} : call'[u] = call[u]
    BY <1>1, <1>6, GotoCall DEF DestoryLocks, Place
  <2>2. /\ call'[t].pc = "drop" /\ call'[t].op = call[t].op /\ call'[t].ctx = call[t].ctx
        /\ call[t].pc = "destory" /\ g' = t /\ g = None
    BY <1>1, <1>6, <2>1 DEF Types, DestoryLocks, AtPc
  <2>3. CallInv(t)'
    BY <1>1, <1>3, <2>2 DEF CallInv, OpFits, Locked, Newing, Opening, Shutting, Doing, Burying
  <2>4. Others(t) /\ g' \in Thread \cup {None}
    BY <1>3, <2>1, <2>2 DEF Others
  <2>5. QED
    BY <1>2, <2>1, <2>3, <2>4, StepInv
<1>7. QED
  BY <1>4, <1>5, <1>6

(* serial_new refuses a request or rejects its parity.                     *)
LEMMA RefuseInv ==
  ASSUME IInv, NEW t \in Thread, NewRefuses(t) \/ NewRejects(t)
  PROVE  IInv'
<1>1. Types
  BY DEF IInv
<1>2. Kept /\ Return(t)
  BY AllKept DEF NewRefuses, NewRejects
<1>3. fds' \subseteq Fd
  BY <1>1 DEF NewRefuses, NewRejects, Types
<1>4. PortData'
  BY <1>1, <1>3 DEF NewRefuses, NewRejects, Types, PortData
<1>5. call[t].pc \in Locked /\ g' = None
  BY DEF NewRefuses, NewRejects, AtPc, Locked
<1>6. QED
  BY <1>2, <1>4, <1>5, Leave

(* serial_new finds the port to share, or that it has to make one.         *)
LEMMA FindInv ==
  ASSUME IInv, NEW t \in Thread, NewFinds(t)
  PROVE  IInv'
<1>1. Types /\ CallInv(t)
  BY DEF IInv
<1>2. Kept /\ PortData' /\ g' = g
  BY <1>1, AllKept, SameData DEF NewFinds
<1>3. held' = held /\ Listed' = Listed /\ \A d : On(d)' = On(d)
  BY <1>2, KeptOn DEF Kept
<1>4. call[t].pc = "register" /\ g = t /\ call[t].op = "new" /\ \A c \in Ctx : held[t][c] < MaxRefs
  BY <1>1 DEF NewFinds, AtPc, CallInv, OpFits, Locked, Newing
<1>5. PICK r \in Request : call[t].want = {r}
  BY <1>1, <1>4 DEF CallInv, Newing
<1>6. PICK k \in Call :
        /\ call' = [call EXCEPT ![t] = k] /\ k.op = call[t].op /\ k.want = {r}
        /\ \/ k.pc = "share" /\ k.ctx \in Listed
           \/ k.pc = "create" /\ On(r.device) = {}
  <2>1. \/ On(r.device) = {} /\ Goto(t, "create")
        \/ \E c \in On(r.device) : call' = [call EXCEPT ![t].pc = "share", ![t].ctx = c]
    BY <1>5 DEF NewFinds
  <2>2. CASE On(r.device) = {} /\ Goto(t, "create")
    <3> DEFINE k == [call[t] EXCEPT !.pc = "create"]
    <3>1. k \in Call /\ k.pc = "create" /\ k.op = call[t].op /\ k.want = {r}
      BY <1>1, <1>5, ZenonT(60) DEF Types, Call, Place
    <3>2. call' = [call EXCEPT ![t] = k]
      BY <2>2 DEF Goto
    <3> HIDE DEF k
    <3>3. QED
      BY <2>2, <3>1, <3>2
  <2>3. ASSUME NEW c \in Listed, call' = [call EXCEPT ![t].pc = "share", ![t].ctx = c]
        PROVE  \E k \in Call : /\ call' = [call EXCEPT ![t] = k] /\ k.op = call[t].op
                               /\ k.want = {r} /\ k.pc = "share" /\ k.ctx \in Listed
    <3> DEFINE k == [call[t] EXCEPT !.pc = "share", !.ctx = c]
    <3>1. k \in Call /\ k.pc = "share" /\ k.op = call[t].op /\ k.ctx = c /\ k.want = {r}
      BY <1>1, <1>5, ZenonT(60) DEF Types, Call, Place, Listed
    <3>2. call' = [call EXCEPT ![t] = k]
      BY <1>1, <2>3 DEF Types
    <3> HIDE DEF k
    <3>3. QED
      BY <3>1, <3>2
  <2>4. QED
    BY <2>1, <2>2, <2>3 DEF On
<1>7. call' \in [Thread -> Call] /\ call'[t] = k /\ \A u \in Thread \ {t} : call'[u] = call[u]
  BY <1>1, <1>6 DEF Types, Call
<1>8. CallInv(t)'
  <2>1. OpFits(k) /\ k.pc \in {"share", "create"}
    BY <1>4, <1>6 DEF OpFits, Newing, Opening, Shutting, Doing, Burying
  <2>2. k.pc = "create" => \A q \in k.want : On(q.device) = {}
    BY <1>6
  <2>3. k.pc = "share" => k.ctx \in Listed
    BY <1>6
  <2>4. k.pc \in Locked /\ k.pc \in Newing /\ k.pc # "bury"
    BY <2>1 DEF Locked, Newing
  <2>5. QED
    BY <1>2, <1>3, <1>4, <1>6, <1>7, <2>1, <2>2, <2>3, <2>4 DEF CallInv
<1>9. Others(t) /\ g' \in Thread \cup {None}
  BY <1>1, <1>2, <1>7 DEF Others, Types
<1>10. QED
  BY <1>2, <1>7, <1>8, <1>9, StepInv

(* While one thread holds g_mangers the others are outside it, and what it *)
(* does to the registry is none of their business but for their references.*)
LEMMA LockedOthers ==
  ASSUME IInv, NEW t \in Thread, g = t, Others(t), NEW u \in Thread \ {t},
         held'[u] = held[u]
  PROVE  CallInv(u)'
<1>1. CallInv(u) /\ call[u].pc \notin Locked
  BY DEF IInv, CallInv
<1>2. call'[u] = call[u] /\ g' # u
  BY DEF Others
<1>3. QED
  BY <1>1, <1>2 DEF CallInv, Locked

(* serial_new counts one reference more and hands it out.                  *)
LEMMA ShareInv ==
  ASSUME IInv, NEW t \in Thread, NewShares(t)
  PROVE  IInv'
<1> DEFINE c == call[t].ctx
           p == [port[c] EXCEPT !.refcount = @ + 1]
<1>1. Types /\ CallInv(t)
  BY DEF IInv
<1>2. call[t].pc = "share" /\ g = t /\ c \in Listed /\ held[t][c] < MaxRefs
  BY <1>1 DEF NewShares, AtPc, CallInv, Locked, Newing, Listed
<1>3. c \in Ctx /\ port[c] \in Port(Int)
  BY <1>1, <1>2, ListedPort
<1>4. p \in Port(Int) /\ p.device = port[c].device /\ p.refcount = port[c].refcount + 1
  <2> DEFINE n == port[c].refcount + 1
             q == port[c]
  <2>1. n \in Nat /\ q \in Port(Int)
    <3> HIDE DEF c
    <3>1. QED
      BY <1>3 DEF Port
  <2>2. p = [q EXCEPT !.refcount = n]
    OBVIOUS
  <2> HIDE DEF n, p, q, c
  <2>3. p \in Port(Int) /\ p.device = q.device /\ p.refcount = n
    BY <2>1, <2>2 DEF Port
  <2>4. QED
    BY <2>3 DEF n, q
<1>5. port' = [port EXCEPT ![c] = p]
  BY DEF NewShares
<1> HIDE DEF p
<1>6. port' \in [Ctx -> Port(Int) \cup {Freed}] /\ \A d \in Ctx : port'[d] = IF d = c THEN p ELSE port[d]
  BY <1>1, <1>3, <1>4, <1>5 DEF Types
<1>7. Listed' = Listed
  <2>1. p # Freed
    BY <1>1, <1>4, ListedPort
  <2>2. QED
    BY <1>2, <1>3, <1>6, <2>1 DEF Listed
<1>8. \A d \in Listed : port'[d].device = port[d].device
  BY <1>4, <1>6, ListedPort, <1>1
<1>9. held' = [held EXCEPT ![t][c] = @ + 1]
  BY DEF NewShares
<1>10. /\ held' \in [Thread -> [Ctx -> 0..MaxRefs]]
       /\ Cardinality(Refs(held', c)) = Cardinality(Refs(held, c)) + 1
       /\ \A d \in Ctx \ {c} : Refs(held', d) = Refs(held, d)
  <2>1. OneMore(held, held', t, c)
    BY <1>1, <1>2, <1>3, <1>9 DEF Types, OneMore, Holding
  <2> HIDE DEF c
  <2>2. QED
    BY <2>1, <1>3, RefsUp DEF Holding
<1>11. RefcountExact'
  <2>1. \A d : References(d)' = Refs(held', d) /\ References(d) = Refs(held, d)
    BY DEF References, Refs
  <2>2. \A d \in Ctx : Cardinality(References(d)) = IF d \in Listed THEN port[d].refcount ELSE 0
    BY DEF IInv, RefcountExact
  <2> HIDE DEF c
  <2>3. ASSUME NEW d \in Ctx
        PROVE  Cardinality(References(d)') = IF d \in Listed' THEN port'[d].refcount ELSE 0
    <3>1. CASE d = c
      BY <3>1, <1>2, <1>4, <1>6, <1>7, <1>10, <2>1, <2>2
    <3>2. CASE d # c
      BY <3>2, <1>6, <1>7, <1>10, <2>1, <2>2
    <3>3. QED
      BY <3>1, <3>2
  <2>4. QED
    BY <2>3 DEF RefcountExact
<1>12. OnePortPerDevice'
  BY <1>7, <1>8 DEF IInv, OnePortPerDevice
<1>13. RegistryRing' /\ links' = links
  BY <1>7 DEF IInv, RegistryRing, NewShares
<1>14. /\ call' \in [Thread -> Call]
       /\ call'[t] = Idle
       /\ \A u \in Thread \ {t} : call'[u] = call[u]
  BY <1>1, ReturnCall DEF NewShares
<1>15. g' = None /\ None \notin Thread
  BY SerialPortAssumption DEF NewShares
<1>16. Types'
  BY <1>1, <1>6, <1>10, <1>13, <1>14, <1>15 DEF Types, Call, NewShares, Node
<1>17. CallInv(t)'
  BY <1>14, <1>15 DEF CallInv, OpFits, Idle, Locked, Newing, Opening, Shutting, Doing, Burying
<1>18. \A u \in Thread \ {t} : CallInv(u)'
  <2>1. Others(t)
    BY <1>2, <1>14, <1>15 DEF Others
  <2>2. \A u \in Thread \ {t} : held'[u] = held[u]
    BY <1>1, <1>9 DEF Types
  <2>3. QED
    BY <1>2, <2>1, <2>2, LockedOthers
<1>19. QED
  BY <1>11, <1>12, <1>13, <1>16, <1>17, <1>18 DEF IInv

(* serial_new makes a port for a device that is on none, lists it and      *)
(* hands out its only reference.                                           *)
LEMMA CreateInv ==
  ASSUME IInv, NEW t \in Thread, NewCreates(t)
  PROVE  IInv'
<1>1. Types /\ CallInv(t)
  BY DEF IInv
<1>2. call[t].pc = "create" /\ g = t /\ \A c \in Ctx : held[t][c] < MaxRefs
  BY <1>1 DEF NewCreates, AtPc, CallInv, Locked, Newing
<1>3. PICK r \in call[t].want, c \in Ctx \ Listed :
        /\ port' = [port EXCEPT ![c] = NewPort(r)]
        /\ links' = NodeAdded(c)
        /\ held' = [held EXCEPT ![t][c] = 1]
  BY DEF NewCreates
<1>4. r \in Request /\ On(r.device) = {}
  BY <1>1, <1>2, <1>3 DEF Types, CallInv
<1> DEFINE p == NewPort(r)
<1>5. p \in Port(Int) /\ p.device = r.device /\ p.refcount = 1
  <2>1. r.device \in Device /\ r.setting \in Setting /\ r.shared \in BOOLEAN
    BY <1>4, SerialPortAssumption
  <2>2. QED
    BY <2>1 DEF NewPort, Port, NoFd
<1>6. port' = [port EXCEPT ![c] = p]
  BY <1>3
<1> HIDE DEF p
<1>7. port' \in [Ctx -> Port(Int) \cup {Freed}] /\ \A d \in Ctx : port'[d] = IF d = c THEN p ELSE port[d]
  BY <1>1, <1>5, <1>6 DEF Types
<1>8. Listed' = Listed \cup {c}
  <2>1. p # Freed
    BY <1>1, <1>5, ListedPort
  <2>2. QED
    BY <1>7, <2>1 DEF Listed
<1>9. held[t][c] = 0 /\ c \in Ctx
  BY <1>3, HeldListed
<1>10. /\ held' \in [Thread -> [Ctx -> 0..MaxRefs]]
       /\ Cardinality(Refs(held', c)) = Cardinality(Refs(held, c)) + 1
       /\ \A d \in Ctx \ {c} : Refs(held', d) = Refs(held, d)
  <2>1. OneMore(held, held', t, c)
    BY <1>1, <1>2, <1>3, <1>9 DEF Types, OneMore, Holding
  <2>2. c \in Ctx
    BY <1>9
  <2>3. /\ held' \in Holding
        /\ Cardinality(Refs(held', c)) = Cardinality(Refs(held, c)) + 1
        /\ \A d \in Ctx \ {c} : Refs(held', d) = Refs(held, d)
    BY <2>1, <2>2, RefsUp
  <2>4. QED
    BY <2>3 DEF Holding
<1>11. RefcountExact'
  <2>1. \A d : References(d)' = Refs(held', d) /\ References(d) = Refs(held, d)
    BY DEF References, Refs
  <2>2. \A d \in Ctx : Cardinality(References(d)) = IF d \in Listed THEN port[d].refcount ELSE 0
    BY DEF IInv, RefcountExact
  <2>3. ASSUME NEW d \in Ctx
        PROVE  Cardinality(References(d)') = IF d \in Listed' THEN port'[d].refcount ELSE 0
    <3>1. CASE d = c
      <4>1. c \in Ctx /\ c \notin Listed
        BY <1>3
      <4>2. Cardinality(References(c)) = 0
        BY <2>2, <4>1
      <4>3. Cardinality(References(c)') = 1
        BY <2>1, <1>10, <4>2
      <4>4. c \in Listed' /\ port'[c].refcount = 1
        BY <1>5, <1>7, <1>8, <4>1
      <4>5. QED
        BY <3>1, <4>3, <4>4
    <3>2. CASE d # c
      BY <3>2, <1>7, <1>8, <1>10, <2>1, <2>2
    <3>3. QED
      BY <3>1, <3>2
  <2>4. QED
    BY <2>3 DEF RefcountExact
<1>12. OnePortPerDevice'
  <2>1. \A d \in Listed : port[d].device # r.device /\ port'[d] = port[d] /\ d # c
    BY <1>3, <1>4, <1>7, ListedPort, <1>1 DEF On
  <2>2. port'[c].device = r.device
    BY <1>5, <1>7, <1>9
  <2>3. QED
    BY <1>8, <2>1, <2>2 DEF IInv, OnePortPerDevice
<1>13. RegistryRing' /\ links' \in Links(Node, Node \cup {LIST_POISON1}, Node \cup {LIST_POISON2})
  <2> DEFINE N == Node \cup {LIST_POISON1}
             P == Node \cup {LIST_POISON2}
             S == Listed \cup {serial_mangers}
             M == INIT_LIST_HEAD(links, c)
  <2>1. Ring(links, S) /\ \A d \in Ctx \ Listed : links[d] = Poisoned
    BY DEF IInv, RegistryRing
  <2>2. /\ S \in SUBSET Node /\ serial_mangers \in S /\ c \in Node \ S
        /\ Node \subseteq N /\ Node \subseteq P
    BY <1>3, SerialPortAssumption DEF Listed, Node
  <2>3. links \in Links(Node, N, P)
    BY <1>1 DEF Types
  <2>4. M \in Links(Node, N, P) /\ \A n \in Node \ {c} : M[n] = links[n]
    BY <2>2, <2>3 DEF INIT_LIST_HEAD, Alone, Links
  <2>5. links' = list_add(M, c, serial_mangers)
    BY <1>3 DEF NodeAdded
  <2> HIDE DEF N, P, S, M
  <2>6. Ring(M, S)
    BY <2>1, <2>2, <2>4, RingFrame
  <2>7. Ring(links', S \cup {c})
    BY <2>2, <2>4, <2>5, <2>6, AddRing
  <2>8. links' \in Links(Node, N, P) /\ \A n \in Node \ (S \cup {c}) : links'[n] = M[n]
    BY <2>2, <2>4, <2>5, <2>6, AddFrame
  <2>9. Listed' \cup {serial_mangers} = S \cup {c}
    BY <1>8 DEF S
  <2>10. \A d \in Ctx \ Listed' : links'[d] = Poisoned
    <3>1. ASSUME NEW d \in Ctx \ Listed'
          PROVE  links'[d] = Poisoned
      <4>1. d \in Node \ (S \cup {c}) /\ d \in Ctx \ Listed
        BY <1>8, SerialPortAssumption DEF S, Node
      <4>2. QED
        BY <2>1, <2>4, <2>8, <4>1
    <3>2. QED
      BY <3>1
  <2>11. QED
    BY <2>7, <2>8, <2>9, <2>10 DEF RegistryRing, N, P
<1>14. /\ call' \in [Thread -> Call]
       /\ call'[t] = Idle
       /\ \A u \in Thread \ {t} : call'[u] = call[u]
  BY <1>1, ReturnCall DEF NewCreates
<1>15. g' = None /\ None \notin Thread
  BY SerialPortAssumption DEF NewCreates
<1>16. Types'
  BY <1>1, <1>7, <1>10, <1>13, <1>14, <1>15 DEF Types, Call, NewCreates, Node
<1>17. CallInv(t)'
  BY <1>14, <1>15 DEF CallInv, OpFits, Idle, Locked, Newing, Opening, Shutting, Doing, Burying
<1>18. \A u \in Thread \ {t} : CallInv(u)'
  <2>1. Others(t)
    BY <1>2, <1>14, <1>15 DEF Others
  <2>2. \A u \in Thread \ {t} : held'[u] = held[u]
    BY <1>1, <1>3 DEF Types
  <2>3. QED
    BY <1>2, <2>1, <2>2, LockedOthers
<1>19. QED
  BY <1>11, <1>12, <1>13, <1>16, <1>17, <1>18 DEF IInv

(* A reference is counted down by the thread that gives it back.           *)
LEMMA CountDownInv ==
  ASSUME IInv, NEW t \in Thread, DestoryCounts(t)
  PROVE  IInv'
<1> DEFINE c == call[t].ctx
           p == [port[c] EXCEPT !.refcount = @ - 1]
<1>1. Types /\ CallInv(t)
  BY DEF IInv
<1>2. call[t].pc = "drop" /\ g = t /\ c \in Listed /\ held[t][c] > 0 /\ port[c].refcount > 0
  <2>1. call[t].pc = "drop"
    BY DEF DestoryCounts, AtPc
  <2>2. c \in Listed /\ held[t][c] > 0
    BY <2>1, OnListed
  <2>3. port[c].refcount > 0
    BY <2>2, HeldListed DEF Listed
  <2>4. g = t
    BY <1>1, <2>1 DEF CallInv, Locked
  <2>5. QED
    BY <2>1, <2>2, <2>3, <2>4
<1>3. c \in Ctx /\ port[c] \in Port(Int)
  BY <1>1, <1>2, ListedPort
<1>4. p \in Port(Int) /\ p.device = port[c].device /\ p.refcount = port[c].refcount - 1
  <2> DEFINE n == port[c].refcount - 1
             q == port[c]
  <2>1. n \in Nat /\ q \in Port(Int)
    <3> HIDE DEF c
    <3>1. QED
      BY <1>2, <1>3 DEF Port
  <2>2. p = [q EXCEPT !.refcount = n]
    OBVIOUS
  <2> HIDE DEF n, p, q, c
  <2>3. p \in Port(Int) /\ p.device = q.device /\ p.refcount = n
    BY <2>1, <2>2 DEF Port
  <2>4. QED
    BY <2>3 DEF n, q
<1>5. port' = [port EXCEPT ![c] = p]
  <2>1. On(port[c].device) = {c}
    BY <1>2 DEF IInv, OnePortPerDevice, On
  <2>2. QED
    BY <1>2, <2>1 DEF DestoryCounts
<1> HIDE DEF p
<1>6. port' \in [Ctx -> Port(Int) \cup {Freed}] /\ \A d \in Ctx : port'[d] = IF d = c THEN p ELSE port[d]
  BY <1>1, <1>3, <1>4, <1>5 DEF Types
<1>7. Listed' = Listed
  <2>1. p # Freed
    BY <1>1, <1>4, ListedPort
  <2>2. QED
    BY <1>2, <1>3, <1>6, <2>1 DEF Listed
<1>8. \A d \in Listed : port'[d].device = port[d].device
  BY <1>4, <1>6, ListedPort, <1>1
<1>9. held' = [held EXCEPT ![t][c] = @ - 1]
  BY DEF DestoryCounts
<1>10. /\ held' \in [Thread -> [Ctx -> 0..MaxRefs]]
       /\ Cardinality(Refs(held', c)) = Cardinality(Refs(held, c)) - 1
       /\ \A d \in Ctx \ {c} : Refs(held', d) = Refs(held, d)
  <2>1. OneLess(held, held', t, c)
    BY <1>1, <1>2, <1>3, <1>9 DEF Types, OneLess, Holding
  <2> HIDE DEF c
  <2>2. c \in Ctx
    BY <1>3
  <2>3. /\ held' \in Holding
        /\ Cardinality(Refs(held', c)) = Cardinality(Refs(held, c)) - 1
        /\ \A d \in Ctx \ {c} : Refs(held', d) = Refs(held, d)
    BY <2>1, <2>2, RefsDown
  <2>4. QED
    BY <2>3 DEF Holding
<1>11. RefcountExact'
  <2>1. \A d : References(d)' = Refs(held', d) /\ References(d) = Refs(held, d)
    BY DEF References, Refs
  <2>2. \A d \in Ctx : Cardinality(References(d)) = IF d \in Listed THEN port[d].refcount ELSE 0
    BY DEF IInv, RefcountExact
  <2> HIDE DEF c
  <2>3. ASSUME NEW d \in Ctx
        PROVE  Cardinality(References(d)') = IF d \in Listed' THEN port'[d].refcount ELSE 0
    <3>1. CASE d = c
      BY <3>1, <1>2, <1>4, <1>6, <1>7, <1>10, <2>1, <2>2
    <3>2. CASE d # c
      BY <3>2, <1>6, <1>7, <1>10, <2>1, <2>2
    <3>3. QED
      BY <3>1, <3>2
  <2>4. QED
    BY <2>3 DEF RefcountExact
<1>12. OnePortPerDevice'
  BY <1>7, <1>8 DEF IInv, OnePortPerDevice
<1>13. RegistryRing' /\ links' = links
  BY <1>7 DEF IInv, RegistryRing, DestoryCounts
<1>14. /\ call' \in [Thread -> Call]
       /\ call'[t] = [call[t] EXCEPT !.pc = "bury"]
       /\ \A u \in Thread \ {t} : call'[u] = call[u]
  BY <1>1, GotoCall DEF DestoryCounts, Place
<1>15. g' = t
  BY <1>2 DEF DestoryCounts
<1>16. Types'
  BY <1>1, <1>6, <1>10, <1>13, <1>14, <1>15 DEF Types, Call, DestoryCounts, Node
<1>17. CallInv(t)'
  <2>1. call'[t].pc = "bury" /\ call'[t].op = call[t].op /\ call'[t].ctx = c
    BY <1>1, <1>14 DEF Types
  <2>2. call[t].op = "destory"
    BY <1>1, <1>2 DEF CallInv, OpFits, Burying
  <2> HIDE DEF c
  <2>3. QED
    BY <1>2, <1>7, <1>15, <2>1, <2>2
       DEF CallInv, OpFits, Locked, Newing, Opening, Shutting, Doing, Burying
<1>18. \A u \in Thread \ {t} : CallInv(u)'
  <2>1. Others(t)
    BY <1>2, <1>14, <1>15 DEF Others
  <2>2. \A u \in Thread \ {t} : held'[u] = held[u]
    BY <1>1, <1>9 DEF Types
  <2>3. QED
    BY <1>2, <2>1, <2>2, LockedOthers
<1>19. QED
  BY <1>11, <1>12, <1>13, <1>16, <1>17, <1>18 DEF IInv

(* The last reference gone, the port leaves the ring and is freed; else    *)
(* the thread only lets go of g_mangers.                                   *)
LEMMA BuryInv ==
  ASSUME IInv, NEW t \in Thread, DestoryEnds(t)
  PROVE  IInv'
<1> DEFINE c == call[t].ctx
<1>1. Types /\ CallInv(t)
  BY DEF IInv
<1>2. call[t].pc = "bury" /\ g = t /\ c \in Listed
  BY <1>1 DEF DestoryEnds, AtPc, CallInv, Locked
<1>3. c \in Ctx /\ port[c] \in Port(Int) /\ port[c].refcount \in Nat
  <2>1. c \in Ctx /\ port[c] \in Port(Int)
    BY <1>1, <1>2, ListedPort
  <2> HIDE DEF c
  <2>2. QED
    BY <2>1 DEF Port
<1>4. Return(t) /\ held' = held /\ g' = None /\ fault' = fault
  BY DEF DestoryEnds
<1>5. CASE port[c].refcount > 0
  <2>1. UNCHANGED <<port, links, fds>>
    BY <1>5 DEF DestoryEnds
  <2>2. Kept /\ PortData'
    BY <1>1, <1>4, <2>1, AllKept, SameData
  <2>3. QED
    BY <1>2, <1>4, <2>2, Leave DEF Locked
<1>6. CASE port[c].refcount = 0
  <2>1. /\ fds' \in LeftOpen(c)
        /\ port' = [port EXCEPT ![c] = Freed]
        /\ links' = list_del(links, c)
    BY <1>6 DEF DestoryEnds
  <2>2. fds' \subseteq Fd
    BY <1>1, <2>1 DEF LeftOpen, Types
  <2> HIDE DEF c
  <2>3. port' \in [Ctx -> Port(Int) \cup {Freed}] /\ \A d \in Ctx : port'[d] = IF d = c THEN Freed ELSE port[d]
    BY <1>1, <1>3, <2>1 DEF Types
  <2>4. Listed' = Listed \ {c}
    BY <1>3, <2>3 DEF Listed
  <2>5. RefcountExact'
    <3>1. \A d \in Ctx : References(d)' = References(d)
      BY <1>4 DEF References
    <3>2. \A d \in Ctx : Cardinality(References(d)) = IF d \in Listed THEN port[d].refcount ELSE 0
      BY DEF IInv, RefcountExact
    <3>3. ASSUME NEW d \in Ctx
          PROVE  Cardinality(References(d)') = IF d \in Listed' THEN port'[d].refcount ELSE 0
      <4>1. CASE d = c
        BY <4>1, <1>2, <1>6, <2>4, <3>1, <3>2
      <4>2. CASE d # c
        BY <4>2, <2>3, <2>4, <3>1, <3>2
      <4>3. QED
        BY <4>1, <4>2
    <3>4. QED
      BY <3>3 DEF RefcountExact
  <2>6. OnePortPerDevice'
    <3>1. \A d \in Listed' : d \in Listed /\ port'[d] = port[d]
      BY <2>3, <2>4 DEF Listed
    <3>2. QED
      BY <3>1 DEF IInv, OnePortPerDevice
  <2>7. RegistryRing' /\ links' \in Links(Node, Node \cup {LIST_POISON1}, Node \cup {LIST_POISON2})
    <3> DEFINE N == Node \cup {LIST_POISON1}
               P == Node \cup {LIST_POISON2}
               S == Listed \cup {serial_mangers}
    <3>1. Ring(links, S) /\ \A d \in Ctx \ Listed : links[d] = Poisoned
      BY DEF IInv, RegistryRing
    <3>2. /\ S \in SUBSET Node /\ c \in S /\ S # {c} /\ c # serial_mangers
          /\ Node \subseteq N /\ Node \subseteq P
          /\ LIST_POISON1 \in N /\ LIST_POISON2 \in P
      BY <1>2, <1>3, SerialPortAssumption DEF Listed, Node
    <3>3. links \in Links(Node, N, P)
      BY <1>1 DEF Types
    <3>4. Listed' \cup {serial_mangers} = S \ {c}
      BY <2>4, <3>2
    <3> HIDE DEF N, P, S
    <3>5. Ring(links', S \ {c}) /\ links'[c] = Poisoned
      <4>1. Ring(links, S) /\ links' = list_del(links, c)
        BY <2>1, <3>1
      <4>2. Ring(list_del(links, c), S \ {c}) /\ list_del(links, c)[c] = Poisoned
        <5>1. /\ links \in Links(Node, N, P) /\ Node \subseteq N /\ Node \subseteq P
              /\ S \in SUBSET Node /\ Ring(links, S) /\ c \in S /\ S # {c}
          BY <3>2, <3>3, <4>1
        <5>2. /\ links[c].next \in S \ {c}
              /\ Ring(list_del(links, c), S \ {c})
              /\ list_del(links, c)[c] = Poisoned
          BY <5>1, DelRing
        <5>3. QED
          BY <5>2
      <4>3. QED
        BY <4>1, <4>2
    <3>6. links' \in Links(Node, N, P) /\ \A n \in Node \ S : links'[n] = links[n]
      BY <2>1, <3>1, <3>2, <3>3, DelFrame
    <3>7. ASSUME NEW d \in Ctx \ Listed'
          PROVE  links'[d] = Poisoned
      <4>1. CASE d = c
        BY <4>1, <3>5
      <4>2. CASE d # c
        <5>1. d \in Node \ S /\ d \in Ctx \ Listed
          BY <2>4, <4>2, SerialPortAssumption DEF S, Node
        <5>2. QED
          BY <3>1, <3>6, <5>1
      <4>3. QED
        BY <4>1, <4>2
    <3>8. QED
      BY <3>4, <3>5, <3>6, <3>7 DEF RegistryRing, N, P
  <2>8. /\ call' \in [Thread -> Call]
        /\ call'[t] = Idle
        /\ \A u \in Thread \ {t} : call'[u] = call[u]
    BY <1>1, <1>4, ReturnCall
  <2>9. None \notin Thread
    BY SerialPortAssumption
  <2>10. Types'
    BY <1>1, <1>4, <2>2, <2>3, <2>7, <2>8 DEF Types, Call, Node
  <2>11. CallInv(t)'
    BY <1>4, <2>8, <2>9 DEF CallInv, OpFits, Idle, Locked, Newing, Opening, Shutting, Doing, Burying
  <2>12. \A u \in Thread \ {t} : CallInv(u)'
    <3>1. Others(t)
      BY <1>2, <1>4, <2>8, <2>9 DEF Others
    <3>2. QED
      BY <1>2, <1>4, <3>1, LockedOthers
  <2>13. QED
    BY <2>5, <2>6, <2>7, <2>10, <2>11, <2>12 DEF IInv
<1>7. QED
  BY <1>3, <1>5, <1>6

-----------------------------------------------------------------------------
(* Every step keeps the invariant.                                         *)

(* No step of any thread breaks the invariant.                             *)
LEMMA NextInv ==
  ASSUME IInv, [Next]_vars
  PROVE  IInv'
<1>1. CASE UNCHANGED vars
  <2>1. UNCHANGED <<port, links, g, call, held, fds, fault>>
    BY <1>1 DEF vars
  <2>2. Kept
    BY <2>1, AllKept
  <2>3. Types'
    BY <2>1 DEF IInv, Types, Node
  <2>4. \A d : On(d)' = On(d)
    BY <2>2, KeptOn
  <2>5. Listed' = Listed
    BY <2>2 DEF Kept
  <2>6. ASSUME NEW t \in Thread
        PROVE  CallInv(t)'
    <3>1. CallInv(t)
      BY DEF IInv
    <3>2. QED
      BY <2>1, <2>4, <2>5, <3>1 DEF CallInv
  <2>7. QED
    BY <2>2, <2>3, <2>6, KeptRegistry DEF IInv
<1>2. ASSUME NEW t \in Thread, Starts(t)
      PROVE  IInv'
  BY <1>2, StartInv, LockInv DEF Starts
<1>3. ASSUME NEW t \in Thread, Runs(t)
      PROVE  IInv'
  <2>1. CASE NewLocks(t) \/ DestoryLocks(t)
    BY <2>1, LockInv
  <2>2. CASE NewRefuses(t) \/ NewRejects(t)
    BY <2>2, RefuseInv
  <2>3. CASE NewFinds(t)
    BY <2>3, FindInv
  <2>4. CASE NewShares(t)
    BY <2>4, ShareInv
  <2>5. CASE NewCreates(t)
    BY <2>5, CreateInv
  <2>6. CASE Walk(t)
    BY <2>6, WalkStep
  <2>7. CASE \/ OpenTests(t) \/ DriverTests(t) \/ CloseTests(t) \/ CloseEnds(t)
             \/ DriverRestores(t) \/ IoTests(t) \/ IoWaits(t) \/ IoTransfers(t) \/ CleanFlushes(t)
    BY <2>7, LookInv
  <2>8. CASE \/ DriverOpens(t) \/ DriverOpenFails(t) \/ OpenCounts(t) \/ CloseCounts(t)
             \/ DriverCloses(t) \/ DriverForgets(t) \/ LockAcquires(t) \/ UnlockReleases(t)
    BY <2>8, DriverInv
  <2>9. CASE DestoryCounts(t)
    BY <2>9, CountDownInv
  <2>10. CASE DestoryEnds(t)
    BY <2>10, BuryInv
  <2>11. QED
    BY <1>3, <2>1, <2>2, <2>3, <2>4, <2>5, <2>6, <2>7, <2>8, <2>9, <2>10 DEF Runs
<1>4. QED
  BY <1>1, <1>2, <1>3 DEF Next

(* The invariant holds in every reachable state: g_mangers is enough for   *)
(* the registry, whatever else the threads do to each other.               *)
THEOREM AlwaysIInv == Spec => []IInv
<1>1. Init => IInv
  BY FirstInv
<1>2. IInv /\ [Next]_vars => IInv'
  BY NextInv
<1>3. QED
  BY <1>1, <1>2, PTL DEF Spec

(* serial_mangers is one ring of the allocated ports, and freed ones are   *)
(* poisoned, for any number of ports and threads (list_add in add_serial,  *)
(* list_del in serial_destory).                                            *)
THEOREM AlwaysRegistryRing == Spec => []RegistryRing
<1>1. IInv => RegistryRing
  BY DEF IInv
<1>2. QED
  BY <1>1, AlwaysIInv, PTL

(* No device is listed twice, however many threads are in serial_new: it   *)
(* looks and adds without letting go of g_mangers.                         *)
THEOREM AlwaysOnePortPerDevice == Spec => []OnePortPerDevice
<1>1. IInv => OnePortPerDevice
  BY DEF IInv
<1>2. QED
  BY <1>1, AlwaysIInv, PTL

(* refcount is the number of references in the threads' hands, so that     *)
(* serial_destory frees a port with the last of them and not before.       *)
THEOREM AlwaysRefcountExact == Spec => []RefcountExact
<1>1. IInv => RefcountExact
  BY DEF IInv
<1>2. QED
  BY <1>1, AlwaysIInv, PTL

=============================================================================
