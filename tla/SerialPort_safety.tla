-------------------------- MODULE SerialPort_safety --------------------------
(***************************************************************************)
(* What SerialPort_proofs does not: the properties that the ports have     *)
(* only while the threads respect each other, each theorem with the        *)
(* respects it needs, and the implementation of PortLease, which needs     *)
(* none.                                                                   *)
(***************************************************************************)
EXTENDS SerialPort_proofs

(* p is for the same device, on the same terms, as q.                      *)
SameAs(p, q) == p.device = q.device /\ p.setting = q.setting /\ p.shared = q.shared

(* What thread t may make of port d, which becomes p: what it was created  *)
(* for stays; references and openings are counted one at a time; only a    *)
(* mutex is taken or released; only the thread that opens or closes d      *)
(* changes the driver's state.                                             *)
Alter(t, d, p) ==
  /\ SameAs(p, port[d])
  /\ \/ p.refcount = port[d].refcount
     \/ d = call[t].ctx /\ call[t].pc = "share" /\ p.refcount = port[d].refcount + 1
     \/ d = call[t].ctx /\ call[t].pc = "drop" /\ p.refcount = port[d].refcount - 1
  /\ p.mt \in {port[d].mt, None} \/ (p.mt = t /\ call'[t] = Idle)
  /\ \/ p.opencount = port[d].opencount
     \/ d = call[t].ctx /\ call[t].pc = "count_up" /\ p.opencount = port[d].opencount + 1
     \/ d = call[t].ctx /\ call[t].pc = "count_down" /\ p.opencount = port[d].opencount - 1
  /\ \/ p.s = port[d].s /\ p.is_open = port[d].is_open
     \/ d = call[t].ctx /\ call[t].pc \in {"opening", "count_up", "closed"}

(* A port that is listed after a step of t: altered at most, or new.       *)
Stays(t, c) ==
  IF c \in Listed THEN Alter(t, c, port'[c])
  ELSE /\ call[t].pc = "create"
       /\ \E r \in call[t].want : r.setting \notin Invalid /\ port'[c] = NewPort(r)

(* The ports after a step of t, and the one it may have freed.             *)
PortStep(t) ==
  /\ \A c \in Listed' : Stays(t, c)
  /\ \A c \in Listed \ Listed' : c = call[t].ctx /\ call[t].pc = "bury" /\ port[c].refcount = 0

(* A step that touches no port.                                            *)
LEMMA Untouched ==
  ASSUME NEW t \in Thread, port' = port
  PROVE  PortStep(t)
BY DEF PortStep, Stays, Alter, SameAs, Listed

(* A port that a step lists is nobody's and closed.                        *)
LEMMA NewlyListed ==
  ASSUME NEW t \in Thread, PortStep(t), NEW c \in Listed' \ Listed
  PROVE  /\ port'[c].mt = None /\ port'[c].opencount = 0
         /\ port'[c].s = NoFd /\ ~port'[c].is_open
<1>1. \A r : /\ NewPort(r).mt = None /\ NewPort(r).opencount = 0
            /\ NewPort(r).s = NoFd /\ ~NewPort(r).is_open
  BY DEF NewPort
<1>2. PICK r : port'[c] = NewPort(r)
  BY DEF PortStep, Stays
<1>3. QED
  BY <1>1, <1>2

(* A step that makes p of one port.                                        *)
LEMMA Altered ==
  ASSUME Types, NEW t \in Thread, NEW d \in Listed, NEW p \in Port(Int),
         port' = [port EXCEPT ![d] = p], Alter(t, d, p)
  PROVE  PortStep(t)
<1>1. d \in Ctx /\ p # Freed
  BY ListedPort
<1>2. \A c \in Ctx : port'[c] = IF c = d THEN p ELSE port[c]
  BY <1>1 DEF Types
<1>3. Listed' = Listed /\ Listed \subseteq Ctx
  BY <1>1, <1>2 DEF Listed
<1>4. ASSUME NEW c \in Listed
      PROVE  Alter(t, c, port'[c])
  <2>1. CASE c = d
    BY <1>1, <1>2, <2>1
  <2>2. CASE c # d
    <3>1. port'[c] = port[c]
      BY <1>2, <1>3, <2>2
    <3>2. QED
      BY <3>1 DEF Alter, SameAs
  <2>3. QED
    BY <2>1, <2>2
<1>5. QED
  BY <1>3, <1>4 DEF PortStep, Stays

(* The driver, the counting of opens and the port's mutex alter the        *)
(* caller's port alone.                                                    *)
LEMMA DriverAlters ==
  ASSUME IInv, NEW t \in Thread,
         \/ DriverOpens(t) \/ DriverOpenFails(t) \/ OpenCounts(t) \/ CloseCounts(t)
         \/ DriverForgets(t) \/ LockAcquires(t) \/ UnlockReleases(t)
  PROVE  PortStep(t)
<1> DEFINE c == call[t].ctx
           q == port[c]
<1>1. Types /\ CallInv(t)
  BY SMTT(30) DEF IInv
<1>2. call[t].pc \in Unlocked
  BY DEF DriverOpens, DriverOpenFails, OpenCounts, CloseCounts, DriverForgets,
         LockAcquires, UnlockReleases, AtPc, Unlocked, Opening, Shutting
<1>3. c \in Listed /\ q \in Port(Int)
  BY <1>1, <1>2, OnListed, ListedPort
<1>4. CASE DriverOpens(t)
  <2>1. PICK f \in Fd : port' = [port EXCEPT ![c] = [q EXCEPT !.s = f, !.is_open = TRUE]]
    BY <1>4 DEF DriverOpens
  <2> DEFINE p == [q EXCEPT !.s = f, !.is_open = TRUE]
  <2>2. /\ p \in Port(Int) /\ SameAs(p, q) /\ p.refcount = q.refcount
        /\ p.mt = q.mt /\ p.opencount = q.opencount
    BY <1>3 DEF Port, SameAs
  <2> HIDE DEF p
  <2>3. port' = [port EXCEPT ![c] = p]
    BY <2>1 DEF p
  <2>4. Alter(t, c, p)
    BY <1>4, <2>2 DEF Alter, DriverOpens, AtPc
  <2>5. QED
    BY <1>1, <1>3, <2>2, <2>3, <2>4, Altered
<1>5. CASE DriverOpenFails(t)
  <2>1. PICK f \in Fd \cup {NoFd} : port' = [port EXCEPT ![c] = [q EXCEPT !.s = f]]
    <3>1. PICK failed \in {<<[q EXCEPT !.s = NoFd], fds>>} \cup WinKeeps(c) :
            port' = [port EXCEPT ![c] = failed[1]]
      BY <1>5 DEF DriverOpenFails
    <3>2. WinKeeps(c) \subseteq {<<[q EXCEPT !.s = f], fds \cup {f}>> : f \in Fd \ fds}
      BY DEF WinKeeps
    <3>3. \E f \in Fd \cup {NoFd} : failed[1] = [q EXCEPT !.s = f]
      BY <3>1, <3>2
    <3>4. QED
      BY <3>1, <3>3
  <2> DEFINE p == [q EXCEPT !.s = f]
  <2>2. /\ p \in Port(Int) /\ SameAs(p, q) /\ p.refcount = q.refcount
        /\ p.mt = q.mt /\ p.opencount = q.opencount
    BY <1>3 DEF Port, SameAs
  <2> HIDE DEF p
  <2>3. port' = [port EXCEPT ![c] = p]
    BY <2>1 DEF p
  <2>4. Alter(t, c, p)
    BY <1>5, <2>2 DEF Alter, DriverOpenFails, AtPc
  <2>5. QED
    BY <1>1, <1>3, <2>2, <2>3, <2>4, Altered
<1>6. CASE OpenCounts(t)
  <2> DEFINE n == q.opencount + 1
             p == [q EXCEPT !.opencount = n, !.is_open = TRUE]
  <2>1. port' = [port EXCEPT ![c] = p] /\ call[t].pc = "count_up"
    BY <1>6 DEF OpenCounts, AtPc
  <2>2. n \in Int
    BY <1>3 DEF Port
  <2> HIDE DEF n
  <2>3. p \in Port(Int) /\ SameAs(p, q) /\ p.refcount = q.refcount /\ p.mt = q.mt /\ p.opencount = n
    BY <1>3, <2>2 DEF Port, SameAs
  <2> HIDE DEF p
  <2>4. Alter(t, c, p)
    BY <2>1, <2>3 DEF Alter, n
  <2>5. QED
    BY <1>1, <1>3, <2>1, <2>3, <2>4, Altered
<1>7. CASE CloseCounts(t)
  <2> DEFINE n == q.opencount - 1
             p == [q EXCEPT !.opencount = n]
  <2>1. port' = [port EXCEPT ![c] = p] /\ call[t].pc = "count_down"
    BY <1>7 DEF CloseCounts, AtPc
  <2>2. n \in Int
    BY <1>3 DEF Port
  <2> HIDE DEF n
  <2>3. /\ p \in Port(Int) /\ SameAs(p, q) /\ p.refcount = q.refcount
        /\ p.mt = q.mt /\ p.opencount = n
        /\ p.s = q.s /\ p.is_open = q.is_open
    BY <1>3, <2>2 DEF Port, SameAs
  <2> HIDE DEF p
  <2>4. Alter(t, c, p)
    BY <2>1, <2>3 DEF Alter, n
  <2>5. QED
    BY <1>1, <1>3, <2>1, <2>3, <2>4, Altered
<1>8. CASE DriverForgets(t)
  <2> DEFINE p == [q EXCEPT !.s = NoFd, !.is_open = FALSE]
  <2>1. port' = [port EXCEPT ![c] = p] /\ call[t].pc = "closed"
    BY <1>8 DEF DriverForgets, AtPc
  <2>2. /\ p \in Port(Int) /\ SameAs(p, q) /\ p.refcount = q.refcount
        /\ p.mt = q.mt /\ p.opencount = q.opencount
    BY <1>3 DEF Port, SameAs
  <2> HIDE DEF p
  <2>3. Alter(t, c, p)
    BY <2>1, <2>2 DEF Alter
  <2>4. QED
    BY <1>1, <1>3, <2>1, <2>2, <2>3, Altered
<1>9. CASE LockAcquires(t) \/ UnlockReleases(t)
  <2>1. PICK m \in {t, None} : port' = [port EXCEPT ![c] = [q EXCEPT !.mt = m]]
    BY <1>9 DEF LockAcquires, UnlockReleases
  <2> DEFINE p == [q EXCEPT !.mt = m]
  <2>2. /\ p \in Port(Int) /\ SameAs(p, q) /\ p.refcount = q.refcount
        /\ p.mt = m /\ p.opencount = q.opencount
        /\ p.s = q.s /\ p.is_open = q.is_open
    BY <1>3 DEF Port, SameAs
  <2> HIDE DEF p
  <2>3. port' = [port EXCEPT ![c] = p]
    BY <2>1 DEF p
  <2>4. call'[t] = Idle
    BY <1>1, <1>9, ReturnCall DEF LockAcquires, UnlockReleases
  <2>5. Alter(t, c, p)
    BY <2>2, <2>4 DEF Alter
  <2>6. QED
    BY <1>1, <1>3, <2>2, <2>3, <2>5, Altered
<1>10. QED
  BY <1>4, <1>5, <1>6, <1>7, <1>8, <1>9

(* A port is freed only by the thread whose reference was the last.        *)
LEMMA RegistryAlters ==
  ASSUME IInv, NEW t \in Thread,
         NewShares(t) \/ NewCreates(t) \/ DestoryCounts(t) \/ DestoryEnds(t)
  PROVE  PortStep(t)
<1> DEFINE c == call[t].ctx
           q == port[c]
<1>1. Types /\ CallInv(t)
  BY DEF IInv
<1>2. ASSUME c \in Listed, NEW n \in Nat, port' = [port EXCEPT ![c].refcount = n],
             \/ call[t].pc = "share" /\ n = q.refcount + 1
             \/ call[t].pc = "drop" /\ n = q.refcount - 1
      PROVE  PortStep(t)
  <2> DEFINE p == [q EXCEPT !.refcount = n]
  <2>1. q \in Port(Int)
    BY <1>1, <1>2, ListedPort
  <2>2. /\ p \in Port(Int) /\ SameAs(p, q) /\ p.refcount = n
        /\ p.mt = q.mt /\ p.opencount = q.opencount
        /\ p.s = q.s /\ p.is_open = q.is_open
    BY <2>1 DEF Port, SameAs
  <2>3. port' = [port EXCEPT ![c] = p]
    BY <1>2
  <2> HIDE DEF p
  <2>4. Alter(t, c, p)
    BY <1>2, <2>2 DEF Alter
  <2>5. QED
    BY <1>1, <1>2, <2>2, <2>3, <2>4, Altered
<1>3. ASSUME c \in Listed
      PROVE  q.refcount \in Nat
  <2>1. q \in Port(Int)
    BY <1>1, <1>3, ListedPort
  <2> HIDE DEF q
  <2>2. QED
    BY <2>1 DEF Port
<1>4. CASE NewShares(t)
  <2>1. c \in Listed
    BY <1>1, <1>4 DEF NewShares, AtPc, CallInv
  <2> DEFINE n == q.refcount + 1
  <2>2. port' = [port EXCEPT ![c].refcount = n]
    BY <1>4 DEF NewShares
  <2>3. n \in Nat /\ call[t].pc = "share" /\ n = q.refcount + 1
    BY <1>3, <1>4, <2>1 DEF NewShares, AtPc
  <2> HIDE DEF n
  <2>4. QED
    BY <1>2, <2>1, <2>2, <2>3
<1>5. CASE NewCreates(t)
  <2>1. PICK r \in call[t].want, d \in Ctx \ Listed :
          r.setting \notin Invalid /\ port' = [port EXCEPT ![d] = NewPort(r)]
    BY <1>5 DEF NewCreates
  <2>2. \A e \in Ctx : port'[e] = IF e = d THEN NewPort(r) ELSE port[e]
    BY <1>1, <2>1 DEF Types
  <2>3. \A e \in Listed : e \in Ctx /\ port'[e] = port[e] /\ e \in Listed'
    BY <2>1, <2>2 DEF Listed
  <2>4. \A e \in Listed' \ Listed : e = d
    BY <2>2 DEF Listed
  <2>5. \A e \in Listed : Alter(t, e, port'[e])
    BY <2>3 DEF Alter, SameAs
  <2>6. port'[d] = NewPort(r)
    BY <2>1, <2>2
  <2>7. QED
    BY <1>5, <2>1, <2>3, <2>4, <2>5, <2>6 DEF PortStep, Stays, NewCreates, AtPc
<1>6. CASE DestoryCounts(t)
  <2>1. c \in Listed /\ held[t][c] > 0
    BY <1>6, OnListed DEF DestoryCounts, AtPc
  <2>2. q.refcount > 0
    BY <2>1, HeldListed DEF Listed
  <2>3. On(q.device) = {c}
    BY <2>1 DEF IInv, OnePortPerDevice, On
  <2> DEFINE n == q.refcount - 1
  <2>4. port' = [port EXCEPT ![c].refcount = n]
    BY <1>6, <2>2, <2>3 DEF DestoryCounts
  <2>5. n \in Nat /\ call[t].pc = "drop" /\ n = q.refcount - 1
    BY <1>3, <1>6, <2>1, <2>2 DEF DestoryCounts, AtPc
  <2> HIDE DEF n
  <2>6. QED
    BY <1>2, <2>1, <2>4, <2>5
<1>7. CASE DestoryEnds(t)
  <2>1. c \in Listed /\ call[t].pc = "bury"
    BY <1>1, <1>7 DEF DestoryEnds, AtPc, CallInv
  <2>2. CASE port' = port
    BY <2>2, Untouched
  <2>3. CASE q.refcount = 0 /\ port' = [port EXCEPT ![c] = Freed]
    <3>1. \A e \in Ctx : port'[e] = IF e = c THEN Freed ELSE port[e]
      BY <1>1, <2>3 DEF Types
    <3>2. Listed' = Listed \ {c}
      BY <2>1, <3>1 DEF Listed
    <3>3. \A e \in Listed' : port'[e] = port[e] /\ e \in Listed
      BY <3>1, <3>2 DEF Listed
    <3>4. \A e \in Listed' : Stays(t, e)
      BY <3>3 DEF Stays, Alter, SameAs
    <3>5. QED
      BY <2>1, <2>3, <3>2, <3>4 DEF PortStep
  <2>4. QED
    BY <1>3, <1>7, <2>1, <2>2, <2>3 DEF DestoryEnds
<1>8. QED
  BY <1>4, <1>5, <1>6, <1>7

(* So every statement of every call changes the ports in one of these      *)
(* ways.                                                                   *)
LEMMA RunAlters ==
  ASSUME IInv, NEW t \in Thread, Runs(t)
  PROVE  PortStep(t)
<1>1. CASE \/ NewLocks(t) \/ NewRefuses(t) \/ NewFinds(t) \/ NewRejects(t) \/ Walk(t)
           \/ OpenTests(t) \/ DriverTests(t) \/ CloseTests(t) \/ CloseEnds(t) \/ DriverRestores(t)
           \/ DriverCloses(t) \/ IoTests(t) \/ IoWaits(t) \/ IoTransfers(t) \/ CleanFlushes(t)
           \/ DestoryLocks(t)
  <2>1. port' = port
    BY <1>1 DEF NewLocks, NewRefuses, NewFinds, NewRejects, Walk, OpenTests, DriverTests,
                CloseTests, CloseEnds, DriverRestores, DriverCloses, IoTests, IoWaits,
                IoTransfers, CleanFlushes, DestoryLocks
  <2>2. QED
    BY <2>1, Untouched
<1>2. CASE \/ DriverOpens(t) \/ DriverOpenFails(t) \/ OpenCounts(t) \/ CloseCounts(t)
           \/ DriverForgets(t) \/ LockAcquires(t) \/ UnlockReleases(t)
  BY <1>2, DriverAlters
<1>3. CASE NewShares(t) \/ NewCreates(t) \/ DestoryCounts(t) \/ DestoryEnds(t)
  BY <1>3, RegistryAlters
<1>4. QED
  BY <1>1, <1>2, <1>3 DEF Runs

(* A call goes on with its port, walks on the ring or returns, and only    *)
(* CloseTests brings it to where it counts a closing.                      *)
Turn(t) ==
  /\ \A u \in Thread \ {t} : call'[u] = call[u]
  /\ \/ call'[t] = Idle
     \/ /\ call'[t].op = call[t].op
        /\ call[t].op # "new" => call'[t].ctx = call[t].ctx
        /\ call'[t].pc = "walk" => call[t].pc = "walk"
        /\ call'[t].pc = "count_down" =>
             port' = port /\ call[t].op = "close" /\ port[call[t].ctx].opencount > 0

(* No statement changes the call of another thread.                        *)
LEMMA RunTurns ==
  ASSUME IInv, NEW t \in Thread, Runs(t)
  PROVE  Turn(t)
<1>1. Types /\ CallInv(t) /\ OpFits(call[t])
  BY DEF IInv, CallInv
<1>2. CASE Return(t)
  BY <1>1, <1>2, ReturnCall DEF Turn
<1>3. ASSUME NEW pc \in Place \ {"walk", "count_down"}, Goto(t, pc)
      PROVE  Turn(t)
  <2>1. call'[t] = [call[t] EXCEPT !.pc = pc] /\ \A u \in Thread \ {t} : call'[u] = call[u]
    BY <1>1, <1>3, GotoCall
  <2>2. call'[t].pc = pc /\ call'[t].op = call[t].op /\ call'[t].ctx = call[t].ctx
    BY <1>1, <2>1 DEF Types
  <2>3. QED
    BY <2>1, <2>2 DEF Turn
<1>4. CASE CloseTests(t)
  <2> DEFINE pc == IF port[call[t].ctx].opencount > 0 THEN "count_down" ELSE "last"
  <2>1. call'[t] = [call[t] EXCEPT !.pc = pc] /\ \A u \in Thread \ {t} : call'[u] = call[u]
    BY <1>1, <1>4, GotoCall DEF CloseTests, Place
  <2>2. call'[t].pc = pc /\ call'[t].op = call[t].op /\ call'[t].ctx = call[t].ctx
    BY <1>1, <2>1 DEF Types
  <2>3. port' = port /\ call[t].op = "close"
    BY <1>1, <1>4 DEF CloseTests, AtPc, OpFits, Shutting
  <2>4. QED
    BY <2>1, <2>2, <2>3 DEF Turn
<1>5. CASE Walk(t)
  <2>1. call[t].pc = "walk" /\ call[t].op \in Op
    BY <1>1, <1>5 DEF Walk, AtPc, OpFits
  <2>2. CASE Goto(t, Found[call[t].op])
    <3>1. Found[call[t].op] \in Place \ {"walk", "count_down"}
      BY <2>1 DEF Found, Op, Place
    <3>2. QED
      BY <1>3, <2>2, <3>1
  <2>3. CASE call' = call
    BY <2>1, <2>3, <1>1 DEF Turn
  <2>4. CASE call' = [call EXCEPT ![t].pos = links[call[t].pos].next]
    <3> DEFINE n == links[call[t].pos].next
               k == [call[t] EXCEPT !.pos = n]
    <3>1. k.pc = call[t].pc /\ k.op = call[t].op /\ k.ctx = call[t].ctx
      BY <1>1 DEF Types
    <3>2. call' = [call EXCEPT ![t] = k]
      BY <2>4
    <3> HIDE DEF k
    <3>3. call'[t] = k /\ \A u \in Thread \ {t} : call'[u] = call[u]
      BY <1>1, <3>2 DEF Types
    <3>4. QED
      BY <2>1, <3>1, <3>3 DEF Turn
  <2>5. QED
    BY <1>2, <1>5, <2>2, <2>3, <2>4 DEF Walk
<1>6. CASE NewFinds(t)
  <2>1. call[t].op = "new"
    BY <1>1, <1>6 DEF NewFinds, AtPc, OpFits, Newing
  <2>2. CASE Goto(t, "create")
    BY <1>3, <2>2 DEF Place
  <2>3. ASSUME NEW c, call' = [call EXCEPT ![t].pc = "share", ![t].ctx = c]
        PROVE  Turn(t)
    <3>1. /\ \A u \in Thread \ {t} : call'[u] = call[u]
          /\ call'[t].op = call[t].op /\ call'[t].pc = "share"
      BY <1>1, <2>3 DEF Types
    <3>2. QED
      BY <2>1, <3>1 DEF Turn
  <2>4. QED
    BY <1>6, <2>2, <2>3 DEF NewFinds
<1>7. CASE \/ NewLocks(t) \/ OpenTests(t) \/ DriverTests(t) \/ DriverOpens(t) \/ CloseCounts(t)
           \/ CloseEnds(t) \/ DriverRestores(t) \/ DriverCloses(t)
           \/ IoTests(t) \/ IoWaits(t) \/ IoTransfers(t) \/ DestoryLocks(t) \/ DestoryCounts(t)
  <2>1. Return(t) \/ \E pc \in Place \ {"walk", "count_down"} : Goto(t, pc)
    BY <1>7 DEF NewLocks, OpenTests, DriverTests, DriverOpens, CloseCounts, CloseEnds, DriverRestores,
                DriverCloses, IoTests, IoWaits, IoTransfers, DestoryLocks, DestoryCounts, Place
  <2>2. QED
    BY <1>2, <1>3, <2>1
<1>8. CASE \/ NewRefuses(t) \/ NewShares(t) \/ NewCreates(t) \/ NewRejects(t)
           \/ DriverOpenFails(t) \/ OpenCounts(t) \/ DriverForgets(t)
           \/ LockAcquires(t) \/ UnlockReleases(t) \/ CleanFlushes(t) \/ DestoryEnds(t)
  <2>1. Return(t)
    BY <1>8 DEF NewRefuses, NewShares, NewCreates, NewRejects, DriverOpenFails, OpenCounts,
                DriverForgets, LockAcquires, UnlockReleases, CleanFlushes, DestoryEnds
  <2>2. QED
    BY <1>2, <2>1
<1>9. QED
  BY <1>4, <1>5, <1>6, <1>7, <1>8 DEF Runs

(* A thread that starts a call changes only its own, and starts it at the  *)
(* first entry of the ring or outside it.                                  *)
LEMMA StartTurns ==
  ASSUME IInv, NEW t \in Thread, Starts(t)
  PROVE  /\ port' = port /\ links' = links /\ fault' = fault
         /\ \A u \in Thread \ {t} : call'[u] = call[u]
         /\ \/ /\ call'[t].pc = "new" /\ call'[t].op = "new"
               /\ "held_calls" \in Env \/ Owned(t) = {}
            \/ \E c \in Listed : /\ call'[t].pc = "destory" /\ call'[t].op = "destory"
                                 /\ call'[t].ctx = c /\ Polite(t, "destory", c)
            \/ \E op \in Op, c \in Listed :
                 /\ call'[t].pc = "walk" /\ call'[t].op = op /\ call'[t].ctx = c
                 /\ call'[t].pos = links[serial_mangers].next /\ Polite(t, op, c)
<1>1. Types
  BY DEF IInv
<1>2. ASSUME NEW r \in Request, NewStarts(t, r)
      PROVE  /\ UNCHANGED <<port, links, fault>>
             /\ \A u \in Thread \ {t} : call'[u] = call[u]
             /\ call'[t].pc = "new" /\ call'[t].op = "new"
             /\ "held_calls" \in Env \/ Owned(t) = {}
  BY <1>1, <1>2 DEF NewStarts, Types
<1>3. ASSUME NEW c \in Ctx, DestoryStarts(t, c)
      PROVE  /\ UNCHANGED <<port, links, fault>>
             /\ \A u \in Thread \ {t} : call'[u] = call[u]
             /\ c \in Listed /\ call'[t].pc = "destory" /\ call'[t].op = "destory"
             /\ call'[t].ctx = c /\ Polite(t, "destory", c)
  <2>1. c \in Listed
    BY <1>3, HeldListed DEF DestoryStarts
  <2>2. QED
    BY <1>1, <1>3, <2>1 DEF DestoryStarts, Types
<1>4. ASSUME NEW op \in Op, NEW c \in Ctx, CallStarts(t, op, c)
      PROVE  /\ UNCHANGED <<port, links, fault>>
             /\ \A u \in Thread \ {t} : call'[u] = call[u]
             /\ c \in Listed /\ call'[t].pc = "walk" /\ call'[t].op = op /\ call'[t].ctx = c
             /\ call'[t].pos = links[serial_mangers].next /\ Polite(t, op, c)
  <2>1. c \in Listed
    BY <1>4, HeldListed DEF CallStarts
  <2>2. QED
    BY <1>1, <1>4, <2>1 DEF CallStarts, Types
<1>5. QED
  BY <1>2, <1>3, <1>4 DEF Starts

(* A thread that uses a port keeps it listed while another moves.          *)
LEMMA StaysListed ==
  ASSUME IInv, NEW t \in Thread, NEW u \in Thread \ {t}, Runs(t),
         call[u].pc \notin Newing \cup {"idle"}
  PROVE  call[u].ctx \in Listed /\ call[u].ctx \in Listed'
<1> DEFINE c == call[u].ctx
<1>1. CallInv(u) /\ CallInv(t)
  BY DEF IInv
<1>2. CASE call[u].pc = "bury"
  <2>1. c \in Listed /\ call[t].pc # "bury"
    BY <1>1, <1>2 DEF CallInv, Locked
  <2>2. QED
    BY <2>1, RunAlters DEF PortStep
<1>3. CASE call[u].pc # "bury"
  <2>1. c \in Ctx /\ held[u][c] > 0
    BY <1>1, <1>3 DEF CallInv
  <2>2. c \in Listed /\ port[c].refcount > 0
    BY <2>1, HeldListed
  <2>3. c \notin Listed' => port[c].refcount = 0
    BY <2>2, RunAlters DEF PortStep
  <2>4. QED
    BY <2>2, <2>3
<1>4. QED
  BY <1>2, <1>3

(* Only serial_new lists a port.                                           *)
LEMMA OnlyCreated ==
  ASSUME IInv, NEW t \in Thread, Runs(t), ~NewCreates(t)
  PROVE  Listed' \subseteq Listed
<1>1. CASE call[t].pc # "create"
  BY <1>1, RunAlters DEF PortStep, Stays
<1>2. CASE call[t].pc = "create"
  <2>1. NewRejects(t)
    BY <1>2 DEF Runs, AtPc, NewLocks, NewRefuses, NewFinds, NewShares,
             Walk, OpenTests, DriverTests, DriverOpens, DriverOpenFails, OpenCounts, CloseTests,
             CloseCounts, CloseEnds, DriverRestores, DriverCloses, DriverForgets, LockAcquires,
             UnlockReleases, IoTests, IoWaits, IoTransfers, CleanFlushes,
             DestoryLocks, DestoryCounts, DestoryEnds
  <2>2. QED
    BY <2>1 DEF NewRejects, Listed
<1>3. QED
  BY <1>1, <1>2

(* Only serial_new and serial_destory change the list.                     *)
LEMMA ListStays ==
  ASSUME IInv, NEW t \in Thread, Runs(t), ~NewCreates(t), ~DestoryEnds(t)
  PROVE  links' = links /\ Listed' = Listed
<1>1. links' = links /\ call[t].pc # "bury"
  BY DEF Runs, AtPc, NewLocks, NewRefuses, NewFinds, NewShares, NewRejects,
         Walk, OpenTests, DriverTests, DriverOpens, DriverOpenFails, OpenCounts, CloseTests,
         CloseCounts, CloseEnds, DriverRestores, DriverCloses, DriverForgets, LockAcquires,
         UnlockReleases, IoTests, IoWaits, IoTransfers, CleanFlushes, DestoryLocks, DestoryCounts
<1>2. Listed \subseteq Listed'
  BY <1>1, RunAlters DEF PortStep
<1>3. QED
  BY <1>1, <1>2, OnlyCreated

-----------------------------------------------------------------------------
(* The counts of openings.                                                 *)

(* Nobody is about to count down a port that is not open, and no two       *)
(* threads are in serial_open or serial_close of one port.                 *)
OpenInv ==
  /\ \A t \in Thread : call[t].pc = "count_down" => port[call[t].ctx].opencount > 0
  /\ \A c \in Listed : port[c].opencount \in Nat
  /\ \A t, u \in Thread : t # u /\ call[t].op \in {"open", "close"} /\ call[u].op \in {"open", "close"}
        => call[t].ctx # call[u].ctx

(* While no two threads open or close one port at once, what serial_close  *)
(* has tested before it takes the mutex is still so when it counts down.   *)
LEMMA OpenStep ==
  ASSUME IInv, OpenInv, [Next]_vars, "open_race" \notin Env
  PROVE  OpenInv'
<1>1. CASE UNCHANGED vars
  BY <1>1 DEF vars, OpenInv, Listed
<1>2. ASSUME NEW t \in Thread, Starts(t)
      PROVE  OpenInv'
  <2>1. port' = port /\ Listed' = Listed /\ \A u \in Thread \ {t} : call'[u] = call[u]
    BY <1>2, StartTurns DEF Listed
  <2>2. call'[t].pc # "count_down"
    BY <1>2, StartTurns
  <2>3. call'[t].op \in {"open", "close"} =>
          \A u \in Thread : call[u].op \in {"open", "close"} => call[u].ctx # call'[t].ctx
    BY <1>2, StartTurns DEF Polite, InOpenOrClose
  <2>4. QED
    BY <2>1, <2>2, <2>3 DEF OpenInv
<1>3. ASSUME NEW t \in Thread, Runs(t)
      PROVE  OpenInv'
  <2>1. Turn(t) /\ PortStep(t)
    BY <1>3, RunTurns, RunAlters
  <2>2. \A u, v \in Thread : u # v /\ call'[u].op \in {"open", "close"} /\ call'[v].op \in {"open", "close"}
          => call'[u].ctx # call'[v].ctx
    BY <2>1 DEF Turn, OpenInv, Idle
  <2>3. ASSUME NEW c \in Listed'
        PROVE  port'[c].opencount \in Nat
    <3>1. Stays(t, c)
      BY <2>1 DEF PortStep
    <3>2. CASE c \notin Listed
      BY <2>1, <3>2, NewlyListed
    <3>3. CASE c \in Listed
      <4>1. port[c].opencount \in Nat
        BY <3>3 DEF OpenInv
      <4>2. \/ port'[c].opencount = port[c].opencount
            \/ port'[c].opencount = port[c].opencount + 1
            \/ port'[c].opencount = port[c].opencount - 1 /\ port[c].opencount > 0
        BY <3>1, <3>3 DEF Stays, Alter, OpenInv
      <4>3. QED
        BY <4>1, <4>2
    <3>4. QED
      BY <3>2, <3>3
  <2>4. ASSUME NEW u \in Thread, call'[u].pc = "count_down"
        PROVE  port'[call'[u].ctx].opencount > 0
    <3>1. CASE u = t
      BY <2>1, <2>4, <3>1 DEF Turn, Idle
    <3>2. CASE u # t
      <4> DEFINE c == call[u].ctx
      <4>1. call'[u] = call[u] /\ call[u].pc = "count_down" /\ call[u].op = "close"
        BY <2>1, <2>4, <3>2 DEF Turn, IInv, CallInv, OpFits, Shutting
      <4>2. c \in Listed /\ c \in Listed'
        BY <1>3, <3>2, <4>1, StaysListed DEF Newing
      <4>3. Alter(t, c, port'[c])
        BY <2>1, <4>2 DEF PortStep, Stays
      <4>4. call[t].pc \in {"count_up", "count_down"} => call[t].op \in {"open", "close"}
        BY DEF IInv, CallInv, OpFits, Opening, Shutting
      <4>5. call[t].pc \in {"count_up", "count_down"} => c # call[t].ctx
        BY <3>2, <4>1, <4>4 DEF OpenInv
      <4>6. port'[c].opencount = port[c].opencount
        BY <4>3, <4>5 DEF Alter
      <4>7. QED
        BY <4>1, <4>6 DEF OpenInv
    <3>3. QED
      BY <3>1, <3>2
  <2>5. QED
    BY <2>2, <2>3, <2>4 DEF OpenInv
<1>4. QED
  BY <1>1, <1>2, <1>3 DEF Next

(* Nothing is open at first.                                               *)
LEMMA OpenInit ==
  ASSUME Init
  PROVE  OpenInv
BY DEF Init, OpenInv, Listed, Idle

(* With its counts natural a port has its type.                            *)
LEMMA TypesOK ==
  ASSUME IInv, OpenInv
  PROVE  TypeOK
<1>1. MaxRefs \in Nat /\ Types
  BY SerialPortAssumption DEF IInv
<1>2. ASSUME NEW c \in Ctx
      PROVE  port[c] \in Port(Nat) \cup {Freed}
  <2>1. CASE c \in Listed
    <3>1. port[c] \in Port(Int) /\ port[c].opencount \in Nat
      BY <1>1, <2>1, ListedPort DEF OpenInv
    <3>2. QED
      BY <3>1 DEF Port
  <2>2. QED
    BY <2>1 DEF Listed
<1>3. port \in [Ctx -> Port(Nat) \cup {Freed}]
  BY <1>1, <1>2 DEF Types
<1>4. held \in [Thread -> [Ctx -> Nat]]
  BY <1>1 DEF Types
<1>5. QED
  BY <1>1, <1>3, <1>4 DEF Types, TypeOK

(* Every variable keeps its type. It needs the threads not to open or      *)
(* close one port at once: serial_close tests opencount outside the mutex, *)
(* and two of them could count one open down twice.                        *)
THEOREM AlwaysTypeOK ==
  ASSUME "open_race" \notin Env
  PROVE  Spec => []TypeOK
<1>1. Init => OpenInv
  BY OpenInit
<1>2. IInv /\ OpenInv /\ [Next]_vars => OpenInv'
  BY OpenStep
<1>3. IInv /\ OpenInv => TypeOK
  BY TypesOK
<1>4. QED
  BY <1>1, <1>2, <1>3, AlwaysIInv, PTL DEF Spec

-----------------------------------------------------------------------------
(* The walks along the ring.                                               *)

(* Whoever follows next from p along the ring S comes to c before the head.*)
Leads(L, S, p, c) ==
  \A X \in SUBSET S : p \in X /\ (\A n \in X \ {serial_mangers} : L[n].next \in X) => c \in X

(* The head leads to every port.                                           *)
LEMMA HeadLeads ==
  ASSUME NEW L, NEW S, Ring(L, S), serial_mangers \in S, NEW c \in S \ {serial_mangers}
  PROVE  L[serial_mangers].next # serial_mangers /\ Leads(L, S, L[serial_mangers].next, c)
<1> DEFINE h == serial_mangers
<1>1. L[h].next # h
  <2> SUFFICES ASSUME L[h].next = h
               PROVE  FALSE
    OBVIOUS
  <2>1. {h} \in SUBSET S /\ \A n \in {h} : L[n].next \in {h}
    OBVIOUS
  <2>2. {h} = S
    BY <2>1 DEF Ring
  <2>3. QED
    BY <2>2
<1>2. ASSUME NEW X \in SUBSET S, L[h].next \in X, \A n \in X \ {h} : L[n].next \in X
      PROVE  c \in X
  <2> DEFINE Y == X \cup {h}
  <2>1. Y \in SUBSET S /\ Y # {} /\ \A n \in Y : L[n].next \in Y
    BY <1>2
  <2> HIDE DEF Y
  <2>2. Y = S
    BY <2>1 DEF Ring
  <2>3. QED
    BY <2>2 DEF Y
<1>3. QED
  BY <1>1, <1>2 DEF Leads

(* So does the place after one that does, unless it was the port.          *)
LEMMA NextLeads ==
  ASSUME NEW L, NEW S, Ring(L, S), serial_mangers \in S, NEW c \in S \ {serial_mangers},
         NEW p \in S \ {serial_mangers, c}, Leads(L, S, p, c)
  PROVE  L[p].next # serial_mangers /\ Leads(L, S, L[p].next, c)
<1> DEFINE h == serial_mangers
<1>1. L[p].next # h
  <2> SUFFICES ASSUME L[p].next = h
               PROVE  FALSE
    OBVIOUS
  <2> DEFINE X == {p, h}
  <2>1. X \in SUBSET S /\ p \in X /\ \A n \in X \ {h} : L[n].next \in X
    OBVIOUS
  <2>2. c \in X
    BY <2>1 DEF Leads
  <2>3. QED
    BY <2>2
<1>2. ASSUME NEW X \in SUBSET S, L[p].next \in X, \A n \in X \ {h} : L[n].next \in X
      PROVE  c \in X
  <2> DEFINE Y == X \cup {p}
  <2>1. Y \in SUBSET S /\ p \in Y /\ \A n \in Y \ {h} : L[n].next \in Y
    BY <1>2
  <2> HIDE DEF Y
  <2>2. c \in Y
    BY <2>1 DEF Leads
  <2>3. QED
    BY <2>2 DEF Y
<1>3. QED
  BY <1>1, <1>2 DEF Leads

(* A place still leads to a port when an entry comes in behind the head.   *)
LEMMA AddLeads ==
  ASSUME NEW L, NEW M, NEW S, Ring(L, S), serial_mangers \in S, NEW e, e \notin S,
         \A n \in S \ {serial_mangers} : M[n].next = L[n].next,
         NEW p \in S, NEW c \in S, Leads(L, S, p, c)
  PROVE  Leads(M, S \cup {e}, p, c)
<1> SUFFICES ASSUME NEW X \in SUBSET (S \cup {e}), p \in X,
                    \A n \in X \ {serial_mangers} : M[n].next \in X
             PROVE  c \in X
  BY DEF Leads
<1> DEFINE Y == X \ {e}
<1>1. \A n \in S : L[n].next \in S
  BY DEF Ring
<1>2. Y \in SUBSET S /\ p \in Y /\ \A n \in Y \ {serial_mangers} : L[n].next \in Y
  BY <1>1
<1> HIDE DEF Y
<1>3. c \in Y
  BY <1>2 DEF Leads
<1>4. QED
  BY <1>3 DEF Y

(* And when an entry other than the two is taken out.                      *)
LEMMA DelLeads ==
  ASSUME NEW L, NEW M, NEW S, Ring(L, S), NEW e \in S \ {serial_mangers},
         \A n \in S \ {e} : M[n].next = IF n = L[e].prev THEN L[e].next ELSE L[n].next,
         NEW p \in S \ {e}, NEW c \in S \ {e}, Leads(L, S, p, c)
  PROVE  Leads(M, S \ {e}, p, c)
<1> SUFFICES ASSUME NEW X \in SUBSET (S \ {e}), p \in X,
                    \A n \in X \ {serial_mangers} : M[n].next \in X
             PROVE  c \in X
  BY DEF Leads
<1> DEFINE q == L[e].prev
<1>1. L[q].next = e
  BY DEF Ring
<1>2. CASE q \in X \ {serial_mangers}
  <2> DEFINE Y == X \cup {e}
  <2>1. M[q].next = L[e].next /\ M[q].next \in X
    BY <1>2
  <2>2. \A n \in Y \ {serial_mangers} : L[n].next \in Y
    BY <1>1, <2>1
  <2>3. Y \in SUBSET S /\ p \in Y
    OBVIOUS
  <2> HIDE DEF Y
  <2>4. c \in Y
    BY <2>2, <2>3 DEF Leads
  <2>5. QED
    BY <2>4 DEF Y
<1>3. CASE q \notin X \ {serial_mangers}
  <2>1. \A n \in X \ {serial_mangers} : L[n].next \in X
    BY <1>3
  <2>2. QED
    BY <2>1 DEF Leads
<1>4. QED
  BY <1>2, <1>3

(* The ring of the ports.                                                  *)
Registered == Listed \cup {serial_mangers}

(* Whoever walks is not at the end, and while the port it stands on is not *)
(* freed, it leads to its own.                                             *)
OnTheWay(t) ==
  /\ call[t].pos # serial_mangers
  /\ call[t].pos \in Listed => Leads(links, Registered, call[t].pos, call[t].ctx)
WalkInv == \A t \in Thread : Walking(t) => OnTheWay(t)

(* The port of a walking thread is listed, and stays so.                   *)
LEMMA WalkerListed ==
  ASSUME IInv, NEW u \in Thread, Walking(u)
  PROVE  /\ call[u].ctx \in Listed /\ call[u].ctx \in Registered \ {serial_mangers}
         /\ \A t \in Thread \ {u} : Runs(t) => call[u].ctx \in Listed'
<1>1. call[u].ctx \in Listed
  BY OnListed DEF Walking, Unlocked
<1>2. call[u].ctx # serial_mangers
  BY <1>1, SerialPortAssumption DEF Listed
<1>3. ASSUME NEW t \in Thread \ {u}, Runs(t)
      PROVE  call[u].ctx \in Listed'
  BY <1>3, StaysListed DEF Walking, Newing
<1>4. QED
  BY <1>1, <1>2, <1>3 DEF Registered

(* serial_new puts its port behind the head: on memory that a walk still   *)
(* stands on, maybe, from where it goes on along the whole list.           *)
LEMMA CreateLeads ==
  ASSUME IInv, IInv', WalkInv, NEW t \in Thread, NewCreates(t),
         NEW u \in Thread \ {t}, Walking(u), call'[u] = call[u]
  PROVE  OnTheWay(u)'
<1> DEFINE p == call[u].pos
           c == call[u].ctx
           S == Registered
<1>1. Types /\ Ring(links, S) /\ Ring(links', S')
  BY DEF IInv, RegistryRing, Registered
<1>2. PICK r \in call[t].want, e \in Ctx \ Listed :
        port' = [port EXCEPT ![e] = NewPort(r)] /\ links' = NodeAdded(e)
  BY DEF NewCreates
<1>3. Listed' = Listed \cup {e}
  <2>1. NewPort(r).refcount = 1 /\ Freed.refcount = 0
    BY DEF NewPort, Freed
  <2>2. \A d \in Ctx : port'[d] = IF d = e THEN NewPort(r) ELSE port[d]
    BY <1>1, <1>2 DEF Types
  <2>3. QED
    BY <2>1, <2>2 DEF Listed
<1>4. /\ S \in SUBSET Node /\ serial_mangers \in S /\ e \in Node \ S /\ S' = S \cup {e}
      /\ Node \subseteq Node \cup {LIST_POISON1} /\ Node \subseteq Node \cup {LIST_POISON2}
  BY <1>3, SerialPortAssumption DEF Registered, Listed, Node
<1>5. \A n \in S : links'[n].next = IF n = serial_mangers THEN e ELSE links[n].next
  <2> DEFINE N == Node \cup {LIST_POISON1}
             P == Node \cup {LIST_POISON2}
             M == INIT_LIST_HEAD(links, e)
  <2>1. M \in Links(Node, N, P) /\ \A n \in Node \ {e} : M[n] = links[n]
    BY <1>1, <1>4 DEF Types, INIT_LIST_HEAD, Alone, Links
  <2>2. links' = Insert(M, e, serial_mangers, M[serial_mangers].next)
    BY <1>2 DEF NodeAdded, list_add
  <2>3. M[serial_mangers].next \in S /\ serial_mangers \in Node
    BY <1>1, <1>4, <2>1 DEF Ring
  <2>4. M[serial_mangers].next \in Node /\ e # serial_mangers /\ e # M[serial_mangers].next
    BY <1>4, <2>3
  <2> HIDE DEF M, N, P, S
  <2>5. \A n \in Node \ {e} :
          Insert(M, e, serial_mangers, M[serial_mangers].next)[n].next
            = IF n = serial_mangers THEN e ELSE M[n].next
    <3>1. e \in Node /\ Node \subseteq N /\ Node \subseteq P
      BY <1>4 DEF N, P
    <3>2. QED
      BY <2>1, <2>3, <2>4, <3>1, InsertLinks
  <2>6. QED
    BY <1>4, <2>1, <2>2, <2>5
<1>6. p # serial_mangers /\ (p \in Listed => Leads(links, S, p, c))
  BY DEF WalkInv, OnTheWay
<1>7. c \in Listed /\ c \in S \ {serial_mangers} /\ c \in S' \ {serial_mangers}
  BY <1>4, WalkerListed
<1> HIDE DEF S, p, c
<1>8. CASE p \in Listed
  <2>1. p \in S
    BY <1>8 DEF S, Registered
  <2>2. \A n \in S \ {serial_mangers} : links'[n].next = links[n].next
    BY <1>5
  <2>3. Leads(links', S \cup {e}, p, c)
    BY <1>1, <1>4, <1>6, <1>7, <1>8, <2>1, <2>2, AddLeads
  <2>4. QED
    BY <1>4, <1>6, <2>3 DEF OnTheWay, S, p, c
<1>9. CASE p = e
  <2>1. links'[serial_mangers].next = e
    BY <1>4, <1>5
  <2>2. serial_mangers \in S'
    BY <1>4
  <2>3. Leads(links', S', links'[serial_mangers].next, c)
    BY <1>1, <1>7, <2>2, HeadLeads
  <2>4. QED
    BY <1>6, <1>9, <2>1, <2>3 DEF OnTheWay, S, p, c
<1>10. CASE p \notin Listed /\ p # e
  BY <1>3, <1>6, <1>10 DEF OnTheWay, p
<1>11. QED
  BY <1>8, <1>9, <1>10

(* serial_destory takes another port out than the one that the walk is for.*)
LEMMA DestoryLeads ==
  ASSUME IInv, IInv', WalkInv, NEW t \in Thread, DestoryEnds(t), Runs(t),
         NEW u \in Thread \ {t}, Walking(u), call'[u] = call[u]
  PROVE  OnTheWay(u)'
<1> DEFINE p == call[u].pos
           c == call[u].ctx
           e == call[t].ctx
           S == Registered
<1>1. Types /\ Ring(links, S)
  BY DEF IInv, RegistryRing, Registered
<1>2. p # serial_mangers /\ (p \in Listed => Leads(links, S, p, c))
  BY DEF WalkInv, OnTheWay
<1>3. c \in Listed /\ c \in Listed'
  BY WalkerListed
<1>4. e \in Listed /\ e \in Ctx /\ e # serial_mangers
  BY SerialPortAssumption DEF DestoryEnds, AtPc, IInv, CallInv, Listed
<1>5. CASE UNCHANGED <<port, links>>
  <2>1. Listed' = Listed
    BY <1>5 DEF Listed
  <2>2. QED
    BY <1>2, <1>5, <2>1 DEF OnTheWay, Registered
<1>6. CASE port' = [port EXCEPT ![e] = Freed] /\ links' = list_del(links, e)
  <2>1. Listed' = Listed \ {e}
    <3>1. \A d \in Ctx : port'[d] = IF d = e THEN Freed ELSE port[d]
      BY <1>1, <1>4, <1>6 DEF Types
    <3>2. QED
      BY <1>4, <3>1 DEF Listed
  <2>2. S' = S \ {e} /\ e \in S \ {serial_mangers} /\ c \in S \ {e} /\ S \in SUBSET Node
    BY <1>3, <1>4, <2>1 DEF Registered, Listed, Node
  <2>3. \A n \in S \ {e} : links'[n].next = IF n = links[e].prev THEN links[e].next ELSE links[n].next
    <3> DEFINE N == Node \cup {LIST_POISON1}
               P == Node \cup {LIST_POISON2}
               M == Unlinked(links, e)
    <3>1. links \in Links(Node, N, P) /\ Node \subseteq N /\ Node \subseteq P
      BY <1>1 DEF Types
    <3>2. links[e].prev \in Node /\ links[e].next \in Node
      BY <1>1, <2>2 DEF Ring
    <3> DEFINE q == links[e].prev
               n == links[e].next
    <3> HIDE DEF N, P, S, e, q, n
    <3>3. /\ Unlink(links, q, n) \in Links(Node, N, P)
          /\ \A m \in Node : Unlink(links, q, n)[m].next = IF m = q THEN n ELSE links[m].next
      <4>1. q \in Node /\ n \in Node
        BY <3>2 DEF q, n
      <4>2. QED
        BY <3>1, <4>1, UnlinkLinks
    <3> HIDE DEF M
    <3>4. M = Unlink(links, q, n) /\ links' = [M EXCEPT ![e] = Poisoned]
      BY <1>6 DEF list_del, M, e, Unlinked, q, n
    <3>5. \A m \in Node \ {e} : links'[m].next = IF m = q THEN n ELSE links[m].next
      BY <3>3, <3>4 DEF Links
    <3>6. \A m \in Node \ {e} :
            links'[m].next = IF m = links[e].prev THEN links[e].next ELSE links[m].next
      BY <3>5 DEF q, n
    <3>7. QED
      BY <2>2, <3>6
  <2> SUFFICES ASSUME p \in Listed'
               PROVE  Leads(links', S', p, c)
    BY <1>2 DEF OnTheWay
  <2>4. p \in S \ {e} /\ Leads(links, S, p, c)
    BY <1>2, <2>1 DEF Registered
  <2> HIDE DEF p, c, e, S
  <2>5. Leads(links', S \ {e}, p, c)
    BY <1>1, <2>2, <2>3, <2>4, DelLeads
  <2>6. QED
    BY <2>2, <2>5
<1>7. QED
  BY <1>5, <1>6 DEF DestoryEnds

(* One entry further along the ring.                                       *)
LEMMA WalkLeads ==
  ASSUME IInv, WalkInv, NEW t \in Thread, Walk(t), Walking(t)'
  PROVE  OnTheWay(t)'
<1> DEFINE p == call[t].pos
           c == call[t].ctx
           S == Registered
<1>1. Types /\ Walking(t) /\ call[t].op \in Op
  BY DEF IInv, CallInv, OpFits, Walk, AtPc, Walking
<1>2. p # serial_mangers /\ (p \in Listed => Leads(links, S, p, c))
  BY <1>1 DEF WalkInv, OnTheWay
<1>3. links' = links /\ Listed' = Listed /\ S' = S
  BY DEF Walk, Listed, Registered
<1>4. CASE p \notin Listed
  <2>1. call' = call
    BY <1>2, <1>4 DEF Walk
  <2>2. QED
    BY <1>2, <1>3, <1>4, <2>1 DEF OnTheWay
<1>5. CASE p \in Listed
  <2>1. ~Goto(t, Found[call[t].op])
    BY <1>1 DEF Goto, Found, Op, Types, Walking
  <2>2. port[p].device # port[c].device /\ call' = [call EXCEPT ![t].pos = links[p].next]
    BY <1>2, <1>5, <2>1 DEF Walk
  <2>3. call'[t].pos = links[p].next /\ call'[t].ctx = c
    BY <1>1, <2>2 DEF Types
  <2>4. p \in S \ {serial_mangers, c} /\ serial_mangers \in S /\ Ring(links, S)
    BY <1>2, <1>5, <2>2 DEF Registered, IInv, RegistryRing
  <2>5. c \in S \ {serial_mangers}
    BY <1>1, WalkerListed
  <2> HIDE DEF p, c, S
  <2>6. links[p].next # serial_mangers /\ Leads(links, S, links[p].next, c)
    BY <1>2, <1>5, <2>4, <2>5, NextLeads
  <2>7. QED
    BY <1>3, <2>3, <2>6 DEF OnTheWay, S
<1>6. QED
  BY <1>4, <1>5

(* Every step keeps the walks on their way, for every Env.                 *)
LEMMA WalkKeeps ==
  ASSUME IInv, IInv', WalkInv, [Next]_vars
  PROVE  WalkInv'
<1>1. CASE UNCHANGED vars
  BY <1>1 DEF vars, WalkInv, OnTheWay, Registered, Listed, Walking
<1>2. ASSUME NEW t \in Thread, Starts(t)
      PROVE  WalkInv'
  <2>1. /\ port' = port /\ links' = links /\ Listed' = Listed /\ Registered' = Registered
        /\ \A u \in Thread \ {t} : call'[u] = call[u]
    BY <1>2, StartTurns DEF Listed, Registered
  <2>2. ASSUME Walking(t)'
        PROVE  OnTheWay(t)'
    <3>1. PICK c \in Listed : call'[t].pos = links[serial_mangers].next /\ call'[t].ctx = c
      BY <1>2, <2>2, StartTurns DEF Walking
    <3>2. Ring(links, Registered) /\ serial_mangers \in Registered /\ c \in Registered \ {serial_mangers}
      BY SerialPortAssumption DEF IInv, RegistryRing, Registered, Listed
    <3>3. /\ links[serial_mangers].next # serial_mangers
          /\ Leads(links, Registered, links[serial_mangers].next, c)
      BY <3>2, HeadLeads
    <3>4. QED
      BY <2>1, <3>1, <3>3 DEF OnTheWay
  <2>3. ASSUME NEW u \in Thread \ {t}, Walking(u)'
        PROVE  OnTheWay(u)'
    BY <2>1, <2>3 DEF WalkInv, Walking, OnTheWay
  <2>4. QED
    BY <2>2, <2>3 DEF WalkInv
<1>3. ASSUME NEW t \in Thread, Runs(t)
      PROVE  WalkInv'
  <2>1. Turn(t)
    BY <1>3, RunTurns
  <2>2. ASSUME Walking(t)'
        PROVE  OnTheWay(t)'
    <3>1. call[t].pc = "walk"
      BY <2>1, <2>2 DEF Turn, Walking, Idle
    <3>2. Walk(t)
      BY <1>3, <3>1 DEF Runs, AtPc, NewLocks, NewRefuses, NewFinds, NewShares, NewCreates, NewRejects,
         OpenTests, DriverTests, DriverOpens, DriverOpenFails, OpenCounts, CloseTests,
         CloseCounts, CloseEnds, DriverRestores, DriverCloses, DriverForgets, LockAcquires,
         UnlockReleases, IoTests, IoWaits, IoTransfers, CleanFlushes,
         DestoryLocks, DestoryCounts, DestoryEnds
    <3>3. QED
      BY <2>2, <3>2, WalkLeads
  <2>3. ASSUME NEW u \in Thread \ {t}, Walking(u)'
        PROVE  OnTheWay(u)'
    <3>1. call'[u] = call[u] /\ Walking(u)
      BY <2>1, <2>3 DEF Turn, Walking
    <3>2. CASE NewCreates(t)
      BY <3>1, <3>2, CreateLeads
    <3>3. CASE DestoryEnds(t)
      BY <1>3, <3>1, <3>3, DestoryLeads
    <3>4. CASE ~NewCreates(t) /\ ~DestoryEnds(t)
      <4>1. links' = links /\ Listed' = Listed
        BY <1>3, <3>4, ListStays
      <4>2. QED
        BY <3>1, <4>1 DEF WalkInv, OnTheWay, Registered
    <3>5. QED
      BY <3>2, <3>3, <3>4
  <2>4. QED
    BY <2>2, <2>3 DEF WalkInv
<1>4. QED
  BY <1>1, <1>2, <1>3 DEF Next

(* find_serial outside g_mangers comes to the caller's own port, never to  *)
(* another nor to the end of the list, however ports are added, freed and  *)
(* their memory used again under it, or else it reads freed memory: for    *)
(* every Env, any number of threads and ports.                             *)
THEOREM AlwaysWalkFindsItsPort == Spec => []WalkFindsItsPort
<1>1. Init => WalkInv
  BY DEF Init, WalkInv, Walking, Idle
<1>2. IInv /\ IInv' /\ WalkInv /\ [Next]_vars => WalkInv'
  BY WalkKeeps
<1>3. IInv /\ WalkInv => WalkFindsItsPort
  <2> SUFFICES ASSUME IInv, WalkInv, NEW t \in Thread, Walking(t)
               PROVE  /\ call[t].ctx \in Listed /\ call[t].pos # serial_mangers
                      /\ call[t].pos \in On(port[call[t].ctx].device) => call[t].pos = call[t].ctx
    BY DEF WalkFindsItsPort
  <2>1. call[t].ctx \in Listed
    BY WalkerListed
  <2>2. QED
    BY <2>1 DEF WalkInv, OnTheWay, On, IInv, OnePortPerDevice
<1>4. QED
  BY <1>1, <1>2, <1>3, AlwaysIInv, PTL DEF Spec

-----------------------------------------------------------------------------
(* The waits of the threads.                                               *)

(* Whoever has locked a port is in no call, or in one that does not wait.  *)
HoldInv ==
  \A t \in Thread : Owned(t) # {} => call[t].op \in {"none", "unlock"} \cup Io

(* A thread that has locked a port is in no call that waits.               *)
LEMMA HoldKeeps ==
  ASSUME IInv, HoldInv, [Next]_vars, "held_calls" \notin Env
  PROVE  HoldInv'
<1>1. CASE UNCHANGED vars
  BY <1>1 DEF vars, HoldInv, Owned, Listed
<1>2. ASSUME NEW t \in Thread, Starts(t)
      PROVE  HoldInv'
  <2>1. /\ \A u \in Thread : Owned(u)' = Owned(u)
        /\ \A u \in Thread \ {t} : call'[u] = call[u]
    BY <1>2, StartTurns DEF Owned, Listed
  <2>2. Owned(t) # {} => call'[t].op \in {"none", "unlock"} \cup Io
    <3>1. CASE call'[t].pc = "new"
      BY <1>2, <3>1, StartTurns
    <3>2. CASE call'[t].pc = "destory"
      <4>1. PICK c \in Listed : Polite(t, "destory", c)
        BY <1>2, <3>2, StartTurns
      <4>2. QED
        BY <4>1 DEF Polite, Io
    <3>3. CASE call'[t].pc = "walk"
      <4>1. PICK op \in Op, c \in Listed : call'[t].op = op /\ Polite(t, op, c)
        BY <1>2, <3>3, StartTurns
      <4>2. QED
        BY <4>1 DEF Polite
    <3>4. QED
      BY <1>2, <3>1, <3>2, <3>3, StartTurns
  <2>3. QED
    BY <2>1, <2>2 DEF HoldInv
<1>3. ASSUME NEW t \in Thread, Runs(t)
      PROVE  HoldInv'
  <2>1. Turn(t) /\ PortStep(t)
    BY <1>3, RunTurns, RunAlters
  <2>2. ASSUME NEW u \in Thread, NEW c \in Listed', port'[c].mt = u
        PROVE  c \in Owned(u) \/ (u = t /\ call'[t] = Idle)
    <3>1. Stays(t, c) /\ u # None
      BY <2>1, SerialPortAssumption DEF PortStep
    <3>2. CASE c \notin Listed
      BY <2>1, <2>2, <3>1, <3>2, NewlyListed
    <3>3. CASE c \in Listed
      BY <2>2, <3>1, <3>3 DEF Stays, Alter, Owned
    <3>4. QED
      BY <3>2, <3>3
  <2>3. ASSUME NEW u \in Thread, NEW c \in Owned(u)'
        PROVE  call'[u].op \in {"none", "unlock"} \cup Io
    <3>1. c \in Listed' /\ port'[c].mt = u
      BY <2>3 DEF Owned
    <3>2. CASE u = t /\ call'[t] = Idle
      BY <3>2 DEF Idle
    <3>3. CASE c \in Owned(u)
      <4>1. call[u].op \in {"none", "unlock"} \cup Io
        BY <3>3 DEF HoldInv
      <4>2. call'[u].op \in {call[u].op, "none"}
        BY <2>1 DEF Turn, Idle
      <4>3. QED
        BY <4>1, <4>2
    <3>4. QED
      BY <2>2, <3>1, <3>2, <3>3
  <2>4. QED
    BY <2>3 DEF HoldInv
<1>4. QED
  BY <1>1, <1>2, <1>3 DEF Next

(* Whoever holds a port's mutex waits for nothing, and whoever holds       *)
(* g_mangers waits for a port's mutex at most: no chain closes.            *)
LEMMA HoldersGoOn ==
  ASSUME IInv, HoldInv
  PROVE  NoDeadlock
<1> SUFFICES ASSUME NEW S \in SUBSET Thread, S # {}, \A t \in S : Awaited(t) \in S
             PROVE  FALSE
  BY DEF NoDeadlock
<1>1. None \notin Thread
  BY SerialPortAssumption
<1>2. ASSUME NEW t \in S, call[t].pc \in {"share", "drop", "count_up", "count_down", "acquire"}
      PROVE  FALSE
  <2> DEFINE c == call[t].ctx
             u == port[c].mt
  <2>1. c \in Listed
    <3>1. CASE call[t].pc = "share"
      BY <3>1 DEF IInv, CallInv
    <3>2. CASE call[t].pc # "share"
      BY <1>2, <3>2, OnListed DEF Unlocked, Opening, Shutting
    <3>3. QED
      BY <3>1, <3>2
  <2>2. Awaited(t) = u
    BY <1>2 DEF Awaited
  <2>3. u \in S /\ c \in Owned(u)
    BY <2>1, <2>2 DEF Owned
  <2>4. call[u].op \in {"none", "unlock"} \cup Io /\ OpFits(call[u])
    BY <2>3, SMTT(30) DEF HoldInv, IInv, CallInv
  <2>5. Awaited(u) = None
    BY <2>4 DEF Io, Awaited, OpFits, Newing, Opening, Shutting, Burying
  <2>6. QED
    BY <1>1, <2>3, <2>5
<1>3. ASSUME NEW t \in S
      PROVE  FALSE
  <2>1. Awaited(t) \in S /\ Awaited(t) # None
    BY <1>1
  <2>2. call[t].pc \in {"new", "destory"} /\ Awaited(t) = g
    BY <1>2, <2>1 DEF Awaited
  <2>3. g \in S /\ call[g].pc \in Locked
    BY <2>1, <2>2 DEF IInv, CallInv
  <2>4. Awaited(g) # None
    BY <1>1, <2>3
  <2>5. call[g].pc \in {"share", "drop"}
    BY <2>3, <2>4 DEF Awaited, Locked
  <2>6. QED
    BY <1>2, <2>3, <2>5
<1>4. QED
  BY <1>3

(* No threads wait for each other, as long as whoever has locked a port    *)
(* (serial_lock) only reads, writes and unlocks until it lets go:          *)
(* serial_new and serial_destory wait for a port's mutex inside g_mangers. *)
THEOREM AlwaysNoDeadlock ==
  ASSUME "held_calls" \notin Env
  PROVE  Spec => []NoDeadlock
<1>1. Init => HoldInv
  BY DEF Init, HoldInv, Owned, Listed
<1>2. IInv /\ HoldInv /\ [Next]_vars => HoldInv'
  BY HoldKeeps
<1>3. IInv /\ HoldInv => NoDeadlock
  BY HoldersGoOn
<1>4. QED
  BY <1>1, <1>2, <1>3, AlwaysIInv, PTL DEF Spec

-----------------------------------------------------------------------------
(* The device.                                                             *)

(* The statements of serial_open and serial_close that change a port, and  *)
(* those of the last serial_close that do not.                             *)
Driving == {"opening", "count_up", "count_down", "closed"}
Ending == {"last", "restore", "closing"}

(* What thread t makes of the port it opens or closes: the driver opens it *)
(* or fails to, the opening or the closing is counted, and the last close  *)
(* goes on in the driver, which closes the descriptor and forgets it.      *)
Drives(t) ==
  LET p == port[call[t].ctx]
      q == port'[call[t].ctx]
      Still == q.s = p.s /\ q.is_open = p.is_open
  IN  /\ call[t].pc = "opening" =>
           /\ q.opencount = p.opencount
           /\ \/ q.s # NoFd /\ q.is_open /\ call'[t].pc = "count_up"
              \/ (q.s = NoFd \/ "close_fail" \in Env) /\ q.is_open = p.is_open /\ call'[t] = Idle
      /\ call[t].pc = "count_up" =>
           q.s = p.s /\ q.is_open /\ q.opencount = p.opencount + 1 /\ call'[t] = Idle
      /\ call[t].pc = "count_down" =>
           Still /\ q.opencount = p.opencount - 1 /\ call'[t].pc = "last"
      /\ call[t].pc = "closed" =>
           q.s = NoFd /\ ~q.is_open /\ q.opencount = p.opencount /\ call'[t] = Idle

Ends(t) ==
  LET p == port[call[t].ctx]
  IN  /\ call[t].pc \in Ending => port' = port
      /\ call[t].pc = "last" =>
           \/ p.opencount # 0 /\ call'[t] = Idle
           \/ p.opencount = 0 /\ call'[t].pc = "restore"
      /\ call[t].pc = "restore" =>
           \/ p.s \in fds /\ call'[t].pc = "closing"
           \/ (p.s \notin fds \/ "close_fail" \in Env) /\ call'[t] = Idle
      /\ call[t].pc = "closing" =>
           /\ fds' = fds \ {p.s}
           /\ call'[t].pc = "closed" \/ (p.s \notin fds /\ call'[t] = Idle)

(* How a thread comes to the statements that work on the device.           *)
Arrives(t) ==
  LET p == port[call[t].ctx]
  IN  /\ call'[t].pc = "opening" => call[t].pc = "driver" /\ ~p.is_open
      /\ call'[t].pc = "count_up" =>
           call[t].pc = "opening" \/ (call[t].pc \in {"count", "driver"} /\ (p.is_open \/ p.opencount > 0))
      /\ call'[t].pc = "last" =>
           call[t].pc = "count_down" \/ (call[t].pc = "check" /\ ~(p.opencount > 0))
      /\ call'[t].pc = "restore" => call[t].pc = "last" /\ p.opencount = 0
      /\ call'[t].pc = "closing" => call[t].pc = "restore" /\ p.s \in fds
      /\ call'[t].pc = "closed" => call[t].pc = "closing"
      /\ call'[t].pc \in {"wait", "transfer"} =>
           call[t].pc \in {"wait", "transfer"} \/ (call[t].pc = "io" /\ p.is_open)

(* The statements do so.                                                   *)
LEMMA RunDrives ==
  ASSUME IInv, NEW t \in Thread, Runs(t)
  PROVE  Drives(t)
<1> DEFINE c == call[t].ctx
           p == port[c]
<1>1. Types /\ CallInv(t)
  BY DEF IInv
<1> SUFFICES ASSUME call[t].pc \in Driving
             PROVE  Drives(t)
  BY DEF Drives, Driving
<1>2. c \in Listed /\ c \in Ctx /\ p \in Port(Int)
  BY <1>1, OnListed, ListedPort DEF Driving, Unlocked, Opening, Shutting
<1>3. /\ \A q : port' = [port EXCEPT ![c] = q] => port'[c] = q
      /\ Return(t) => call'[t] = Idle
      /\ \A pc \in Place : Goto(t, pc) => call'[t].pc = pc
  BY <1>1, <1>2, ReturnCall DEF Types, Goto
<1>4. CASE DriverOpens(t)
  <2>1. PICK f \in Fd : port' = [port EXCEPT ![c] = [p EXCEPT !.s = f, !.is_open = TRUE]]
    BY <1>4 DEF DriverOpens
  <2>2. f # NoFd
    BY SerialPortAssumption DEF NoFd
  <2>3. Goto(t, "count_up") /\ call[t].pc = "opening"
    BY <1>4 DEF DriverOpens, AtPc
  <2> DEFINE q == [p EXCEPT !.s = f, !.is_open = TRUE]
  <2>4. q.s = f /\ q.is_open /\ q.opencount = p.opencount
    BY <1>2 DEF Port
  <2>5. port'[c] = q
    BY <1>3, <2>1
  <2> HIDE DEF q
  <2>6. QED
    BY <1>3, <2>2, <2>3, <2>4, <2>5 DEF Drives, Place
<1>5. CASE DriverOpenFails(t)
  <2>1. PICK failed \in {<<[p EXCEPT !.s = NoFd], fds>>} \cup WinKeeps(c) :
          port' = [port EXCEPT ![c] = failed[1]]
    BY <1>5 DEF DriverOpenFails
  <2>2. \E f \in Fd \cup {NoFd} : /\ failed[1] = [p EXCEPT !.s = f]
                                  /\ f = NoFd \/ "close_fail" \in Env
    BY <2>1 DEF WinKeeps
  <2>3. Return(t) /\ call[t].pc = "opening"
    BY <1>5 DEF DriverOpenFails, AtPc
  <2>4. /\ port'[c].s = NoFd \/ "close_fail" \in Env
        /\ port'[c].is_open = p.is_open /\ port'[c].opencount = p.opencount
    BY <1>2, <1>3, <2>1, <2>2 DEF Port
  <2>5. QED
    BY <1>3, <2>3, <2>4 DEF Drives
<1>6. CASE OpenCounts(t)
  <2> DEFINE n == p.opencount + 1
  <2>1. port' = [port EXCEPT ![c] = [p EXCEPT !.opencount = n, !.is_open = TRUE]]
    BY <1>6 DEF OpenCounts
  <2>2. Return(t) /\ call[t].pc = "count_up"
    BY <1>6 DEF OpenCounts, AtPc
  <2> HIDE DEF n
  <2>3. port'[c].s = p.s /\ port'[c].is_open /\ port'[c].opencount = n
    BY <1>2, <1>3, <2>1, ZenonT(60) DEF Port
  <2>4. QED
    BY <1>3, <2>2, <2>3 DEF Drives, n
<1>7. CASE CloseCounts(t)
  <2> DEFINE n == p.opencount - 1
  <2>1. port' = [port EXCEPT ![c] = [p EXCEPT !.opencount = n]]
    BY <1>7 DEF CloseCounts
  <2>2. Goto(t, "last") /\ call[t].pc = "count_down"
    BY <1>7 DEF CloseCounts, AtPc
  <2> HIDE DEF n
  <2>3. port'[c].s = p.s /\ port'[c].is_open = p.is_open /\ port'[c].opencount = n
    BY <1>2, <1>3, <2>1, ZenonT(60) DEF Port
  <2>4. QED
    BY <1>3, <2>2, <2>3 DEF Drives, n, Place
<1>8. CASE DriverForgets(t)
  <2> DEFINE q == [p EXCEPT !.s = NoFd, !.is_open = FALSE]
  <2>1. port' = [port EXCEPT ![c] = q] /\ Return(t) /\ call[t].pc = "closed"
    BY <1>8 DEF DriverForgets, AtPc
  <2>2. q.s = NoFd /\ ~q.is_open /\ q.opencount = p.opencount
    BY <1>2 DEF Port
  <2>3. port'[c] = q
    BY <1>3, <2>1
  <2> HIDE DEF q
  <2>4. QED
    BY <1>3, <2>1, <2>2, <2>3 DEF Drives
<1>9. CASE ~(DriverOpens(t) \/ DriverOpenFails(t) \/ OpenCounts(t) \/ CloseCounts(t) \/ DriverForgets(t))
  BY <1>9 DEF Driving, AtPc, Runs, NewLocks, NewRefuses, NewFinds, NewShares, NewCreates, NewRejects,
         Walk, OpenTests, DriverTests, CloseTests, CloseEnds, DriverRestores, DriverCloses,
         LockAcquires, UnlockReleases, IoTests, IoWaits, IoTransfers, CleanFlushes,
         DestoryLocks, DestoryCounts, DestoryEnds
<1>10. QED
  BY <1>4, <1>5, <1>6, <1>7, <1>8, <1>9

(* So do those of the last close.                                          *)
LEMMA RunEnds ==
  ASSUME IInv, NEW t \in Thread, Runs(t)
  PROVE  Ends(t)
<1>1. Types
  BY DEF IInv
<1> SUFFICES ASSUME call[t].pc \in Ending
             PROVE  Ends(t)
  BY DEF Ends, Ending
<1>2. /\ Return(t) => call'[t] = Idle
      /\ \A pc \in Place : Goto(t, pc) => call'[t].pc = pc
  BY <1>1, ReturnCall, SMTT(30) DEF Types, Goto
<1>3. CloseEnds(t) \/ DriverRestores(t) \/ DriverCloses(t)
  BY DEF Ending, AtPc, Runs, NewLocks, NewRefuses, NewFinds, NewShares, NewCreates, NewRejects,
         Walk, OpenTests, DriverTests, DriverOpens, DriverOpenFails, OpenCounts, CloseTests,
         CloseCounts, DriverForgets, LockAcquires, UnlockReleases, IoTests, IoWaits, IoTransfers,
         CleanFlushes, DestoryLocks, DestoryCounts, DestoryEnds
<1>4. CASE CloseEnds(t)
  BY <1>2, <1>4 DEF CloseEnds, Ends, AtPc, Place
<1>5. CASE DriverRestores(t)
  BY <1>2, <1>5 DEF DriverRestores, Ends, AtPc, Place
<1>6. CASE DriverCloses(t)
  BY <1>2, <1>6 DEF DriverCloses, Ends, AtPc, Place
<1>7. QED
  BY <1>3, <1>4, <1>5, <1>6

(* A thread comes there on what it has just seen of the port.              *)
LEMMA RunArrives ==
  ASSUME IInv, NEW t \in Thread, Runs(t)
  PROVE  Arrives(t)
<1>1. Types /\ OpFits(call[t])
  BY DEF IInv, CallInv
<1>2. /\ Return(t) => call'[t].pc = "idle"
      /\ \A pc \in Place : Goto(t, pc) => call'[t].pc = pc
  BY <1>1, ReturnCall DEF Types, Goto, Idle
<1> USE DEF Arrives, AtPc, Place
<1>3. CASE OpenTests(t) \/ DriverTests(t)
  BY <1>2, <1>3 DEF OpenTests, DriverTests
<1>4. CASE \/ CloseTests(t) \/ CloseCounts(t) \/ CloseEnds(t) \/ DriverRestores(t)
           \/ DriverCloses(t)
  BY <1>2, <1>4 DEF CloseTests, CloseCounts, CloseEnds, DriverRestores, DriverCloses
<1>5. CASE IoTests(t) \/ IoWaits(t) \/ IoTransfers(t)
  BY <1>2, <1>5 DEF IoTests, IoWaits, IoTransfers
<1>6. CASE DriverOpens(t)
  BY <1>2, <1>6 DEF DriverOpens
<1>7. CASE Walk(t)
  <2>1. Found[call[t].op] \in {"count", "check", "acquire", "release", "io", "flush"}
    BY <1>1, <1>7 DEF Walk, OpFits, Found, Op
  <2>2. call'[t].pc \in {"walk", "idle", Found[call[t].op]}
    BY <1>1, <1>2, <1>7, <2>1 DEF Walk, Types
  <2>3. QED
    BY <2>1, <2>2
<1>8. CASE NewFinds(t)
  <2>1. call'[t].pc \in {"create", "share"}
    BY <1>1, <1>2, <1>8 DEF NewFinds, Types
  <2>2. QED
    BY <2>1
<1>9. CASE NewLocks(t) \/ DestoryLocks(t) \/ DestoryCounts(t)
  BY <1>2, <1>9, SMTT(30) DEF NewLocks, DestoryLocks, DestoryCounts
<1>10. CASE \/ NewRefuses(t) \/ NewShares(t) \/ NewCreates(t) \/ NewRejects(t)
            \/ DriverOpenFails(t) \/ OpenCounts(t) \/ DriverForgets(t)
            \/ LockAcquires(t) \/ UnlockReleases(t) \/ CleanFlushes(t) \/ DestoryEnds(t)
  BY <1>2, <1>10 DEF NewRefuses, NewShares, NewCreates, NewRejects, DriverOpenFails, OpenCounts,
                DriverForgets, LockAcquires, UnlockReleases, CleanFlushes, DestoryEnds
<1>11. QED
  BY <1>3, <1>4, <1>5, <1>6, <1>7, <1>8, <1>9, <1>10 DEF Runs

(* The device of c is as it was. *)
Same(c) == /\ port'[c].s = port[c].s /\ port'[c].is_open = port[c].is_open
           /\ port'[c].opencount = port[c].opencount

(* No other statement of any call touches the device.                      *)
LEMMA SameUnlessDriven ==
  ASSUME IInv, NEW t \in Thread, Runs(t), NEW c \in Listed \cap Listed',
         ~(c = call[t].ctx /\ call[t].pc \in Driving)
  PROVE  Same(c)
<1>1. Alter(t, c, port'[c])
  BY RunAlters DEF PortStep, Stays
<1>2. QED
  BY <1>1 DEF Alter, Same, Driving

(* While a thread opens or closes a port, nobody else works on its device. *)
LEMMA SameForOthers ==
  ASSUME IInv, OpenInv, NEW t \in Thread, Runs(t), NEW u \in Thread \ {t},
         call[u].op \in {"open", "close"}
  PROVE  call[u].ctx \in Listed \cap Listed' /\ Same(call[u].ctx)
<1>1. call[u].ctx \in Listed \cap Listed'
  <2>1. call[u].pc \notin Newing \cup {"idle"}
    BY DEF IInv, CallInv, OpFits
  <2>2. QED
    BY <2>1, StaysListed
<1>2. call[t].pc \in Driving => call[t].op \in {"open", "close"}
  BY DEF IInv, CallInv, OpFits, Driving, Opening, Shutting
<1>3. call[t].pc \in Driving => call[u].ctx # call[t].ctx
  BY <1>2 DEF OpenInv
<1>4. QED
  BY <1>1, <1>3, SameUnlessDriven

(* What the driver knows of a port, whether or not its close fails: a port *)
(* that is counted as open is open for the driver, and then it has a       *)
(* descriptor; whoever opens it has found it closed, and the close that    *)
(* goes on to the driver is the last.                                      *)
StateInv ==
  /\ \A c \in Listed : /\ port[c].opencount > 0 => port[c].is_open
                       /\ port[c].is_open => port[c].s # NoFd
  /\ \A t \in Thread :
       /\ call[t].pc = "opening" => ~port[call[t].ctx].is_open
       /\ call[t].pc = "count_up" => port[call[t].ctx].is_open
       /\ call[t].pc \in {"restore", "closing", "closed"} => port[call[t].ctx].opencount = 0

(* Every step keeps this, while no two threads open or close one port.     *)
LEMMA StateStep ==
  ASSUME IInv, OpenInv, StateInv, OpenInv', [Next]_vars
  PROVE  StateInv'
<1> DEFINE Held == {"opening", "count_up", "restore", "closing", "closed"}
<1>1. CASE UNCHANGED vars
  BY <1>1 DEF vars, StateInv, Listed
<1>2. ASSUME NEW t \in Thread, Starts(t)
      PROVE  StateInv'
  <2>1. port' = port /\ Listed' = Listed /\ \A u \in Thread \ {t} : call'[u] = call[u]
    BY <1>2, StartTurns DEF Listed
  <2>2. call'[t].pc \notin Held
    BY <1>2, StartTurns
  <2>3. QED
    BY <2>1, <2>2 DEF StateInv
<1>3. ASSUME NEW t \in Thread, Runs(t)
      PROVE  StateInv'
  <2> DEFINE d == call[t].ctx
  <2>1. Turn(t) /\ PortStep(t) /\ Drives(t) /\ Ends(t) /\ Arrives(t)
    BY <1>3, RunTurns, RunAlters, RunDrives, RunEnds, RunArrives
  <2>2. call[t].pc \in Driving \cup Ending \cup {"count", "driver"} =>
          d \in Listed /\ d \in Listed' /\ call[t].op \in {"open", "close"}
    <3>1. call[t].pc \in Driving \cup Ending \cup {"count", "driver"} =>
            d \in Listed /\ call[t].op \in {"open", "close"} /\ call[t].pc # "bury"
      BY OnListed DEF IInv, CallInv, OpFits, Driving, Ending, Unlocked, Opening, Shutting
    <3>2. QED
      BY <2>1, <3>1 DEF PortStep
  <2>3. ASSUME NEW c \in Listed'
        PROVE  /\ port'[c].opencount > 0 => port'[c].is_open
               /\ port'[c].is_open => port'[c].s # NoFd
    <3>1. CASE c \notin Listed
      BY <2>1, <3>1, NewlyListed
    <3>2. CASE c \in Listed /\ ~(c = d /\ call[t].pc \in Driving)
      <4>1. Same(c)
        BY <1>3, <3>2, SameUnlessDriven
      <4>2. QED
        BY <3>2, <4>1 DEF StateInv, Same
    <3>3. CASE c \in Listed /\ c = d /\ call[t].pc \in Driving
      <4>1. port[c].opencount \in Nat /\ port'[c].opencount \in Nat
        BY <3>3 DEF OpenInv
      <4>2. CASE call[t].pc = "opening"
        BY <2>1, <3>3, <4>1, <4>2 DEF Drives, StateInv
      <4>3. CASE call[t].pc = "count_up"
        BY <2>1, <3>3, <4>1, <4>3 DEF Drives, StateInv
      <4>4. CASE call[t].pc = "count_down"
        BY <2>1, <3>3, <4>1, <4>4 DEF Drives, StateInv
      <4>5. CASE call[t].pc = "closed"
        BY <2>1, <3>3, <4>1, <4>5 DEF Drives, StateInv
      <4>6. QED
        BY <3>3, <4>2, <4>3, <4>4, <4>5 DEF Driving
    <3>4. QED
      BY <3>1, <3>2, <3>3
  <2>4. ASSUME NEW u \in Thread, call'[u].pc \in Held
        PROVE  /\ call'[u].pc = "opening" => ~port'[call'[u].ctx].is_open
               /\ call'[u].pc = "count_up" => port'[call'[u].ctx].is_open
               /\ call'[u].pc \in {"restore", "closing", "closed"} => port'[call'[u].ctx].opencount = 0
    <3>1. CASE u # t
      <4>1. call'[u] = call[u] /\ call[u].pc \in Held
        BY <2>1, <2>4, <3>1 DEF Turn
      <4>2. call[u].op \in {"open", "close"}
        BY <4>1 DEF IInv, CallInv, OpFits, Opening, Shutting
      <4>3. Same(call[u].ctx)
        BY <1>3, <3>1, <4>2, SameForOthers
      <4>4. QED
        BY <4>1, <4>3 DEF Same, StateInv
    <3>2. CASE u = t
      <4>1. call[t].pc \in {"opening", "count", "driver", "last", "restore", "closing"}
        BY <2>1, <2>4, <3>2 DEF Arrives
      <4>2. call'[t].ctx = d /\ d \in Listed /\ d \in Listed'
        BY <2>1, <2>2, <2>4, <3>2, <4>1 DEF Turn, Idle, Driving, Ending
      <4>3. CASE call[t].pc = "opening"
        BY <2>1, <2>4, <3>2, <4>2, <4>3 DEF Drives, Arrives, Idle
      <4>4. CASE call[t].pc \in {"count", "driver"}
        <5>1. Same(d)
          BY <1>3, <4>2, <4>4, SameUnlessDriven DEF Driving
        <5>2. QED
          BY <2>1, <2>4, <3>2, <4>2, <4>4, <5>1 DEF Same, Arrives, StateInv
      <4>5. CASE call[t].pc \in {"last", "restore", "closing"}
        <5>1. port' = port
          BY <2>1, <4>5 DEF Ends, Ending
        <5>2. QED
          BY <2>1, <2>4, <3>2, <4>2, <4>5, <5>1 DEF Arrives, StateInv
      <4>6. QED
        BY <4>1, <4>3, <4>4, <4>5
    <3>3. QED
      BY <3>1, <3>2
  <2>5. QED
    BY <2>3, <2>4 DEF StateInv
<1>4. QED
  BY <1>1, <1>2, <1>3 DEF Next

-----------------------------------------------------------------------------
(* The descriptors.                                                        *)

(* A step keeps the descriptors with their ports, or opens one for the     *)
(* port of the caller, or closes the one it has.                           *)
FdsKept ==
  /\ fds' = fds /\ Listed \subseteq Listed'
  /\ \A c \in Listed' : FdOf(c)' = IF c \in Listed THEN FdOf(c) ELSE NoFd

FdOpened(d) ==
  /\ d \in Listed /\ Listed' = Listed
  /\ \A c \in Listed \ {d} : FdOf(c)' = FdOf(c)
  /\ \/ fds' = fds /\ FdOf(d)' = NoFd
     \/ \E f \in Fd \ fds : fds' = fds \cup {f} /\ FdOf(d)' = f

FdClosed(d) ==
  /\ d \in Listed /\ Listed' \subseteq Listed /\ Listed \ {d} \subseteq Listed'
  /\ \A c \in Listed \ {d} : FdOf(c)' = FdOf(c)
  /\ d \in Listed' => FdOf(d)' = NoFd
  /\ fds' = fds \ {FdOf(d)} \/ ("close_fail" \in Env /\ fds' = fds)

(* A port holds an open descriptor or none, and no two ports the same.     *)
OwnInv ==
  /\ \A c \in Listed : FdOf(c) \in fds \cup {NoFd}
  /\ \A c, d \in Listed : FdOf(c) = FdOf(d) /\ FdOf(c) # NoFd => c = d

(* A close forgets the descriptor of no port but its own.                  *)
LEMMA ForgettingStep ==
  ASSUME IInv, NEW t \in Thread, Runs(t), NEW c,
         ~(c = call[t].ctx /\ call[t].pc \in {"closing", "closed"})
  PROVE  Forgetting(c)' <=> Forgetting(c)
<1>1. Turn(t) /\ Arrives(t) /\ OpFits(call[t])
  BY RunTurns, RunArrives DEF IInv, CallInv
<1>2. ASSUME Forgetting(c)
      PROVE  Forgetting(c)'
  <2>1. PICK u \in Thread : call[u].ctx = c /\ call[u].pc = "closed"
    BY <1>2 DEF Forgetting
  <2>2. call'[u] = call[u]
    BY <1>1, <2>1 DEF Turn
  <2>3. QED
    BY <2>1, <2>2 DEF Forgetting
<1>3. ASSUME Forgetting(c)'
      PROVE  Forgetting(c)
  <2>1. PICK u \in Thread : call'[u].ctx = c /\ call'[u].pc = "closed"
    BY <1>3 DEF Forgetting
  <2>2. CASE u = t
    BY <1>1, <2>1, <2>2 DEF Turn, Arrives, Idle, OpFits, Shutting
  <2>3. CASE u # t
    BY <1>1, <2>1, <2>3 DEF Turn, Forgetting
  <2>4. QED
    BY <2>2, <2>3
<1>4. QED
  BY <1>2, <1>3

(* Nobody forgets the descriptor of a port that another opens or closes.   *)
LEMMA OnlyCloser ==
  ASSUME IInv, OpenInv, NEW t \in Thread, call[t].op \in {"open", "close"}, call[t].pc # "closed"
  PROVE  ~Forgetting(call[t].ctx)
<1>1. \A u \in Thread : call[u].pc = "closed" => call[u].op = "close"
  BY DEF IInv, CallInv, OpFits, Shutting
<1>2. QED
  BY <1>1 DEF Forgetting, OpenInv

(* A call that starts touches no descriptor.                               *)
LEMMA StartFds ==
  ASSUME IInv, NEW t \in Thread, Starts(t)
  PROVE  fds' = fds /\ Listed' = Listed /\ \A c : FdOf(c)' = FdOf(c)
<1>1. port' = port /\ \A u \in Thread \ {t} : call'[u] = call[u]
  BY StartTurns
<1>2. call[t].pc = "idle" /\ call'[t].pc # "closed" /\ fds' = fds
  BY StartTurns DEF Starts, NewStarts, CallStarts, DestoryStarts, AtPc
<1>3. \A c : Forgetting(c)' <=> Forgetting(c)
  BY <1>1, <1>2 DEF Forgetting
<1>4. QED
  BY <1>1, <1>2, <1>3 DEF Listed, FdOf

(* Every statement of every call is one of these, but for serial_new when  *)
(* it closes a descriptor that was never set.                              *)
LEMMA RunFds ==
  ASSUME IInv, OpenInv, OwnInv, NEW t \in Thread, Runs(t), "stray_fd" \notin Env
  PROVE  \E d : /\ d = call[t].ctx
                /\ \/ FdsKept
                   \/ call[t].pc = "opening" /\ FdOpened(d)
                   \/ FdClosed(d)
<1> PICK d : d = call[t].ctx
  OBVIOUS
<1> SUFFICES FdsKept \/ (call[t].pc = "opening" /\ FdOpened(d)) \/ FdClosed(d)
  OBVIOUS
<1> DEFINE p == port[d]
<1>1. /\ Types /\ CallInv(t) /\ OpFits(call[t]) /\ PortStep(t) /\ Turn(t) /\ Drives(t) /\ Ends(t)
      /\ NoFd \notin Fd
  <2>1. Types /\ CallInv(t) /\ OpFits(call[t])
    BY DEF IInv, CallInv
  <2>2. PortStep(t) /\ Turn(t)
    BY RunAlters, RunTurns
  <2>3. Drives(t) /\ Ends(t)
    BY RunDrives, RunEnds
  <2>4. QED
    BY <2>1, <2>2, <2>3, SerialPortAssumption DEF NoFd
<1>2. CASE call[t].pc \notin {"opening", "closing", "closed", "bury"}
  <2>1. fds' = fds
    <3>1. fds \ {NoFd} = fds
      BY <1>1 DEF Types
    <3>2. NewRejects(t) => fds' = fds
      BY <3>1 DEF NewRejects
    <3>3. QED
      BY <1>2, <3>2 DEF Runs, AtPc, NewLocks, NewRefuses, NewFinds, NewShares, NewCreates,
       Walk, OpenTests, DriverTests, DriverOpens, DriverOpenFails, OpenCounts, CloseTests,
       CloseCounts, CloseEnds, DriverRestores, DriverCloses, DriverForgets, LockAcquires,
       UnlockReleases, IoTests, IoWaits, IoTransfers, CleanFlushes,
       DestoryLocks, DestoryCounts, DestoryEnds
  <2>2. \A c \in Listed' : port'[c].s = IF c \in Listed THEN port[c].s ELSE NoFd
    BY <1>1, <1>2, NewlyListed DEF PortStep, Stays, Alter, Drives
  <2>3. Listed \subseteq Listed'
    BY <1>1, <1>2 DEF PortStep
  <2>4. \A c \in Listed : Forgetting(c)' <=> Forgetting(c)
    BY <1>2, ForgettingStep
  <2>5. QED
    BY <2>1, <2>2, <2>3, <2>4, SMTT(30) DEF FdsKept, FdOf
<1>3. CASE call[t].pc = "opening"
  <2>1. d \in Listed /\ d \in Ctx /\ p \in Port(Int)
    BY <1>1, <1>3, OnListed, ListedPort DEF Unlocked, Opening
  <2>2. \A c \in Listed' \ {d} : c \in Listed => port'[c].s = port[c].s
    BY <1>1 DEF PortStep, Stays, Alter
  <2>3. DriverOpens(t) \/ DriverOpenFails(t)
    BY <1>3 DEF Runs, AtPc, NewLocks, NewRefuses, NewFinds, NewShares, NewCreates, NewRejects,
       Walk, OpenTests, DriverTests, OpenCounts, CloseTests,
       CloseCounts, CloseEnds, DriverRestores, DriverCloses, DriverForgets, LockAcquires,
       UnlockReleases, IoTests, IoWaits, IoTransfers, CleanFlushes,
       DestoryLocks, DestoryCounts, DestoryEnds
  <2>4. ASSUME NEW q \in Port(Int), port' = [port EXCEPT ![d] = q]
        PROVE  port'[d] = q /\ Listed' = Listed
    <3>1. q # Freed
      BY <1>1, ListedPort
    <3>2. QED
      BY <1>1, <2>1, <2>4, <3>1 DEF Types, Listed
  <2>5. ASSUME NEW f \in Fd \cup {NoFd}, NEW b \in BOOLEAN
        PROVE  /\ [p EXCEPT !.s = f, !.is_open = b] \in Port(Int)
               /\ [p EXCEPT !.s = f] \in Port(Int)
               /\ [p EXCEPT !.s = f, !.is_open = b].s = f /\ [p EXCEPT !.s = f].s = f
    BY <2>1 DEF Port
  <2>6. \A c \in Listed : Forgetting(c)' <=> Forgetting(c)
    BY <1>3, ForgettingStep
  <2>7. ~Forgetting(d)'
    BY <1>1, <1>3, <2>1, <2>6, OnlyCloser DEF OpFits, Opening
  <2>8. CASE DriverOpens(t)
    <3>1. PICK f \in Fd \ fds : /\ port' = [port EXCEPT ![d].s = f, ![d].is_open = TRUE]
                                /\ fds' = fds \cup {f}
      BY <2>8 DEF DriverOpens
    <3> DEFINE q == [p EXCEPT !.s = f, !.is_open = TRUE]
    <3>2. q \in Port(Int) /\ q.s = f
      BY <2>5
    <3> HIDE DEF q
    <3>3. port'[d] = q /\ Listed' = Listed
      BY <2>4, <3>1, <3>2 DEF q
    <3>4. FdOf(d)' = f /\ \A c \in Listed \ {d} : FdOf(c)' = FdOf(c)
      BY <2>2, <2>6, <2>7, <3>2, <3>3 DEF FdOf
    <3>5. QED
      BY <1>3, <2>1, <3>1, <3>3, <3>4 DEF FdOpened
  <2>9. CASE DriverOpenFails(t)
    <3>1. PICK failed \in {<<[p EXCEPT !.s = NoFd], fds>>} \cup WinKeeps(d) :
            port' = [port EXCEPT ![d] = failed[1]] /\ fds' = failed[2]
      BY <2>9 DEF DriverOpenFails
    <3>2. PICK f \in Fd \cup {NoFd} : /\ failed[1] = [p EXCEPT !.s = f]
                                     /\ \/ f = NoFd /\ failed[2] = fds
                                        \/ f \in Fd \ fds /\ failed[2] = fds \cup {f}
      BY <3>1 DEF WinKeeps
    <3> DEFINE q == [p EXCEPT !.s = f]
    <3>3. q \in Port(Int) /\ q.s = f
      BY <2>5
    <3> HIDE DEF q
    <3>4. port'[d] = q /\ Listed' = Listed
      BY <2>4, <3>1, <3>2, <3>3 DEF q
    <3>5. FdOf(d)' = f /\ \A c \in Listed \ {d} : FdOf(c)' = FdOf(c)
      BY <2>2, <2>6, <2>7, <3>3, <3>4 DEF FdOf
    <3>6. QED
      BY <1>3, <2>1, <3>1, <3>2, <3>4, <3>5 DEF FdOpened
  <2>10. QED
    BY <2>3, <2>8, <2>9
<1>4. CASE call[t].pc = "closing"
  <2>1. d \in Listed /\ port' = port /\ Listed' = Listed /\ fds' = fds \ {p.s}
    BY <1>1, <1>4, OnListed DEF Ends, Ending, Listed, Unlocked, Shutting
  <2>2. call[t].op = "close" /\ ~Forgetting(d) /\ FdOf(d) = p.s
    BY <1>1, <1>4, OnlyCloser DEF OpFits, Shutting, FdOf
  <2>3. \A c \in Listed \ {d} : FdOf(c)' = FdOf(c)
    BY <1>4, <2>1, ForgettingStep DEF FdOf
  <2>4. FdOf(d)' = NoFd
    <3>1. CASE call'[t].pc = "closed"
      <4>1. call'[t].ctx = d
        BY <1>1, <2>2, <3>1 DEF Turn, Idle
      <4>2. QED
        BY <3>1, <4>1 DEF FdOf, Forgetting
    <3>2. CASE p.s \notin fds
      BY <2>1, <2>2, <3>2 DEF OwnInv, FdOf
    <3>3. QED
      BY <1>1, <1>4, <3>1, <3>2 DEF Ends
  <2>5. QED
    BY <2>1, <2>2, <2>3, <2>4 DEF FdClosed
<1>5. CASE call[t].pc = "closed"
  <2>1. DriverForgets(t)
    BY <1>5 DEF Runs, AtPc, NewLocks, NewRefuses, NewFinds, NewShares, NewCreates, NewRejects,
       Walk, OpenTests, DriverTests, DriverOpens, DriverOpenFails, OpenCounts, CloseTests,
       CloseCounts, CloseEnds, DriverRestores, DriverCloses, LockAcquires,
       UnlockReleases, IoTests, IoWaits, IoTransfers, CleanFlushes,
       DestoryLocks, DestoryCounts, DestoryEnds
  <2>2. fds' = fds /\ d \in Listed /\ port'[d].s = NoFd
    BY <1>1, <1>5, <2>1, OnListed DEF DriverForgets, Drives, Unlocked, Shutting
  <2>3. Listed' = Listed
    <3>1. Listed \subseteq Listed'
      BY <1>1, <1>5 DEF PortStep
    <3>2. QED
      BY <1>5, <3>1, OnlyCreated DEF NewCreates, AtPc
  <2>4. \A c \in Listed \ {d} : port'[c].s = port[c].s
    BY <1>1, <2>3 DEF PortStep, Stays, Alter
  <2>5. \A c \in Listed \ {d} : FdOf(c)' = FdOf(c)
    BY <2>4, ForgettingStep DEF FdOf
  <2>6. FdOf(d) = NoFd /\ FdOf(d)' = NoFd
    BY <1>5, <2>2 DEF FdOf, Forgetting
  <2>7. QED
    BY <2>2, <2>3, <2>5, <2>6 DEF FdsKept
<1>6. CASE call[t].pc = "bury"
  <2>1. d \in Listed /\ d \in Ctx
    BY <1>1, <1>6, ListedPort DEF CallInv
  <2>2. DestoryEnds(t)
    BY <1>6 DEF Runs, AtPc, NewLocks, NewRefuses, NewFinds, NewShares, NewCreates, NewRejects,
       Walk, OpenTests, DriverTests, DriverOpens, DriverOpenFails, OpenCounts, CloseTests,
       CloseCounts, CloseEnds, DriverRestores, DriverCloses, DriverForgets, LockAcquires,
       UnlockReleases, IoTests, IoWaits, IoTransfers, CleanFlushes,
       DestoryLocks, DestoryCounts
  <2>3. \A c \in Listed : Forgetting(c)' <=> Forgetting(c)
    BY <1>6, ForgettingStep
  <2>4. CASE UNCHANGED <<port, fds>>
    <3>1. Listed' = Listed
      BY <2>4 DEF Listed
    <3>2. QED
      BY <2>3, <2>4, <3>1 DEF FdsKept, FdOf
  <2>5. CASE fds' \in LeftOpen(d) /\ port' = [port EXCEPT ![d] = Freed]
    <3>1. \A c \in Ctx : port'[c] = IF c = d THEN Freed ELSE port[c]
      BY <1>1, <2>5 DEF Types
    <3>2. Listed' = Listed \ {d}
      BY <2>1, <3>1 DEF Listed
    <3>3. \A c \in Listed \ {d} : FdOf(c)' = FdOf(c)
      BY <2>3, <3>1 DEF Listed, FdOf
    <3>4. FdOf(d) = p.s
      <4> SUFFICES ASSUME NEW u \in Thread, call[u].ctx = d, call[u].pc = "closed"
                   PROVE  FALSE
        BY DEF FdOf, Forgetting
      <4>1. u # t
        BY <1>6
      <4>2. d \in Listed'
        BY <4>1, StaysListed DEF Newing
      <4>3. QED
        BY <3>2, <4>2
    <3>5. fds' = fds \ {FdOf(d)} \/ ("close_fail" \in Env /\ fds' = fds)
      BY <2>5, <3>4 DEF LeftOpen
    <3>6. QED
      BY <2>1, <3>2, <3>3, <3>5 DEF FdClosed
  <2>6. QED
    BY <2>2, <2>4, <2>5 DEF DestoryEnds
<1>7. QED
  BY <1>2, <1>3, <1>4, <1>5, <1>6

(* Every step keeps the descriptors apart, even if the driver's close      *)
(* fails.                                                                  *)
LEMMA OwnStep ==
  ASSUME IInv, OpenInv, OwnInv, [Next]_vars, "stray_fd" \notin Env
  PROVE  OwnInv'
<1>1. CASE UNCHANGED vars
  BY <1>1 DEF vars, OwnInv, Listed, FdOf, Forgetting
<1>2. ASSUME NEW t \in Thread, Starts(t)
      PROVE  OwnInv'
  BY <1>2, StartFds DEF OwnInv
<1>3. ASSUME NEW t \in Thread, Runs(t)
      PROVE  OwnInv'
  <2> PICK d : /\ d = call[t].ctx
               /\ FdsKept \/ (call[t].pc = "opening" /\ FdOpened(d)) \/ FdClosed(d)
    BY <1>3, RunFds
  <2>1. CASE FdsKept
    BY <2>1 DEF FdsKept, OwnInv
  <2>2. CASE FdOpened(d)
    BY <2>2 DEF FdOpened, OwnInv
  <2>3. CASE FdClosed(d)
    BY <2>3 DEF FdClosed, OwnInv
  <2>4. QED
    BY <2>1, <2>2, <2>3
<1>4. QED
  BY <1>1, <1>2, <1>3 DEF Next

-----------------------------------------------------------------------------
(* The ports and the device.                                               *)

(* A port has a descriptor only while it is open, and counted so, but for  *)
(* a thread that has still to count it up, or has counted it down and has  *)
(* not yet closed the device.                                              *)
Working == {"count_up", "last", "restore", "closing", "closed"}
DeviceInv ==
  \A c \in Listed : port[c].s # NoFd =>
    /\ port[c].is_open
    /\ \/ port[c].opencount > 0
       \/ \E t \in Thread : call[t].ctx = c /\ call[t].pc \in Working

(* Every step keeps this, as long as tcsetattr() succeeds in every close.  *)
LEMMA DeviceStep ==
  ASSUME IInv, OpenInv, StateInv, OwnInv, DeviceInv, OpenInv', [Next]_vars, "close_fail" \notin Env
  PROVE  DeviceInv'
<1>1. CASE UNCHANGED vars
  BY <1>1 DEF vars, DeviceInv, Listed
<1>2. ASSUME NEW t \in Thread, Starts(t)
      PROVE  DeviceInv'
  <2>1. port' = port /\ Listed' = Listed /\ \A u \in Thread \ {t} : call'[u] = call[u]
    BY <1>2, StartTurns DEF Listed
  <2>2. call[t].pc = "idle"
    BY <1>2 DEF Starts, NewStarts, CallStarts, DestoryStarts, AtPc
  <2>3. QED
    BY <2>1, <2>2 DEF DeviceInv, Working
<1>3. ASSUME NEW t \in Thread, Runs(t), NEW c \in Listed', port'[c].s # NoFd
      PROVE  /\ port'[c].is_open
             /\ \/ port'[c].opencount > 0
                \/ \E u \in Thread : call'[u].ctx = c /\ call'[u].pc \in Working
  <2> DEFINE d == call[t].ctx
  <2>1. Turn(t) /\ PortStep(t) /\ Drives(t) /\ Ends(t)
    BY <1>3, RunTurns, RunAlters, RunDrives, RunEnds
  <2>2. call[t].pc \in Driving \cup Ending => call[t].op \in {"open", "close"}
    BY DEF IInv, CallInv, OpFits, Driving, Ending, Opening, Shutting
  <2>3. CASE c \notin Listed
    BY <1>3, <2>1, <2>3, NewlyListed
  <2>4. CASE c \in Listed /\ ~(c = d /\ call[t].pc \in Driving \cup Ending)
    <3>1. Same(c)
      BY <1>3, <2>4, SameUnlessDriven
    <3>2. \A u \in Thread : call[u].ctx = c /\ call[u].pc \in Working => call'[u] = call[u]
      BY <2>1, <2>4 DEF Turn, Driving, Ending, Working
    <3>3. QED
      BY <1>3, <2>4, <3>1, <3>2 DEF DeviceInv, Same
  <2>5. ASSUME c \in Listed, c = d, call[t].pc \in Driving \cup Ending
        PROVE  /\ port'[c].is_open
               /\ port'[c].opencount > 0 \/ call'[t].pc \in Working
    <3>1. port[c].opencount \in Nat /\ port'[c].opencount \in Nat
      BY <1>3, <2>5 DEF OpenInv
    <3>2. CASE call[t].pc = "opening"
      BY <1>3, <2>1, <2>5, <3>2 DEF Drives, Working
    <3>3. CASE call[t].pc = "count_up"
      BY <1>3, <2>1, <2>5, <3>1, <3>3 DEF Drives
    <3>4. CASE call[t].pc = "count_down"
      BY <1>3, <2>1, <2>5, <3>4 DEF Drives, DeviceInv, Working
    <3>5. CASE call[t].pc = "closed"
      BY <1>3, <2>1, <2>5, <3>5 DEF Drives
    <3>6. CASE call[t].pc \in Ending
      <4>1. port' = port /\ port[c].is_open
        BY <1>3, <2>1, <2>5, <3>6 DEF Ends, DeviceInv
      <4>2. port[c].s \in fds
        <5>1. FdOf(c) = port[c].s
          BY <2>2, <2>5, <3>6, OnlyCloser DEF FdOf, Ending
        <5>2. QED
          BY <1>3, <2>5, <4>1, <5>1 DEF OwnInv
      <4>3. QED
        BY <2>1, <2>5, <3>1, <3>6, <4>1, <4>2 DEF Ends, Ending, Working
    <3>7. QED
      BY <2>5, <3>2, <3>3, <3>4, <3>5, <3>6 DEF Driving
  <2>6. ASSUME c \in Listed, c = d, call[t].pc \in Driving \cup Ending
        PROVE  call'[t].pc \in Working => call'[t].ctx = c
    BY <2>1, <2>2, <2>6 DEF Turn, Idle, Working
  <2>7. QED
    BY <2>3, <2>4, <2>5, <2>6
<1>4. QED
  BY <1>1, <1>2, <1>3 DEF Next, DeviceInv

(* What holds of the device while no two threads open or close a port at   *)
(* once and serial_new closes no descriptor that it has not set.           *)
LEMMA StateInit ==
  ASSUME Init
  PROVE  OpenInv /\ StateInv /\ OwnInv /\ DeviceInv
<1>1. OpenInv
  BY OpenInit
<1>2. QED
  BY <1>1 DEF Init, StateInv, OwnInv, DeviceInv, Listed, Idle

(* A port that nobody opens or closes is counted as open exactly when the  *)
(* driver holds a descriptor for it, if no two threads open or close a     *)
(* port at once, serial_new closes none by chance, and the driver's close  *)
(* succeeds (serial_open, serial_close).                                   *)
THEOREM AlwaysOpenMatchesDevice ==
  ASSUME "open_race" \notin Env, "close_fail" \notin Env, "stray_fd" \notin Env
  PROVE  Spec => []OpenMatchesDevice
<1>1. Init => OpenInv /\ StateInv /\ OwnInv /\ DeviceInv
  BY StateInit
<1>2. IInv /\ OpenInv /\ [Next]_vars => OpenInv'
  BY OpenStep
<1>3. IInv /\ OpenInv /\ StateInv /\ OpenInv' /\ [Next]_vars => StateInv'
  BY StateStep
<1>4. IInv /\ OpenInv /\ OwnInv /\ [Next]_vars => OwnInv'
  BY OwnStep
<1>5. IInv /\ OpenInv /\ StateInv /\ OwnInv /\ DeviceInv /\ OpenInv' /\ [Next]_vars => DeviceInv'
  BY DeviceStep
<1>6. IInv /\ StateInv /\ DeviceInv => OpenMatchesDevice
  BY DEF StateInv, DeviceInv, OpenMatchesDevice, Working, IInv, CallInv, OpFits, InOpenOrClose,
         Opening, Shutting
<1>7. QED
  BY <1>1, <1>2, <1>3, <1>4, <1>5, <1>6, AlwaysIInv, PTL DEF Spec

(* The driver opens a device only for a port that has no descriptor: the   *)
(* tests of opencount and is_open in serial_open still hold when the       *)
(* driver opens, under the same conditions.                                *)
THEOREM AlwaysOpensOnlyWhenClosed ==
  ASSUME "open_race" \notin Env, "close_fail" \notin Env, "stray_fd" \notin Env
  PROVE  Spec => OpensOnlyWhenClosed
<1>1. Init => OpenInv /\ StateInv /\ OwnInv /\ DeviceInv
  BY StateInit
<1>2. IInv /\ OpenInv /\ [Next]_vars => OpenInv'
  BY OpenStep
<1>3. IInv /\ OpenInv /\ StateInv /\ OpenInv' /\ [Next]_vars => StateInv'
  BY StateStep
<1>4. IInv /\ OpenInv /\ OwnInv /\ [Next]_vars => OwnInv'
  BY OwnStep
<1>5. IInv /\ OpenInv /\ StateInv /\ OwnInv /\ DeviceInv /\ OpenInv' /\ [Next]_vars => DeviceInv'
  BY DeviceStep
<1>6. IInv /\ StateInv /\ DeviceInv =>
        \A t \in Thread : call[t].pc = "opening" => port[call[t].ctx].s = NoFd
  BY OnListed DEF StateInv, DeviceInv, Unlocked, Opening
<1>7. (\A t \in Thread : call[t].pc = "opening" => port[call[t].ctx].s = NoFd) =>
        [\A t \in Thread : call[t].pc = "opening" /\ call'[t].pc # "opening"
                             => port[call[t].ctx].s = NoFd]_vars
  OBVIOUS
<1>8. QED
  BY <1>1, <1>2, <1>3, <1>4, <1>5, <1>6, <1>7, AlwaysIInv, PTL DEF Spec, OpensOnlyWhenClosed

(* Every open descriptor is in a port.                                     *)
KeptInv == fds \subseteq {FdOf(c) : c \in Listed}

(* Every step keeps this, if the driver's close succeeds and opens a       *)
(* device only for a port that has none.                                   *)
LEMMA KeptStep ==
  ASSUME IInv, OpenInv, StateInv, OwnInv, DeviceInv, KeptInv, [Next]_vars,
         "stray_fd" \notin Env, "close_fail" \notin Env
  PROVE  KeptInv'
<1>1. CASE UNCHANGED vars
  BY <1>1 DEF vars, KeptInv, Listed, FdOf, Forgetting
<1>2. ASSUME NEW t \in Thread, Starts(t)
      PROVE  KeptInv'
  BY <1>2, StartFds DEF KeptInv
<1>3. ASSUME NEW t \in Thread, Runs(t)
      PROVE  KeptInv'
  <2> PICK d : /\ d = call[t].ctx
               /\ FdsKept \/ (call[t].pc = "opening" /\ FdOpened(d)) \/ FdClosed(d)
    BY <1>3, RunFds
  <2>1. CASE FdsKept
    BY <2>1 DEF FdsKept, KeptInv
  <2>2. CASE call[t].pc = "opening" /\ FdOpened(d)
    <3>1. port[d].s = NoFd /\ NoFd \notin fds
      BY <2>2, SerialPortAssumption DEF StateInv, DeviceInv, FdOpened, NoFd, IInv, Types
    <3>2. FdOf(d) = NoFd
      BY <3>1 DEF FdOf
    <3>3. QED
      BY <2>2, <3>1, <3>2 DEF FdOpened, KeptInv
  <2>3. CASE FdClosed(d)
    BY <2>3 DEF FdClosed, KeptInv
  <2>4. QED
    BY <2>1, <2>2, <2>3
<1>4. QED
  BY <1>1, <1>2, <1>3 DEF Next

(* The open descriptors are those of the ports, one each: none is lost     *)
(* when ports are opened, closed, opened twice or destroyed while open, if *)
(* no two threads open or close a port at once, serial_new closes none by  *)
(* chance, and the driver's close succeeds (unix_serial_open,              *)
(* unix_serial_close, serial_destory).                                     *)
THEOREM AlwaysNoDescriptorLost ==
  ASSUME "open_race" \notin Env, "close_fail" \notin Env, "stray_fd" \notin Env
  PROVE  Spec => []NoDescriptorLost
<1>1. Init => OpenInv /\ StateInv /\ OwnInv /\ DeviceInv /\ KeptInv
  BY StateInit DEF Init, KeptInv
<1>2. IInv /\ OpenInv /\ [Next]_vars => OpenInv'
  BY OpenStep
<1>3. IInv /\ OpenInv /\ StateInv /\ OpenInv' /\ [Next]_vars => StateInv'
  BY StateStep
<1>4. IInv /\ OpenInv /\ OwnInv /\ [Next]_vars => OwnInv'
  BY OwnStep
<1>5. IInv /\ OpenInv /\ StateInv /\ OwnInv /\ DeviceInv /\ OpenInv' /\ [Next]_vars => DeviceInv'
  BY DeviceStep
<1>6. IInv /\ OpenInv /\ StateInv /\ OwnInv /\ DeviceInv /\ KeptInv /\ [Next]_vars => KeptInv'
  BY KeptStep
<1>7. IInv /\ OwnInv /\ KeptInv => NoDescriptorLost
  <2>1. IInv => NoFd \notin fds
    BY SerialPortAssumption DEF NoFd, IInv, Types
  <2>2. QED
    BY <2>1 DEF OwnInv, KeptInv, NoDescriptorLost
<1>8. QED
  BY <1>1, <1>2, <1>3, <1>4, <1>5, <1>6, <1>7, AlwaysIInv, PTL DEF Spec

-----------------------------------------------------------------------------
(* Reading, writing and flushing.                                          *)

(* A thread that has found its port open keeps it open: whoever closes the *)
(* port meanwhile is not the last to.                                      *)
IoInv ==
  /\ \A t \in Thread : call[t].pc \in {"wait", "transfer"} => port[call[t].ctx].is_open
  /\ \A t, u \in Thread : InIo(t, call[u].ctx) /\ Closing(u, call[u].ctx) =>
        port[call[u].ctx].opencount > IF call[u].pc \in Ending \cup {"closed"} THEN 0 ELSE 1

(* Where a thread stands in serial_close.                                  *)
LEMMA ClosePlaces ==
  ASSUME IInv, NEW t \in Thread, call[t].op = "close"
  PROVE  call[t].pc \in {"walk"} \cup Shutting
<1>1. call[t].pc \in Place /\ OpFits(call[t])
  BY DEF IInv, Types, CallInv
<1>2. QED
  BY <1>1 DEF OpFits, Place, Newing, Opening, Shutting, Doing, Burying

(* Every step keeps this, even if the driver's close fails.                *)
LEMMA IoStep ==
  ASSUME IInv, OpenInv, StateInv, IoInv, [Next]_vars, "io_race" \notin Env
  PROVE  IoInv'
<1> DEFINE Least(pc) == IF pc \in Ending \cup {"closed"} THEN 0 ELSE 1
<1>1. CASE UNCHANGED vars
  BY <1>1 DEF vars, IoInv, InIo, Closing
<1>2. ASSUME NEW t \in Thread, Starts(t)
      PROVE  IoInv'
  <2>1. port' = port /\ \A u \in Thread \ {t} : call'[u] = call[u]
    BY <1>2, StartTurns
  <2>2. call'[t].pc \notin {"wait", "transfer", "closed"} \cup Ending
    BY <1>2, StartTurns DEF Ending
  <2>3. ASSUME NEW u \in Thread \ {t}, call'[t].op \in Io, Closing(u, call'[t].ctx)
        PROVE  port[call[u].ctx].opencount > 1
    BY <1>2, <2>3, StartTurns DEF Polite, Closing, Io
  <2>4. ASSUME NEW u \in Thread \ {t}, call'[t].op = "close", InIo(u, call'[t].ctx)
        PROVE  port[call[u].ctx].opencount > 1
    BY <1>2, <2>4, StartTurns DEF Polite, InIo
  <2>5. ASSUME NEW u \in Thread, NEW v \in Thread,
               call'[u].op \in Io, call'[v].op = "close", call'[u].ctx = call'[v].ctx
        PROVE  port[call'[v].ctx].opencount > Least(call'[v].pc)
    <3>1. CASE u # t /\ v # t
      BY <2>1, <2>5, <3>1 DEF IoInv, InIo, Closing
    <3>2. CASE u = t
      <4>1. v # t /\ call'[v] = call[v]
        BY <2>1, <2>5, <3>2 DEF Io
      <4>2. port[call'[v].ctx].opencount > 1
        BY <2>1, <2>3, <2>5, <3>2, <4>1 DEF Closing
      <4>3. port[call'[v].ctx].opencount \in Nat
        <5>1. call[v].pc \in Unlocked
          BY <2>5, <4>1, ClosePlaces DEF Unlocked
        <5>2. QED
          BY <4>1, <5>1, OnListed DEF OpenInv
      <4>4. QED
        BY <4>2, <4>3
    <3>3. CASE v = t
      <4>1. u # t /\ call'[u] = call[u]
        BY <2>1, <2>5, <3>3 DEF Io
      <4>2. QED
        BY <2>1, <2>2, <2>4, <2>5, <3>3, <4>1 DEF InIo
    <3>4. QED
      BY <3>1, <3>2, <3>3
  <2>6. QED
    BY <2>1, <2>2, <2>5 DEF IoInv, InIo, Closing
<1>3. ASSUME NEW t \in Thread, Runs(t)
      PROVE  IoInv'
  <2> DEFINE d == call[t].ctx
  <2>1. Turn(t) /\ PortStep(t) /\ Drives(t) /\ Ends(t) /\ Arrives(t)
    BY <1>3, RunTurns, RunAlters, RunDrives, RunEnds, RunArrives
  <2>2. \A u \in Thread : OpFits(call[u])
    BY DEF IInv, CallInv
  <2>3. call[t].pc \in Unlocked => d \in Listed /\ d \in Listed'
    <3>1. call[t].pc \in Unlocked => d \in Listed /\ call[t].pc # "bury"
      BY OnListed DEF Unlocked, Opening, Shutting, Doing
    <3>2. QED
      BY <2>1, <3>1 DEF PortStep
  <2>4. call[t].pc \in Unlocked \ Driving => Same(d)
    BY <1>3, <2>3, SameUnlessDriven
  <2>5. ASSUME NEW u \in Thread, call'[u].pc \in {"wait", "transfer"}
        PROVE  port'[call'[u].ctx].is_open
    <3>1. CASE u # t
      <4> DEFINE c == call[u].ctx
      <4>1. call'[u] = call[u] /\ call[u].pc \in {"wait", "transfer"} /\ call[u].op = "io"
        BY <2>1, <2>2, <2>5, <3>1 DEF Turn, OpFits, Doing
      <4>2. port[c].is_open
        BY <4>1 DEF IoInv
      <4>3. c \in Listed /\ c \in Listed'
        BY <1>3, <3>1, <4>1, StaysListed DEF Newing
      <4>4. CASE c = d /\ call[t].pc \in Driving
        <5>1. CASE call[t].pc = "opening"
          BY <4>2, <4>4, <5>1 DEF StateInv
        <5>2. CASE call[t].pc = "count_up"
          BY <2>1, <4>1, <4>4, <5>2 DEF Drives
        <5>3. CASE call[t].pc = "count_down"
          BY <2>1, <4>1, <4>2, <4>4, <5>3 DEF Drives
        <5>4. CASE call[t].pc = "closed"
          <6>1. port[c].opencount > 0
            BY <2>2, <4>1, <4>4, <5>4 DEF IoInv, InIo, Io, Closing, OpFits, Shutting
          <6>2. port[c].opencount = 0
            BY <4>4, <5>4 DEF StateInv
          <6>3. QED
            BY <6>1, <6>2
        <5>5. QED
          BY <4>4, <5>1, <5>2, <5>3, <5>4 DEF Driving
      <4>5. CASE ~(c = d /\ call[t].pc \in Driving)
        <5>1. Same(c)
          BY <1>3, <4>3, <4>5, SameUnlessDriven
        <5>2. QED
          BY <4>1, <4>2, <5>1 DEF Same
      <4>6. QED
        BY <4>4, <4>5
    <3>2. CASE u = t
      <4>1. call[t].pc \in Doing /\ port[d].is_open
        BY <2>1, <2>5, <3>2 DEF Arrives, IoInv, Doing
      <4>2. Same(d) /\ call'[t].ctx = d
        BY <2>1, <2>2, <2>4, <2>5, <3>2, <4>1 DEF Turn, Idle, OpFits, Doing, Unlocked, Driving
      <4>3. QED
        BY <3>2, <4>1, <4>2 DEF Same
    <3>3. QED
      BY <3>1, <3>2
  <2>6. ASSUME NEW u \in Thread, NEW v \in Thread,
               call'[u].op \in Io, call'[v].op = "close", call'[u].ctx = call'[v].ctx
        PROVE  port'[call'[v].ctx].opencount > Least(call'[v].pc)
    <3> DEFINE c == call[v].ctx
    <3>1. /\ call[u].op \in Io /\ call[v].op = "close" /\ call[u].ctx = c
          /\ call'[v].ctx = c /\ call'[v] # Idle
      BY <2>1, <2>6 DEF Turn, Idle, Io
    <3>2. port[c].opencount > Least(call[v].pc)
      BY <3>1 DEF IoInv, InIo, Closing
    <3>3. CASE v # t
      <4>1. Same(c)
        BY <1>3, <3>1, <3>3, SameForOthers
      <4>2. QED
        BY <2>1, <3>1, <3>2, <3>3, <4>1 DEF Turn, Same
    <3>4. CASE v = t
      <4>1. call[t].pc \in {"walk"} \cup Shutting
        BY <2>2, <3>1, <3>4, ClosePlaces
      <4>2. port[d].opencount \in Nat
        BY <2>3, <4>1 DEF OpenInv, Unlocked
      <4>3. CASE call[t].pc = "count_down"
        <5>1. port'[d].opencount = port[d].opencount - 1 /\ call'[t].pc = "last"
          BY <2>1, <4>3 DEF Drives
        <5>2. port[d].opencount > 1
          BY <3>2, <3>4, <4>3 DEF Ending
        <5>3. QED
          BY <3>1, <3>4, <4>2, <5>1, <5>2 DEF Ending
      <4>4. CASE call[t].pc = "last"
        BY <2>1, <3>1, <3>2, <3>4, <4>4 DEF Ends, Ending
      <4>5. CASE call[t].pc \in {"restore", "closing", "closed"}
        <5>1. port[d].opencount = 0 /\ port[d].opencount > 0
          BY <3>2, <3>4, <4>5 DEF StateInv, Ending
        <5>2. QED
          BY <5>1
      <4>6. CASE call[t].pc \in {"walk", "check"}
        <5>1. Same(d)
          BY <2>4, <4>6 DEF Unlocked, Driving, Shutting
        <5>2. call'[t].pc \notin Ending \cup {"closed"}
          BY <2>1, <3>2, <3>4, <4>2, <4>6 DEF Arrives, Ending
        <5>3. QED
          BY <3>1, <3>2, <3>4, <4>6, <5>1, <5>2 DEF Same, Ending
      <4>7. QED
        BY <4>1, <4>3, <4>4, <4>5, <4>6 DEF Shutting
    <3>5. QED
      BY <3>3, <3>4
  <2>7. QED
    BY <2>5, <2>6 DEF IoInv, InIo, Closing
<1>4. QED
  BY <1>1, <1>2, <1>3 DEF Next

(* A thread in serial_read or serial_write uses an open descriptor, and    *)
(* serial_clean, which tests nothing, an open one or none, on both drivers *)
(* and whether or not their close fails, if the last close of a port is    *)
(* never made while another thread is in I/O on it, no two threads open or *)
(* close a port at once, and serial_new closes none by chance.             *)
THEOREM AlwaysIoOnOpenDevice ==
  ASSUME "open_race" \notin Env, "io_race" \notin Env, "stray_fd" \notin Env
  PROVE  Spec => []IoOnOpenDevice
<1>1. Init => OpenInv /\ StateInv /\ OwnInv /\ IoInv
  <2>1. Init => OpenInv /\ StateInv /\ OwnInv
    BY StateInit
  <2>2. Init => \A t \in Thread : call[t].op = "none" /\ call[t].pc = "idle"
    BY DEF Init, Idle
  <2>3. QED
    BY <2>1, <2>2 DEF IoInv, InIo, Io
<1>2. IInv /\ OpenInv /\ [Next]_vars => OpenInv'
  BY OpenStep
<1>3. IInv /\ OpenInv /\ StateInv /\ OpenInv' /\ [Next]_vars => StateInv'
  BY StateStep
<1>4. IInv /\ OpenInv /\ OwnInv /\ [Next]_vars => OwnInv'
  BY OwnStep
<1>5. IInv /\ OpenInv /\ StateInv /\ IoInv /\ [Next]_vars => IoInv'
  BY IoStep
<1>6. IInv /\ StateInv /\ OwnInv /\ IoInv => IoOnOpenDevice
  <2> SUFFICES ASSUME IInv, StateInv, OwnInv, IoInv, NEW t \in Thread,
                      call[t].pc \in {"wait", "transfer", "flush"}
               PROVE  /\ call[t].pc \in {"wait", "transfer"} => port[call[t].ctx].s \in fds
                      /\ call[t].pc = "flush" => port[call[t].ctx].s \in fds \cup {NoFd}
    BY DEF IoOnOpenDevice
  <2>1. call[t].ctx \in Listed /\ call[t].op \in Io
    BY OnListed DEF Unlocked, Doing, IInv, CallInv, OpFits, Io
  <2>2. ~Forgetting(call[t].ctx)
    <3> SUFFICES ASSUME NEW u \in Thread, call[u].ctx = call[t].ctx, call[u].pc = "closed"
                 PROVE  FALSE
      BY DEF Forgetting
    <3>1. call[u].op = "close"
      BY DEF IInv, CallInv, OpFits, Shutting
    <3>2. port[call[u].ctx].opencount > 0 /\ port[call[u].ctx].opencount = 0
      BY <2>1, <3>1 DEF IoInv, StateInv, InIo, Closing
    <3>3. QED
      BY <3>2
  <2>3. port[call[t].ctx].s \in fds \cup {NoFd}
    BY <2>1, <2>2 DEF OwnInv, FdOf
  <2>4. QED
    BY <2>1, <2>3 DEF IoInv, StateInv
<1>7. QED
  BY <1>1, <1>2, <1>3, <1>4, <1>5, <1>6, AlwaysIInv, PTL DEF Spec

-----------------------------------------------------------------------------
(* The leases of PortLease, for every Env.                                 *)

(* The port that t is about to share is there for it to share.             *)
Agrees(t) ==
  /\ port[call[t].ctx].refcount > 0
  /\ \A r \in call[t].want : Compatible(call[t].ctx, r)

(* Whoever is about to share a port agrees with its terms, and somebody    *)
(* still has it; only the thread that is about to free it keeps a port     *)
(* listed that nobody has; no port was created with an invalid parity.     *)
LeaseInv ==
  /\ \A t \in Thread : call[t].pc = "share" => Agrees(t)
  /\ \A c \in Listed : port[c].refcount = 0 =>
       \E t \in Thread : call[t].pc = "bury" /\ call[t].ctx = c
  /\ \A c \in Listed : port[c].setting \notin Invalid

(* Every step keeps this, for every Env.                                   *)
LEMMA LeaseStep ==
  ASSUME IInv, LeaseInv, [Next]_vars
  PROVE  LeaseInv'
<1>1. CASE UNCHANGED vars
  BY <1>1 DEF vars, LeaseInv, Agrees, Listed, Compatible
<1>2. ASSUME NEW t \in Thread, Starts(t)
      PROVE  LeaseInv'
  <2>1. port' = port /\ Listed' = Listed /\ \A u \in Thread \ {t} : call'[u] = call[u]
    BY <1>2, StartTurns DEF Listed
  <2>2. call'[t].pc # "share" /\ call[t].pc = "idle"
    BY <1>2, StartTurns DEF Starts, NewStarts, CallStarts, DestoryStarts, AtPc
  <2>3. QED
    BY <2>1, <2>2 DEF LeaseInv, Agrees, Compatible
<1>3. ASSUME NEW t \in Thread, Runs(t)
      PROVE  LeaseInv'
  <2>1. Turn(t) /\ PortStep(t) /\ Types
    BY <1>3, RunTurns, RunAlters DEF IInv
  <2>2. \A u \in Thread : call[u].pc \in Locked <=> g = u
    BY DEF IInv, CallInv
  <2>3. \A c \in Listed : c \in Ctx /\ port[c].refcount \in Nat
    <3>1. \A q \in Port(Int) : q.refcount \in Nat
      BY DEF Port
    <3>2. QED
      BY <2>1, <3>1, ListedPort
  <2>4. ASSUME NEW u \in Thread, call'[u].pc = "share"
        PROVE  Agrees(u)'
    <3>1. CASE u # t
      <4> DEFINE c == call[u].ctx
      <4>1. call'[u] = call[u] /\ call[u].pc = "share"
        BY <2>1, <2>4, <3>1 DEF Turn
      <4>2. call[t].pc \notin Locked
        BY <2>2, <3>1, <4>1 DEF Locked
      <4>3. c \in Listed
        BY <4>1 DEF IInv, CallInv
      <4>4. c \in Listed'
        BY <2>1, <4>2, <4>3 DEF PortStep, Locked
      <4>5. SameAs(port'[c], port[c]) /\ port'[c].refcount = port[c].refcount
        BY <2>1, <4>2, <4>3, <4>4 DEF PortStep, Stays, Alter, Locked
      <4>6. QED
        BY <4>1, <4>5 DEF LeaseInv, Agrees, Compatible, SameAs
    <3>2. CASE u = t
      <4>1. NewFinds(t)
        <5>1. ~Return(t)
          BY <2>1, <2>4, <3>2, ReturnCall DEF Idle
        <5>2. \A pc \in Place \ {"share"} : ~Goto(t, pc)
          BY <2>1, <2>4, <3>2 DEF Goto, Types
        <5>3. ~Walk(t)
          <6> SUFFICES ASSUME Walk(t) PROVE FALSE
            OBVIOUS
          <6>1. call[t].pc = "walk" /\ call[t].op \in Op
            BY DEF Walk, AtPc, IInv, CallInv, OpFits
          <6>2. Found[call[t].op] \in Place \ {"share"}
            BY <6>1 DEF Found, Op, Place
          <6>3. QED
            BY <2>1, <2>4, <3>2, <5>1, <5>2, <6>1, <6>2 DEF Walk, Types
        <5>4. ASSUME \/ NewLocks(t) \/ OpenTests(t) \/ DriverTests(t) \/ DriverOpens(t) \/ CloseTests(t)
                     \/ CloseCounts(t) \/ CloseEnds(t) \/ DriverRestores(t) \/ DriverCloses(t)
                     \/ IoTests(t) \/ IoWaits(t) \/ IoTransfers(t)
                     \/ DestoryLocks(t) \/ DestoryCounts(t)
              PROVE  Return(t) \/ \E pc \in Place \ {"share"} : Goto(t, pc)
          BY <5>4 DEF NewLocks, OpenTests, DriverTests, DriverOpens, CloseTests, CloseCounts,
                      CloseEnds, DriverRestores, DriverCloses, IoTests, IoWaits, IoTransfers,
                      DestoryLocks, DestoryCounts, Place
        <5>5. ASSUME \/ NewRefuses(t) \/ NewShares(t) \/ NewCreates(t) \/ NewRejects(t)
                     \/ DriverOpenFails(t) \/ OpenCounts(t) \/ DriverForgets(t)
                     \/ LockAcquires(t) \/ UnlockReleases(t) \/ CleanFlushes(t) \/ DestoryEnds(t)
              PROVE  Return(t)
          BY <5>5 DEF NewRefuses, NewShares, NewCreates, NewRejects, DriverOpenFails, OpenCounts,
                      DriverForgets, LockAcquires, UnlockReleases, CleanFlushes, DestoryEnds
        <5>6. QED
          BY <1>3, <5>1, <5>2, <5>3, <5>4, <5>5 DEF Runs
      <4>2. PICK r \in call[t].want : \E c \in On(r.device) :
              Compatible(c, r) /\ call' = [call EXCEPT ![t].pc = "share", ![t].ctx = c]
        <5>1. ~Goto(t, "create")
          BY <2>1, <2>4, <3>2 DEF Goto, Types
        <5>2. QED
          BY <4>1, <5>1 DEF NewFinds
      <4>3. PICK c \in On(r.device) :
              Compatible(c, r) /\ call' = [call EXCEPT ![t].pc = "share", ![t].ctx = c]
        BY <4>2
      <4>4. call'[t].ctx = c /\ call'[t].want = call[t].want /\ port' = port
        <5>1. call[t] \in Call /\ call'[t] = [call[t] EXCEPT !.pc = "share", !.ctx = c]
          BY <2>1, <4>3 DEF Types, Call
        <5>2. port' = port
          BY <4>1 DEF NewFinds
        <5>3. QED
          BY <5>1, <5>2 DEF Call
      <4>5. call[t].want = {r}
        BY <4>1, <4>2 DEF IInv, CallInv, NewFinds, AtPc, Newing
      <4>6. c \in Listed /\ port[c].refcount # 0
        <5>1. call[t].pc = "register"
          BY <4>1 DEF NewFinds, AtPc
        <5>2. \A v \in Thread : call[v].pc # "bury"
          BY <2>2, <5>1 DEF Locked
        <5>3. QED
          BY <5>2, <2>1, <4>3, ListedPort DEF LeaseInv
      <4>7. port'[call'[t].ctx].refcount > 0
        <5>1. port[c].refcount \in Nat
          BY <2>3, <4>6
        <5>2. QED
          BY <4>4, <4>6, <5>1
      <4>8. \A q \in call'[t].want : q = r
        BY <4>4, <4>5
      <4>9. port'[call'[t].ctx] = port[c] /\ Compatible(c, r)
        BY <4>4, <4>3
      <4>10. QED
        BY <3>2, <4>7, <4>8, <4>9 DEF Agrees, Compatible
    <3>3. QED
      BY <3>1, <3>2
  <2>5. ASSUME NEW c \in Listed', port'[c].refcount = 0
        PROVE  \E u \in Thread : call'[u].pc = "bury" /\ call'[u].ctx = c
    <3>1. c \in Listed
      <4>1. \A r : NewPort(r).refcount = 1
        BY DEF NewPort
      <4>2. QED
        BY <2>1, <2>5, <4>1 DEF PortStep, Stays
    <3>2. Alter(t, c, port'[c])
      BY <2>1, <3>1 DEF PortStep, Stays
    <3>3. CASE port[c].refcount = 0
      <4>1. PICK u \in Thread : call[u].pc = "bury" /\ call[u].ctx = c
        BY <3>1, <3>3 DEF LeaseInv
      <4>2. CASE u # t
        BY <2>1, <4>1, <4>2 DEF Turn
      <4>3. CASE u = t
        <5>1. DestoryEnds(t)
          BY <1>3, <4>1, <4>3 DEF Runs, AtPc, NewLocks, NewRefuses, NewFinds, NewShares, NewCreates,
             NewRejects, Walk, OpenTests, DriverTests, DriverOpens, DriverOpenFails, OpenCounts, CloseTests,
             CloseCounts, CloseEnds, DriverRestores, DriverCloses, DriverForgets, LockAcquires,
             UnlockReleases, IoTests, IoWaits, IoTransfers, CleanFlushes,
             DestoryLocks, DestoryCounts
        <5>2. port' = [port EXCEPT ![c] = Freed]
          BY <3>3, <4>1, <4>3, <5>1 DEF DestoryEnds
        <5>3. QED
          BY <2>1, <2>3, <3>1, <5>2, SMTT(30) DEF Types, Listed
      <4>4. QED
        BY <4>2, <4>3
    <3>4. CASE port[c].refcount # 0
      <4>1. call[t].pc = "drop" /\ call[t].ctx = c
        BY <2>3, <2>5, <3>1, <3>2, <3>4 DEF Alter
      <4>2. DestoryCounts(t)
        BY <1>3, <4>1 DEF Runs, AtPc, NewLocks, NewRefuses, NewFinds, NewShares, NewCreates,
             NewRejects, Walk, OpenTests, DriverTests, DriverOpens, DriverOpenFails, OpenCounts, CloseTests,
             CloseCounts, CloseEnds, DriverRestores, DriverCloses, DriverForgets, LockAcquires,
             UnlockReleases, IoTests, IoWaits, IoTransfers, CleanFlushes,
             DestoryLocks, DestoryEnds
      <4>3. call'[t].pc = "bury" /\ call'[t].ctx = c
        BY <2>1, <4>1, <4>2 DEF DestoryCounts, Goto, Types
      <4>4. QED
        BY <4>3
    <3>5. QED
      BY <3>3, <3>4
  <2>6. ASSUME NEW c \in Listed'
        PROVE  port'[c].setting \notin Invalid
    <3>1. \A r : NewPort(r).setting = r.setting
      BY DEF NewPort
    <3>2. QED
      BY <2>1, <3>1 DEF PortStep, Stays, Alter, SameAs, LeaseInv
  <2>7. QED
    BY <2>4, <2>5, <2>6 DEF LeaseInv
<1>4. QED
  BY <1>1, <1>2, <1>3 DEF Next

-----------------------------------------------------------------------------
(* A device is leased on the terms of its port, to as many holders as have *)
(* a reference to it.                                                      *)
LeaseDef ==
  /\ \A c \in Listed : port[c].refcount > 0 =>
       LeaseOf(port[c].device) = [terms |-> {TermsOf(port[c])}, holders |-> port[c].refcount]
  /\ \A d : (\A c \in Listed : port[c].device = d => ~(port[c].refcount > 0)) =>
       LeaseOf(d) = [terms |-> {}, holders |-> 0]

(* LeaseOf says no more than that.                                         *)
LEMMA LeaseIs ==
  ASSUME IInv, LeaseInv
  PROVE  LeaseDef
<1>1. ASSUME NEW c \in Listed, port[c].refcount > 0
      PROVE  LeaseOf(port[c].device) = [terms |-> {TermsOf(port[c])}, holders |-> port[c].refcount]
  <2> DEFINE leased == {b \in On(port[c].device) : port[b].refcount > 0}
             agreed == {TermsOf(port[c])} \cup UNION {{TermsOf(r) : r \in call[t].want} : t \in Joining(c)}
  <2>1. leased = {c}
    BY <1>1 DEF IInv, OnePortPerDevice, On
  <2>2. \A t \in Joining(c) : \A r \in call[t].want : TermsOf(r) = TermsOf(port[c])
    <3>1. port[c].shared \in BOOLEAN
      BY ListedPort DEF IInv, Port
    <3>2. ASSUME NEW t \in Joining(c), NEW r \in call[t].want
          PROVE  TermsOf(r) = TermsOf(port[c])
      <4>1. Compatible(c, r)
        BY DEF Joining, LeaseInv, Agrees
      <4>2. r.shared \in BOOLEAN
        BY SerialPortAssumption DEF Joining, IInv, Types
      <4>3. r.shared = port[c].shared /\ r.setting = port[c].setting
        BY <3>1, <4>1, <4>2 DEF Compatible
      <4>4. QED
        BY <4>3 DEF TermsOf
    <3>3. QED
      BY <3>2
  <2>3. agreed = {TermsOf(port[c])}
    BY <2>2
  <2>4. UNION {{TermsOf(port[b])} \cup UNION {{TermsOf(r) : r \in call[t].want} : t \in Joining(b)}
               : b \in {c}} = agreed
    OBVIOUS
  <2>5. (CHOOSE b \in {c} : TRUE) = c
    OBVIOUS
  <2> HIDE DEF agreed
  <2>6. LeaseOf(port[c].device) =
          [terms |-> UNION {{TermsOf(port[b])} \cup
                            UNION {{TermsOf(r) : r \in call[t].want} : t \in Joining(b)}
                            : b \in leased},
           holders |-> IF leased = {} THEN 0 ELSE port[CHOOSE b \in leased : TRUE].refcount]
    BY DEF LeaseOf
  <2> HIDE DEF leased
  <2>7. QED
    BY <2>1, <2>3, <2>4, <2>5, <2>6
<1>2. ASSUME NEW d, \A c \in Listed : port[c].device = d => ~(port[c].refcount > 0)
      PROVE  LeaseOf(d) = [terms |-> {}, holders |-> 0]
  <2>1. {b \in On(d) : port[b].refcount > 0} = {}
    BY <1>2 DEF On
  <2>2. QED
    BY <2>1 DEF LeaseOf
<1>3. QED
  BY <1>1, <1>2 DEF LeaseDef

(* What a lease becomes with one holder more or less. *)
LEMMA LeaseRecord ==
  ASSUME NEW T, NEW n \in Nat
  PROVE  LET l == [terms |-> T, holders |-> n]
         IN  /\ l.terms = T /\ l.holders = n
             /\ [l EXCEPT !.holders = n + 1] = [terms |-> T, holders |-> n + 1]
             /\ [l EXCEPT !.holders = n - 1] = [terms |-> T, holders |-> n - 1]
OBVIOUS

(* The leases of the devices whose ports keep their terms and references.  *)
LEMMA SameLease ==
  ASSUME LeaseDef, LeaseDef', NEW d,
         \A c \in Listed : port[c].device = d /\ port[c].refcount > 0 =>
           c \in Listed' /\ SameAs(port'[c], port[c]) /\ port'[c].refcount = port[c].refcount,
         \A c \in Listed' : port'[c].device = d /\ port'[c].refcount > 0 =>
           c \in Listed /\ SameAs(port'[c], port[c]) /\ port'[c].refcount = port[c].refcount
  PROVE  LeaseOf(d)' = LeaseOf(d)
<1>1. CASE \E c \in Listed : port[c].device = d /\ port[c].refcount > 0
  <2>1. PICK c \in Listed : port[c].device = d /\ port[c].refcount > 0
    BY <1>1
  <2>2. c \in Listed' /\ SameAs(port'[c], port[c]) /\ port'[c].refcount = port[c].refcount
    BY <2>1
  <2>3. LeaseOf(d) = [terms |-> {TermsOf(port[c])}, holders |-> port[c].refcount]
    BY <2>1 DEF LeaseDef
  <2>4. LeaseOf(d)' = [terms |-> {TermsOf(port'[c])}, holders |-> port'[c].refcount]
    BY <2>1, <2>2 DEF LeaseDef, SameAs
  <2>5. TermsOf(port'[c]) = TermsOf(port[c])
    BY <2>2 DEF TermsOf, SameAs
  <2>6. QED
    BY <2>2, <2>3, <2>4, <2>5
<1>2. CASE ~\E c \in Listed : port[c].device = d /\ port[c].refcount > 0
  <2>1. LeaseOf(d) = [terms |-> {}, holders |-> 0]
    BY <1>2 DEF LeaseDef
  <2>2. \A c \in Listed' : port'[c].device = d => ~(port'[c].refcount > 0)
    BY <1>2 DEF SameAs
  <2>3. LeaseOf(d)' = [terms |-> {}, holders |-> 0]
    BY <2>2 DEF LeaseDef
  <2>4. QED
    BY <2>1, <2>3
<1>3. QED
  BY <1>1, <1>2

(* A statement that neither counts a reference nor creates a port.         *)
LEMMA Quiet ==
  ASSUME IInv, IInv', LeaseDef, LeaseDef', NEW t \in Thread, Runs(t),
         call[t].pc \notin {"share", "drop"}, ~NewCreates(t), NEW d
  PROVE  LeaseOf(d)' = LeaseOf(d)
<1>1. PortStep(t)
  BY RunAlters
<1>2. \A c \in Listed \cap Listed' : SameAs(port'[c], port[c]) /\ port'[c].refcount = port[c].refcount
  BY <1>1 DEF PortStep, Stays, Alter
<1>3. \A c \in Listed \ Listed' : port[c].refcount = 0
  BY <1>1 DEF PortStep
<1>4. Listed' \subseteq Listed
  BY OnlyCreated
<1>5. QED
  BY <1>2, <1>3, <1>4, SameLease

(* One lease changes.                                                      *)
LEMMA OneLease ==
  ASSUME NEW d \in Device, NEW v, LeaseOf(d)' = v,
         \A e \in Device \ {d} : LeaseOf(e)' = LeaseOf(e)
  PROVE  [e \in Device |-> LeaseOf(e)]' = [[e \in Device |-> LeaseOf(e)] EXCEPT ![d] = v]
OBVIOUS

(* One port is counted up or down: the lease of its device is.             *)
LEMMA Recounted ==
  ASSUME IInv, LeaseDef, LeaseDef', NEW b \in Listed, Listed' = Listed,
         \A e \in Ctx \ {b} : port'[e] = port[e],
         SameAs(port'[b], port[b]), port[b].refcount > 0, port'[b].refcount \in Nat,
         NEW d, d = port[b].device
  PROVE  /\ LeaseOf(d) = [terms |-> {TermsOf(port[b])}, holders |-> port[b].refcount]
         /\ LeaseOf(d)' = [terms |-> IF port'[b].refcount = 0 THEN {} ELSE {TermsOf(port[b])},
                           holders |-> port'[b].refcount]
         /\ \A e \in Device \ {d} : LeaseOf(e)' = LeaseOf(e)
<1> DEFINE m == port'[b].refcount
<1>1. b \in Ctx /\ Listed \subseteq Ctx
  BY DEF Listed
<1>2. \A c \in Listed : port[c].device = d => c = b
  BY DEF IInv, OnePortPerDevice
<1>3. LeaseOf(d) = [terms |-> {TermsOf(port[b])}, holders |-> port[b].refcount]
  BY DEF LeaseDef
<1>4. TermsOf(port'[b]) = TermsOf(port[b]) /\ port'[b].device = d
  BY DEF TermsOf, SameAs
<1>5. ASSUME m = 0
      PROVE  LeaseOf(d)' = [terms |-> {}, holders |-> 0]
  <2>1. \A c \in Listed' : port'[c].device = d => ~(port'[c].refcount > 0)
    BY <1>1, <1>2, <1>5
  <2>2. QED
    BY <1>5, <2>1 DEF LeaseDef
<1>6. ASSUME m > 0
      PROVE  LeaseOf(d)' = [terms |-> {TermsOf(port[b])}, holders |-> m]
  <2>1. LeaseOf(d)' = [terms |-> {TermsOf(port'[b])}, holders |-> port'[b].refcount]
    BY <1>4, <1>6 DEF LeaseDef
  <2>2. QED
    BY <1>4, <1>6, <2>1
<1>7. ASSUME NEW e \in Device \ {d}
      PROVE  LeaseOf(e)' = LeaseOf(e)
  <2>1. \A c \in Listed : port[c].device = e => c # b
    OBVIOUS
  <2>2. \A c \in Listed \ {b} : SameAs(port'[c], port[c]) /\ port'[c].refcount = port[c].refcount
    BY <1>1 DEF SameAs
  <2>3. \A c \in Listed : port[c].device = e /\ port[c].refcount > 0 =>
           c \in Listed' /\ SameAs(port'[c], port[c]) /\ port'[c].refcount = port[c].refcount
    BY <2>1, <2>2
  <2>4. \A c \in Listed' : port'[c].device = e /\ port'[c].refcount > 0 =>
           c \in Listed /\ SameAs(port'[c], port[c]) /\ port'[c].refcount = port[c].refcount
    BY <1>4, <2>2
  <2>5. QED
    BY <2>3, <2>4, SameLease
<1>8. m = 0 \/ m > 0
  OBVIOUS
<1>9. QED
  BY <1>3, <1>5, <1>6, <1>7, <1>8

(* serial_new shares a port: one more holder.                              *)
LEMMA ShareJoins ==
  ASSUME IInv, IInv', LeaseInv, LeaseDef, LeaseDef', NEW t \in Thread, NewShares(t)
  PROVE  Lease!Next
<1> DEFINE c == call[t].ctx
<1>1. PICK b, p, n, d : b = c /\ p = port[b] /\ n = p.refcount /\ d = p.device
  OBVIOUS
<1>2. Types /\ call[t].pc = "share" /\ b \in Listed /\ b \in Ctx /\ p \in Port(Int)
  BY <1>1, ListedPort DEF IInv, CallInv, NewShares, AtPc
<1>3. n \in Nat /\ n > 0 /\ p.shared /\ d \in Device /\ p.setting \in Setting \ Invalid
  <2>1. \E r \in Request : call[t].want = {r}
    BY <1>2 DEF IInv, CallInv, Newing
  <2>2. Agrees(t)
    BY <1>2 DEF LeaseInv
  <2>3. n > 0 /\ p.shared /\ p.setting \notin Invalid
    BY <1>1, <1>2, <2>1, <2>2 DEF Agrees, Compatible, LeaseInv
  <2>4. QED
    BY <1>1, <1>2, <2>3 DEF Port
<1>4. PortStep(t) /\ port' = [port EXCEPT ![b].refcount = n + 1]
  BY <1>1, RunAlters DEF NewShares, Runs
<1>5. /\ \A e \in Ctx \ {b} : port'[e] = port[e]
      /\ port'[b].refcount = n + 1
  BY <1>1, <1>2, <1>3, <1>4 DEF Types, Port
<1>6. Listed' = Listed
  <2>1. Listed \subseteq Listed'
    BY <1>2, <1>4 DEF PortStep
  <2>2. QED
    BY <1>2, <2>1, OnlyCreated DEF Runs, NewCreates, AtPc
<1>7. SameAs(port'[b], port[b])
  BY <1>2, <1>4, <1>6 DEF PortStep, Stays, Alter
<1>8. PICK T : T = {TermsOf(p)} /\ T = {TermsOf(port[b])}
  BY <1>1
<1> DEFINE m == n + 1
<1>9. /\ LeaseOf(d) = [terms |-> T, holders |-> n]
      /\ LeaseOf(d)' = [terms |-> T, holders |-> n + 1]
      /\ \A e \in Device \ {d} : LeaseOf(e)' = LeaseOf(e)
  <2>1. m \in Nat /\ m # 0 /\ port'[b].refcount = m
    BY <1>3, <1>5
  <2> HIDE DEF m
  <2>2. port[b].refcount > 0 /\ d = port[b].device /\ n = port[b].refcount
    BY <1>1, <1>3
  <2>3. /\ LeaseOf(d) = [terms |-> {TermsOf(port[b])}, holders |-> port[b].refcount]
        /\ LeaseOf(d)' = [terms |-> IF port'[b].refcount = 0 THEN {} ELSE {TermsOf(port[b])},
                          holders |-> port'[b].refcount]
        /\ \A e \in Device \ {d} : LeaseOf(e)' = LeaseOf(e)
    BY <1>2, <1>5, <1>6, <1>7, <2>1, <2>2, Recounted
  <2>4. QED
    BY <1>8, <2>1, <2>2, <2>3 DEF m
<1>10. TermsOf(p) \in Lease!Terms /\ TermsOf(p).shared
  BY <1>2, <1>3 DEF TermsOf, Lease!Terms, Port
<1>11. LeaseOf(d)' = [LeaseOf(d) EXCEPT !.holders = @ + 1]
  BY <1>3, <1>9, LeaseRecord
<1>12. Lease!Join(d)
  <2> DEFINE all == [e \in Device |-> LeaseOf(e)]
  <2>1. all' = [all EXCEPT ![d] = LeaseOf(d)']
    BY <1>3, <1>9, OneLease
  <2>2. all[d] = LeaseOf(d) /\ LeaseOf(d).terms = {TermsOf(p)}
    BY <1>3, <1>8, <1>9, LeaseRecord
  <2>3. all' = [all EXCEPT ![d].holders = @ + 1]
    BY <1>11, <2>1, <2>2
  <2>4. QED
    BY <1>10, <2>2, <2>3 DEF Lease!Join
<1>13. QED
  BY <1>3, <1>12 DEF Lease!Next

(* serial_destory gives a reference up: one holder less.                   *)
LEMMA DropLeaves ==
  ASSUME IInv, IInv', LeaseInv, LeaseDef, LeaseDef', NEW t \in Thread, DestoryCounts(t)
  PROVE  Lease!Next
<1> DEFINE c == call[t].ctx
<1>1. PICK b, p, n, d : b = c /\ p = port[b] /\ n = p.refcount /\ d = p.device
  OBVIOUS
<1>2. Types /\ call[t].pc = "drop" /\ b \in Listed /\ held[t][b] > 0
  BY <1>1, OnListed DEF IInv, DestoryCounts, AtPc
<1>3. b \in Ctx /\ p \in Port(Int) /\ n > 0
  BY <1>1, <1>2, ListedPort, HeldListed
<1>4. n \in Nat /\ d \in Device
  BY <1>1, <1>3 DEF Port
<1>5. PortStep(t) /\ On(d) = {b}
  BY <1>1, <1>2, RunAlters DEF Runs, IInv, OnePortPerDevice, On
<1>6. port' = [port EXCEPT ![b].refcount = n - 1]
  BY <1>1, <1>3, <1>5 DEF DestoryCounts
<1>7. PICK m : m \in Nat /\ m = n - 1 
  BY <1>3, <1>4
<1>8. /\ \A e \in Ctx \ {b} : port'[e] = port[e]
      /\ port'[b].refcount = m
  BY <1>1, <1>2, <1>3, <1>4, <1>6, <1>7 DEF Types, Port
<1>9. Listed' = Listed
  <2>1. Listed \subseteq Listed'
    BY <1>2, <1>5 DEF PortStep
  <2>2. QED
    BY <1>2, <2>1, OnlyCreated DEF Runs, NewCreates, AtPc
<1>10. SameAs(port'[b], port[b])
  BY <1>2, <1>5, <1>9 DEF PortStep, Stays, Alter
<1> PICK T : T = {TermsOf(port[b])}
  OBVIOUS
<1>11. /\ LeaseOf(d) = [terms |-> T, holders |-> n]
       /\ LeaseOf(d)' = [terms |-> IF m = 0 THEN {} ELSE T, holders |-> m]
       /\ \A e \in Device \ {d} : LeaseOf(e)' = LeaseOf(e)
  <2>1. port[b].refcount > 0 /\ d = port[b].device /\ n = port[b].refcount
    BY <1>1, <1>3
  <2>2. port'[b].refcount \in Nat
    BY <1>7, <1>8
  <2>3. /\ LeaseOf(d) = [terms |-> {TermsOf(port[b])}, holders |-> port[b].refcount]
        /\ LeaseOf(d)' = [terms |-> IF port'[b].refcount = 0 THEN {} ELSE {TermsOf(port[b])},
                          holders |-> port'[b].refcount]
        /\ \A e \in Device \ {d} : LeaseOf(e)' = LeaseOf(e)
    BY <1>2, <1>8, <1>9, <1>10, <2>1, <2>2, Recounted
  <2>4. QED
    BY <1>8, <2>1, <2>3
<1>12. LeaseOf(d)' = IF m = 0 THEN Lease!Vacant ELSE [LeaseOf(d) EXCEPT !.holders = m]
  BY <1>11 DEF Lease!Vacant
<1>13. Lease!Leave(d)
  <2> DEFINE all == [e \in Device |-> LeaseOf(e)]
  <2>1. all' = [all EXCEPT ![d] = LeaseOf(d)']
    BY <1>4, <1>11, OneLease
  <2>2. all[d] = LeaseOf(d) /\ LeaseOf(d).holders = n
    BY <1>4, <1>11, LeaseRecord
  <2>3. all' = [all EXCEPT ![d] = IF m = 0 THEN Lease!Vacant ELSE [LeaseOf(d) EXCEPT !.holders = m]]
    BY <1>12, <2>1
  <2>4. m = all[d].holders - 1
    BY <1>7, <2>2
  <2>5. QED
    BY <1>3, <2>2, <2>3, <2>4 DEF Lease!Leave
<1>14. QED
  BY <1>4, <1>13 DEF Lease!Next

(* serial_new creates a port: the device, which nobody had, is leased.     *)
LEMMA CreateGrants ==
  ASSUME IInv, IInv', LeaseInv, LeaseDef, LeaseDef', NEW t \in Thread, NewCreates(t)
  PROVE  Lease!Next
<1>1. PICK r \in call[t].want, b \in Ctx \ Listed :
        r.setting \notin Invalid /\ port' = [port EXCEPT ![b] = NewPort(r)]
  BY DEF NewCreates
<1>2. Types /\ CallInv(t) /\ call[t].pc = "create"
  BY DEF IInv, NewCreates, AtPc
<1>3. r \in Request /\ On(r.device) = {}
  BY <1>1, <1>2 DEF Types, CallInv
<1>4. r.device \in Device /\ r.setting \in Setting \ Invalid /\ r.shared \in BOOLEAN
  BY <1>1, <1>3, SerialPortAssumption
<1> DEFINE p == NewPort(r)
           d == r.device
           T == {TermsOf(r)}
<1>5. /\ p.device = d /\ p.refcount = 1 /\ TermsOf(p) = TermsOf(r) /\ p # Freed
  <2>1. None \notin Device
    BY SerialPortAssumption
  <2>2. QED
    BY <1>4, <2>1 DEF NewPort, TermsOf, Freed
<1>6. port'[b] = p /\ \A e \in Ctx \ {b} : port'[e] = port[e]
  BY <1>1, <1>2 DEF Types
<1>7. Listed' = Listed \cup {b}
  BY <1>1, <1>5, <1>6 DEF Listed
<1> HIDE DEF p
<1>8. \A c \in Listed : c \in Ctx /\ c # b /\ port'[c] = port[c] /\ port[c].device # d
  BY <1>1, <1>3, <1>6 DEF Listed, On
<1>9. LeaseOf(d) = Lease!Vacant
  BY <1>8 DEF LeaseDef, Lease!Vacant
<1>10. LeaseOf(d)' = [terms |-> T, holders |-> 1]
  <2>1. b \in Listed' /\ port'[b].refcount > 0 /\ port'[b].device = d
    BY <1>5, <1>6, <1>7
  <2>2. LeaseOf(d)' = [terms |-> {TermsOf(port'[b])}, holders |-> port'[b].refcount]
    BY <2>1 DEF LeaseDef
  <2>3. QED
    BY <1>5, <1>6, <2>2
<1>11. ASSUME NEW e \in Device \ {d}
       PROVE  LeaseOf(e)' = LeaseOf(e)
  <2>1. \A c \in Listed : c \in Listed' /\ SameAs(port'[c], port[c]) /\ port'[c].refcount = port[c].refcount
    BY <1>7, <1>8 DEF SameAs
  <2>2. \A c \in Listed' : port'[c].device = e => c \in Listed
    BY <1>5, <1>6, <1>7
  <2>3. QED
    BY <2>1, <2>2, SameLease
<1>12. TermsOf(r) \in Lease!Terms
  BY <1>4 DEF TermsOf, Lease!Terms
<1>13. Lease!Grant(d)
  <2> DEFINE all == [e \in Device |-> LeaseOf(e)]
  <2>1. all' = [all EXCEPT ![d] = [terms |-> T, holders |-> 1]]
    BY <1>4, <1>10, <1>11, OneLease
  <2>2. all[d] = Lease!Vacant
    BY <1>4, <1>9
  <2>3. QED
    BY <1>12, <2>1, <2>2 DEF Lease!Grant
<1>14. QED
  BY <1>4, <1>13 DEF Lease!Next

(* Every step of the registry is a step of the leases, or changes none.    *)
LEMMA LeaseNext ==
  ASSUME IInv, IInv', LeaseInv, LeaseDef, LeaseDef', [Next]_vars
  PROVE  [Lease!Next]_[d \in Device |-> LeaseOf(d)]
<1> SUFFICES ASSUME ~Lease!Next
             PROVE  \A d \in Device : LeaseOf(d)' = LeaseOf(d)
  OBVIOUS
<1>1. CASE UNCHANGED vars
  BY <1>1 DEF vars, LeaseOf, On, Listed, Joining
<1>2. ASSUME NEW t \in Thread, Starts(t)
      PROVE  \A d \in Device : LeaseOf(d)' = LeaseOf(d)
  <2>1. port' = port /\ Listed' = Listed
    BY <1>2, StartTurns DEF Listed
  <2>2. QED
    BY <2>1, SameLease DEF SameAs
<1>3. ASSUME NEW t \in Thread, Runs(t)
      PROVE  \A d \in Device : LeaseOf(d)' = LeaseOf(d)
  <2>1. CASE NewShares(t) \/ NewCreates(t) \/ DestoryCounts(t)
    BY <2>1, ShareJoins, CreateGrants, DropLeaves
  <2>2. CASE ~(NewShares(t) \/ NewCreates(t) \/ DestoryCounts(t))
    <3>1. call[t].pc \notin {"share", "drop"}
      BY <1>3, <2>2 DEF Runs, AtPc, NewLocks, NewRefuses, NewFinds, NewRejects, Walk,
         OpenTests, DriverTests, DriverOpens, DriverOpenFails, OpenCounts, CloseTests,
         CloseCounts, CloseEnds, DriverRestores, DriverCloses, DriverForgets, LockAcquires,
         UnlockReleases, IoTests, IoWaits, IoTransfers, CleanFlushes,
         DestoryLocks, DestoryEnds
    <3>2. QED
      BY <1>3, <2>2, <3>1, Quiet, SMTT(30)
  <2>3. QED
    BY <2>1, <2>2
<1>4. QED
  BY <1>1, <1>2, <1>3 DEF Next

(* No device is leased at first.                                           *)
LEMMA LeaseFirst ==
  ASSUME Init
  PROVE  LeaseInv /\ Lease!Init
<1>1. Listed = {} /\ \A t \in Thread : call[t].pc = "idle"
  BY DEF Init, Listed, Idle
<1>2. LeaseInv
  BY <1>1 DEF LeaseInv
<1>3. \A d : LeaseOf(d) = [terms |-> {}, holders |-> 0]
  BY <1>1, <1>2, FirstInv, LeaseIs DEF LeaseDef
<1>4. QED
  BY <1>2, <1>3 DEF Lease!Init, Lease!Vacant

(* serial_new and serial_destory keep the promise of PortLease.            *)
THEOREM AlwaysLeased == Spec => ImplementsPortLease
<1> DEFINE all == [d \in Device |-> LeaseOf(d)]
<1>1. Init => LeaseInv /\ Lease!Init
  BY LeaseFirst
<1>2. IInv /\ LeaseInv /\ [Next]_vars => LeaseInv'
  BY LeaseStep
<1>3. IInv /\ LeaseInv => LeaseDef
  BY LeaseIs
<1>4. IInv /\ IInv' /\ LeaseInv /\ LeaseDef /\ LeaseDef' /\ [Next]_vars => [Lease!Next]_all
  BY LeaseNext
<1>5. QED
  BY <1>1, <1>2, <1>3, <1>4, AlwaysIInv, PTL DEF Spec, ImplementsPortLease, Lease!Spec

=============================================================================
